------------------------ MODULE PlanTransitionProofs ------------------------
(* Theorems about moves and claims, for any number of processes, any plan, *)
(* any machine and any of the faults, where none is ruled out by name.     *)
EXTENDS PlanTransition, SubsequencesProofs, FiniteSetTheorems, SequenceTheorems, WellFoundedInduction, TLAPS

-----------------------------------------------------------------------------
(* The inductive invariant: what a command holds, what it has read, and    *)
(* how the files stand to what it has read.                                *)

Pcs ==
    {"lock", "check", "charge", "open", "write", "place", "enter", "assign", "commit",
     "restore", "record", "finish", "take", "drop"}

\* Past the check of its edge.
Bound == Pcs \ {"lock", "check", "take", "drop"}

Counts == [State -> Nat]

ContentsOf(t) == [headings : [InFile(t) -> Heading], counts : [InManifest(t) -> Counts]]

Fields ==
    {"pc", "kind", "ticket", "from", "to", "message", "want", "before", "mark", "retry"}

CommandTyped(c) ==
    /\ DOMAIN c = Fields
    /\ c.pc \in Pcs /\ c.kind \in Kinds /\ c.ticket \in Ticket
    /\ c.from \in State /\ c.to \in State /\ c.mark \in Nat
    /\ c.pc # "lock" => c.before \in ContentsOf(c.ticket)
    /\ c.pc = "take" => c.kind = "take"
    /\ c.pc = "drop" => c.kind = "release"
    /\ c.pc \in Bound \cup {"check"} => c.kind \in {"claim", "move"}
    /\ c.pc \in {"open", "assign", "commit"} => c.kind = "claim"
    /\ c.pc \in {"record", "finish"} => c.kind = "move"

Holds(p) ==
    LET c == cmd[p]
    IN  /\ c.pc = "lock" =>
             \/ c.want = Locks(c.kind, c.ticket)
             \/ c.want = <<PlanFile[c.ticket]>> /\ holder[Manifest[c.ticket]] = p
        /\ c.pc # "lock" =>
             /\ c.want = <<>> /\ holder[PlanFile[c.ticket]] = p
             /\ c.kind # "release" => holder[Manifest[c.ticket]] = p
        /\ c.kind = "claim" /\ c.pc \in Bound \ {"charge", "open"} => holder[Ledger] = p

HeadingsAre(t, headings) == \A u \in InFile(t) : plan[u] = headings[u]

CountsAre(t, counts) == \A u \in InManifest(t) : visits[u] = counts[u]

AssignedHeadings(p) == [MovedHeadings(cmd[p]) EXCEPT ![cmd[p].ticket].assignee = p]

FilesStand(p) ==
    LET c == cmd[p]
        t == c.ticket
    IN  /\ c.pc \in {"take", "drop", "check", "charge", "open", "write", "place"} =>
             HeadingsAre(t, c.before.headings)
        /\ c.pc \in {"enter", "assign", "record", "finish"} => HeadingsAre(t, MovedHeadings(c))
        /\ c.pc = "commit" => HeadingsAre(t, AssignedHeadings(p))
        /\ c.pc = "restore" =>
             \/ HeadingsAre(t, c.before.headings) \/ HeadingsAre(t, MovedHeadings(c))
             \/ c.kind = "claim" /\ HeadingsAre(t, AssignedHeadings(p))
        /\ c.pc \in {"take", "check", "charge", "open", "write"} =>
             CountsAre(t, c.before.counts)
        /\ c.pc \in {"place", "enter", "assign", "commit", "record", "finish"} =>
             CountsAre(t, MovedCounts(c))
        /\ c.pc = "restore" =>
             CountsAre(t, c.before.counts) \/ CountsAre(t, MovedCounts(c))

Admitted(c) ==
    c.pc \in Bound =>
      /\ <<c.from, c.to>> \in Edges
      /\ c.before.headings[c.ticket].state = c.from
      /\ c.kind = "claim" => c.before.headings[c.ticket].assignee = None /\ ~Ends(c.to)
      /\ DescendantsEnded(c, c.to)

\* What a command may put back has nothing unfinished under an ended ticket.
BeforeWhole(c) ==
    c.pc # "lock" =>
      \A t \in InFile(c.ticket) : Ends(c.before.headings[t].state) =>
        \A u \in Descendants(t) : Ends(c.before.headings[u].state)

Process(p) ==
    cmd[p] # None =>
      /\ CommandTyped(cmd[p]) /\ Holds(p) /\ FilesStand(p)
      /\ Admitted(cmd[p]) /\ BeforeWhole(cmd[p])

StateTyped ==
    /\ plan \in [Ticket -> Heading]
    /\ visits \in [Ticket -> Counts]
    /\ results \subseteq Ticket
    /\ ledger \in Seq(Line \cup {Fragment, Garbled})
    /\ charges \in [Ticket -> 0..TravelLimit]
    /\ holder \in [Lock -> Proc \cup {None}]
    /\ left \in 0..MaxCommands
    /\ DOMAIN cmd = Proc

PlanInv == StateTyped /\ TerminalSubtree /\ \A p \in Proc : Process(p)

-----------------------------------------------------------------------------
(* Two more layers, each with what it asks of the machine.                 *)

\* No callback can take back a ticket's end.
EndsAreFinal == \A edge \in OnEnter : ~Ends(edge[2])

PriorsEnded(t) == \A u \in Prior[t] : Ends(plan[u].state)

PriorInv ==
    /\ ClaimsFollowPriors
    /\ \A p \in Proc : cmd[p] # None =>
         LET c == cmd[p]
         IN  /\ c.pc # "lock" =>
                  \A u \in InFile(c.ticket) : c.before.headings[u].assignee # None => PriorsEnded(u)
             /\ c.kind = "claim" /\ c.pc \in Bound => PriorsEnded(c.ticket)
             /\ c.pc \in {"enter", "restore"} => ~Ends(c.to)

\* No callback sends a ticket into a state that limits its visits.
RedirectsAreFree == \A edge \in Edges : \A s \in Redirects[edge] : VisitLimit[s] = 0

Within(counts) == \A s \in State : VisitLimit[s] > 0 => counts[s] <= VisitLimit[s]

LimitInv ==
    /\ VisitLimitHolds
    /\ \A p \in Proc : cmd[p] # None =>
         LET c == cmd[p]
         IN  /\ c.pc # "lock" => \A u \in InManifest(c.ticket) : Within(c.before.counts[u])
             /\ c.pc \in {"charge", "open", "write"} /\ VisitLimit[c.to] > 0 =>
                  Normalised(c.before.counts[c.ticket], c.from)[c.to] < VisitLimit[c.to]

-----------------------------------------------------------------------------
(* The ledger.                                                             *)

\* Behind a claim's mark there is no line yet.
MarkInv ==
    \A p \in Proc :
      cmd[p] # None /\ cmd[p].kind = "claim" /\ cmd[p].pc \in Bound \ {"charge", "open"} =>
        /\ cmd[p].mark <= Len(ledger)
        /\ \A n \in DOMAIN ledger : n > cmd[p].mark => ledger[n] \notin Line

Owing(p, t) ==
    /\ cmd[p] # None /\ cmd[p].ticket = t
    /\ cmd[p].pc \in Bound \ {"charge", "restore", "finish"}

PaidInv ==
    \A t \in Ticket :
      Cardinality(LinesOf(t)) + (IF \E p \in Proc : Owing(p, t) THEN 1 ELSE 0) <= charges[t]

\* With no other fault than a claim that fails.
FragmentsAreUndone ==
    \A n \in DOMAIN ledger : ledger[n] \notin Line =>
      \E p \in Proc :
        cmd[p] # None /\ cmd[p].kind = "claim" /\ cmd[p].pc = "restore" /\ n > cmd[p].mark

Counted(t, counts) ==
    \A s \in State \ {Initial} : VisitLimit[s] > 0 => counts[s] = Cardinality(MovesInto(t, s))

EverEntered(counts, state) ==
    state # Initial /\ VisitLimit[state] > 0 => counts[state] > 0

Writing(p) ==
    cmd[p] # None /\ cmd[p].pc \in {"place", "enter", "assign", "commit", "record", "restore"}

Settled(t) == \A p \in Proc : Writing(p) => Manifest[cmd[p].ticket] # Manifest[t]

CountInv ==
    /\ FragmentsAreUndone
    /\ \A t \in Ticket : Settled(t) => Counted(t, visits[t]) /\ EverEntered(visits[t], plan[t].state)
    /\ \A p \in Proc : Writing(p) =>
         \A u \in InManifest(cmd[p].ticket) : Counted(u, cmd[p].before.counts[u])
    /\ \A p \in Proc : Writing(p) =>
         /\ EverEntered(cmd[p].before.counts[cmd[p].ticket], cmd[p].from)
         /\ \A u \in InManifest(cmd[p].ticket) \ {cmd[p].ticket} : 
              EverEntered(cmd[p].before.counts[u], plan[u].state)

-----------------------------------------------------------------------------
(* The machine and the plan.                                               *)

LEMMA EdgesTyped ==
    ASSUME NEW edge \in Edges
    PROVE  edge \in (State \ Terminal) \X State
<1>1. PICK n \in DOMAIN Rules : edge = Rules[n]
  BY DEF Edges, Range
<1> QED
  BY <1>1, MachineAssumption, ElementOfSeq, LenProperties

LEMMA EdgeEnds ==
    ASSUME NEW from, NEW to, <<from, to>> \in Edges
    PROVE  from \in State /\ ~Ends(from) /\ to \in State
BY EdgesTyped DEF Ends

LEMMA LocksThere ==
    /\ Ledger \in Lock
    /\ \A t \in Ticket : /\ PlanFile[t] \in Lock /\ Manifest[t] \in Lock
                         /\ PlanFile[t] # Ledger /\ Manifest[t] # Ledger
BY PlanAssumption DEF Lock, Range

LEMMA FileParts ==
    ASSUME NEW t \in Ticket
    PROVE  /\ t \in InFile(t) /\ InFile(t) \subseteq InManifest(t) /\ InManifest(t) \subseteq Ticket
           /\ t \in InManifest(t)
           /\ \A u \in InFile(t) : Descendants(u) \subseteq InFile(t)
BY PlanAssumption DEF InFile, InManifest, Descendants

LEMMA TheseLocks ==
    ASSUME NEW t \in Ticket, NEW kind \in Kinds
    PROVE  /\ Locks(kind, t) # <<>> /\ Head(Locks(kind, t)) \in Lock
           /\ IF kind = "release" \/ Inline(t)
              THEN Locks(kind, t) = <<PlanFile[t]>>
              ELSE Locks(kind, t) = <<Manifest[t], PlanFile[t]>>
           /\ Range(Locks(kind, t)) =
                IF kind = "release" THEN {PlanFile[t]} ELSE {PlanFile[t], Manifest[t]}
<1>1. \A a : Range(<<a>>) = {a} /\ Head(<<a>>) = a /\ <<a>> # <<>>
  BY DEF Range
<1>2. \A a, b : Range(<<a, b>>) = {a, b} /\ Head(<<a, b>>) = a /\ <<a, b>> # <<>>
  <2> SUFFICES ASSUME NEW a, NEW b PROVE Range(<<a, b>>) = {a, b}
    OBVIOUS
  <2>1. DOMAIN <<a, b>> = {1, 2} /\ <<a, b>>[1] = a /\ <<a, b>>[2] = b
    OBVIOUS
  <2> QED
    BY <2>1 DEF Range
<1> QED
  BY <1>1, <1>2, LocksThere DEF Locks, Inline

\* A set of naturals has a least element.
LEMMA LeastIndex ==
    ASSUME NEW S \in SUBSET Nat, S # {}
    PROVE  Min(S) \in S /\ \A n \in S : Min(S) <= n
<1>1. PICK m \in S : \A n \in S : ~(<<n, m>> \in OpToRel(<, Nat))
  BY NatLessThanWellFounded, WFMin
<1>2. ASSUME NEW n \in S
      PROVE  m <= n
  <2>1. n \in Nat /\ m \in Nat /\ <<n, m>> \in Nat \X Nat /\ ~(<<n, m>> \in OpToRel(<, Nat))
    BY <1>1
  <2>2. ~(n < m)
    BY <2>1 DEF OpToRel
  <2>3. n \in Nat /\ m \in Nat
    OBVIOUS
  <2> QED
    BY <2>2, <2>3
<1> QED
  BY <1>2 DEF Min

LEMMA ForwardIsAnEdge ==
    ASSUME NEW t \in Ticket, Forward(t) # None
    PROVE  <<plan[t].state, Forward(t)>> \in Edges
<1> DEFINE S == {n \in 1..Len(Rules) :
                   /\ Rules[n][1] = plan[t].state
                   /\ Applicable(visits[t], Rules[n][1], Rules[n][2])}
<1>1. Forward(t) = IF (IF S # {} THEN Min(S) ELSE 0) = 0 THEN None
                   ELSE Rules[IF S # {} THEN Min(S) ELSE 0][2]
  BY DEF Forward, SelectInSeq
<1>2. S # {}
  BY <1>1
<1>3. S \subseteq Nat
  BY MachineAssumption, LenProperties
<1>4. Min(S) \in S
  BY <1>2, <1>3, LeastIndex
<1>5. Forward(t) = Rules[Min(S)][2]
  BY <1>1, <1>2
<1> QED
  BY <1>4, <1>5 DEF Applicable

-----------------------------------------------------------------------------
(* Steps of one process leave the others what they hold.                   *)

Local(p) ==
    /\ \A q \in Proc \ {p} : cmd'[q] = cmd[q]
    /\ \A l \in Lock : holder'[l] # holder[l] => holder[l] \in {p, None}
    /\ \A u \in Ticket : plan'[u] # plan[u] => holder[PlanFile[u]] = p
    /\ \A u \in Ticket : visits'[u] # visits[u] => holder[Manifest[u]] = p

\* What a command past its first step has locked and read.
LEMMA Reading ==
    ASSUME NEW p \in Proc, Process(p), cmd[p] # None, cmd[p].pc # "lock"
    PROVE  LET c == cmd[p]
           IN  /\ CommandTyped(c) /\ c.ticket \in Ticket /\ c.before \in ContentsOf(c.ticket)
               /\ \A u \in InFile(c.ticket) : u \in Ticket /\ holder[PlanFile[u]] = p
               /\ c.kind # "release" =>
                    \A u \in InManifest(c.ticket) : u \in Ticket /\ holder[Manifest[u]] = p
BY DEF Process, CommandTyped, Holds, InFile, InManifest

LEMMA OthersKeep ==
    ASSUME PlanInv, NEW p \in Proc, Local(p), NEW q \in Proc, q # p
    PROVE  Process(q)'
<1> SUFFICES ASSUME cmd[q] # None PROVE Process(q)'
  BY DEF Process, Local
<1> DEFINE c == cmd[q]
<1>1. cmd'[q] = cmd[q] /\ Process(q) /\ q # None
  BY NoneAssumption DEF Local, PlanInv
<1>2. CommandTyped(c) /\ Holds(q) /\ FilesStand(q) /\ Admitted(c) /\ BeforeWhole(c)
  BY <1>1 DEF Process
<1>3. \A l \in Lock : holder[l] = q => holder'[l] = q
  BY <1>1 DEF Local
<1>4. Holds(q)'
  <2>1. c.ticket \in Ticket /\ PlanFile[c.ticket] \in Lock /\ Manifest[c.ticket] \in Lock
        /\ Ledger \in Lock
    BY <1>2, LocksThere DEF CommandTyped
  <2> QED
    BY <1>1, <1>2, <1>3, <2>1 DEF Holds
<1>5. c.pc # "lock" => \A u \in InFile(c.ticket) : plan'[u] = plan[u]
  BY <1>1, Reading DEF Local
<1>6. c.pc # "lock" /\ c.kind # "release" => \A u \in InManifest(c.ticket) : visits'[u] = visits[u]
  BY <1>1, Reading DEF Local
<1>7. FilesStand(q)'
  <2>1. c.pc \in Pcs /\ (c.pc \in Bound \cup {"check", "take"} => c.kind # "release")
    BY <1>2 DEF CommandTyped
  <2>2. \A headings : c.pc # "lock" =>
          (HeadingsAre(c.ticket, headings) <=> \A u \in InFile(c.ticket) : plan'[u] = headings[u])
    BY <1>5 DEF HeadingsAre
  <2>3. \A counts : c.pc \in Bound \cup {"check", "take"} =>
          (CountsAre(c.ticket, counts) <=> \A u \in InManifest(c.ticket) : visits'[u] = counts[u])
    BY <1>6, <2>1 DEF CountsAre, Bound
  <2>4. MovedHeadings(c)' = MovedHeadings(c) /\ MovedCounts(c)' = MovedCounts(c)
        /\ AssignedHeadings(q)' = AssignedHeadings(q)
    BY <1>1 DEF AssignedHeadings
  <2> QED
    BY <1>1, <1>2, <2>2, <2>3, <2>4 DEF FilesStand, HeadingsAre, CountsAre, Bound, Pcs
<1>8. Admitted(c) /\ BeforeWhole(c) /\ CommandTyped(c)
  BY <1>2
<1> QED
  BY <1>1, <1>4, <1>7, <1>8 DEF Process

-----------------------------------------------------------------------------
(* How a command goes on.                                                  *)

LEMMA GotoIs ==
    ASSUME DOMAIN cmd = Proc, NEW p \in Proc, CommandTyped(cmd[p]), NEW pc, Goto(p, pc)
    PROVE  /\ DOMAIN cmd' = Proc /\ \A q \in Proc \ {p} : cmd'[q] = cmd[q]
           /\ DOMAIN cmd'[p] = Fields /\ cmd'[p].pc = pc
           /\ cmd'[p].kind = cmd[p].kind /\ cmd'[p].ticket = cmd[p].ticket
           /\ cmd'[p].from = cmd[p].from /\ cmd'[p].to = cmd[p].to
           /\ cmd'[p].want = cmd[p].want /\ cmd'[p].before = cmd[p].before
           /\ cmd'[p].mark = cmd[p].mark
BY DEF Goto, CommandTyped, Fields

\* Everything a command has in mind but where it stands.
SameMind(p) ==
    /\ cmd'[p].kind = cmd[p].kind /\ cmd'[p].ticket = cmd[p].ticket
    /\ cmd'[p].from = cmd[p].from /\ cmd'[p].want = cmd[p].want
    /\ cmd'[p].before = cmd[p].before

LEMMA ReturnIs ==
    ASSUME StateTyped, NEW p \in Proc, Return(p)
    PROVE  /\ DOMAIN cmd' = Proc /\ cmd'[p] = None /\ \A q \in Proc \ {p} : cmd'[q] = cmd[q]
           /\ holder' \in [Lock -> Proc \cup {None}]
           /\ \A l \in Lock : holder'[l] # holder[l] => holder[l] = p
           /\ left' = left /\ Process(p)'
BY DEF Return, Freed, StateTyped, Process

-----------------------------------------------------------------------------
(* What commands put into the files.                                       *)

LEMMA HeadingChanges ==
    ASSUME NEW h \in Heading, NEW state \in State, NEW owner \in Proc \cup {None}
    PROVE  /\ [h EXCEPT !.state = state] \in Heading
           /\ [h EXCEPT !.assignee = owner] \in Heading
           /\ [h EXCEPT !.state = state].state = state
           /\ [h EXCEPT !.state = state].assignee = h.assignee
           /\ [h EXCEPT !.assignee = owner].state = h.state
           /\ [h EXCEPT !.assignee = owner].assignee = owner
<1>1. /\ [h EXCEPT !.state = state] = [state |-> state, assignee |-> h.assignee, link |-> h.link]
      /\ [h EXCEPT !.assignee = owner] = [state |-> h.state, assignee |-> owner, link |-> h.link]
  BY DEF Heading
<1>2. h.state \in State /\ h.assignee \in Proc \cup {None} /\ h.link \in BOOLEAN
  BY DEF Heading
<1> QED
  BY <1>1, <1>2 DEF Heading

LEMMA CountsTyped ==
    ASSUME NEW counts \in Counts, NEW from \in State, NEW to \in State
    PROVE  Normalised(counts, from) \in Counts /\ CountVisit(counts, from, to) \in Counts
<1>1. Normalised(counts, from) \in Counts
  BY DEF Normalised, Counts
<1> QED
  BY <1>1 DEF CountVisit, Counts

\* The two files as a command will leave them.
LEMMA MovedIs ==
    ASSUME NEW c, CommandTyped(c), c.pc # "lock"
    PROVE  LET t == c.ticket
           IN  /\ MovedHeadings(c) \in [InFile(t) -> Heading]
               /\ MovedHeadings(c)[t].state = c.to
               /\ MovedHeadings(c)[t].assignee = c.before.headings[t].assignee
               /\ \A u \in InFile(t) \ {t} : MovedHeadings(c)[u] = c.before.headings[u]
               /\ MovedCounts(c) \in [InManifest(t) -> Counts]
               /\ MovedCounts(c)[t] = CountVisit(c.before.counts[t], c.from, c.to)
               /\ \A u \in InManifest(t) \ {t} : MovedCounts(c)[u] = c.before.counts[u]
<1> DEFINE t == c.ticket
<1>1. /\ c.before.headings \in [InFile(t) -> Heading] /\ c.to \in State /\ c.from \in State
      /\ c.before.counts \in [InManifest(t) -> Counts] /\ t \in Ticket
      /\ t \in InFile(t) /\ t \in InManifest(t)
  BY FileParts DEF CommandTyped, ContentsOf
<1>2. c.before.headings[t] \in Heading /\ c.before.counts[t] \in Counts
  BY <1>1
<1>3. /\ [c.before.headings[t] EXCEPT !.state = c.to] \in Heading
      /\ [c.before.headings[t] EXCEPT !.state = c.to].state = c.to
      /\ [c.before.headings[t] EXCEPT !.state = c.to].assignee = c.before.headings[t].assignee
  BY <1>1, <1>2, HeadingChanges
<1>4. CountVisit(c.before.counts[t], c.from, c.to) \in Counts
  BY <1>1, <1>2, CountsTyped
<1>5. MovedHeadings(c) =
        [u \in InFile(t) |-> IF u = t THEN [c.before.headings[t] EXCEPT !.state = c.to]
                             ELSE c.before.headings[u]]
  BY <1>1 DEF MovedHeadings
<1>6. MovedCounts(c) =
        [u \in InManifest(t) |-> IF u = t THEN CountVisit(c.before.counts[t], c.from, c.to)
                                 ELSE c.before.counts[u]]
  BY <1>1 DEF MovedCounts
<1> DEFINE hs == MovedHeadings(c)
           cs == MovedCounts(c)
           h == [c.before.headings[t] EXCEPT !.state = c.to]
           n == CountVisit(c.before.counts[t], c.from, c.to)
<1> HIDE DEF hs, cs, h, n
<1>7. /\ hs \in [InFile(t) -> Heading] /\ hs[t] = h
      /\ \A u \in InFile(t) \ {t} : hs[u] = c.before.headings[u]
  <2>1. hs = [u \in InFile(t) |-> IF u = t THEN h ELSE c.before.headings[u]] /\ h \in Heading
    BY <1>3, <1>5 DEF hs, h
  <2> QED
    BY <1>1, <2>1
<1>8. /\ cs \in [InManifest(t) -> Counts] /\ cs[t] = n
      /\ \A u \in InManifest(t) \ {t} : cs[u] = c.before.counts[u]
  <2>1. cs = [u \in InManifest(t) |-> IF u = t THEN n ELSE c.before.counts[u]] /\ n \in Counts
    BY <1>4, <1>6 DEF cs, n
  <2> QED
    BY <1>1, <2>1
<1> QED
  BY <1>3, <1>7, <1>8 DEF hs, cs, h, n

LEMMA AssignedIs ==
    ASSUME NEW p \in Proc, CommandTyped(cmd[p]), cmd[p].pc # "lock"
    PROVE  LET c == cmd[p]
               t == c.ticket
           IN  /\ AssignedHeadings(p) \in [InFile(t) -> Heading]
               /\ AssignedHeadings(p)[t].state = c.to /\ AssignedHeadings(p)[t].assignee = p
               /\ \A u \in InFile(t) \ {t} : AssignedHeadings(p)[u] = c.before.headings[u]
<1> DEFINE c == cmd[p]
           t == c.ticket
           m == MovedHeadings(c)
<1>1. t \in InFile(t) /\ t \in Ticket
  BY FileParts DEF CommandTyped
<1>2. /\ m \in [InFile(t) -> Heading] /\ m[t].state = c.to
      /\ \A u \in InFile(t) \ {t} : m[u] = c.before.headings[u]
  BY MovedIs
<1>3. m[t] \in Heading
  BY <1>1, <1>2
<1> HIDE DEF m
<1>4. /\ [m[t] EXCEPT !.assignee = p] \in Heading
      /\ [m[t] EXCEPT !.assignee = p].state = m[t].state
      /\ [m[t] EXCEPT !.assignee = p].assignee = p
  <2>1. \A h \in Heading : /\ [h EXCEPT !.assignee = p] \in Heading
                           /\ [h EXCEPT !.assignee = p].state = h.state
                           /\ [h EXCEPT !.assignee = p].assignee = p
    BY DEF Heading
  <2> QED
    BY <1>3, <2>1
<1>5. AssignedHeadings(p) =
        [u \in InFile(t) |-> IF u = t THEN [m[t] EXCEPT !.assignee = p] ELSE m[u]]
  BY <1>1, <1>2 DEF AssignedHeadings, m
<1> QED
  BY <1>1, <1>2, <1>4, <1>5

\* A file that is whole makes a plan that is.
LEMMA WholeFile ==
    ASSUME TerminalSubtree, NEW t \in Ticket, NEW headings,
           \A u \in InFile(t) : plan'[u].state = headings[u].state,
           \A u \in Ticket \ InFile(t) : plan'[u].state = plan[u].state,
           \A a \in InFile(t) : Ends(headings[a].state) =>
             \A u \in Descendants(a) : Ends(headings[u].state)
    PROVE  TerminalSubtree'
<1> SUFFICES ASSUME NEW a \in Ticket, Ends(plan'[a].state), NEW u \in Descendants(a)
             PROVE  Ends(plan'[u].state)
  BY DEF TerminalSubtree
<1>1. u \in InFile(a) /\ u \in Ticket
  BY FileParts
<1>2. CASE a \in InFile(t)
  <2>1. u \in InFile(t)
    BY <1>1, <1>2 DEF InFile
  <2> QED
    BY <1>2, <2>1
<1>3. CASE a \notin InFile(t)
  <2>1. u \notin InFile(t)
    BY <1>1, <1>3 DEF InFile
  <2> QED
    BY <1>1, <1>3, <2>1 DEF TerminalSubtree
<1> QED
  BY <1>2, <1>3

LEMMA MovedWhole ==
    ASSUME NEW c, CommandTyped(c), c.pc \in Bound, Admitted(c), BeforeWhole(c)
    PROVE  \A a \in InFile(c.ticket) : Ends(MovedHeadings(c)[a].state) =>
             \A u \in Descendants(a) : Ends(MovedHeadings(c)[u].state)
<1> DEFINE t == c.ticket
<1> SUFFICES ASSUME NEW a \in InFile(t), Ends(MovedHeadings(c)[a].state), NEW u \in Descendants(a)
             PROVE  Ends(MovedHeadings(c)[u].state)
  OBVIOUS
<1>1. c.pc # "lock" /\ t \in Ticket /\ t \in InFile(t)
  BY FileParts DEF Bound, CommandTyped
<1>2. u \in InFile(t)
  <2>1. a \in Ticket /\ u \in InFile(a)
    BY <1>1, FileParts DEF InFile
  <2> QED
    BY <2>1 DEF InFile
<1>3. /\ ~Ends(c.from) /\ c.before.headings[t].state = c.from /\ DescendantsEnded(c, c.to)
  BY EdgeEnds DEF Admitted
<1>4. CASE a = t
  <2>1. Ends(c.to)
    BY <1>1, <1>4, MovedIs
  <2>2. Ends(c.before.headings[u].state)
    BY <1>3, <1>4, <2>1 DEF DescendantsEnded
  <2> QED
    BY <1>1, <1>2, <2>1, <2>2, MovedIs
<1>5. CASE a # t
  <2>1. Ends(c.before.headings[a].state)
    BY <1>1, <1>5, MovedIs
  <2>2. Ends(c.before.headings[u].state)
    BY <1>1, <2>1 DEF BeforeWhole
  <2>3. u # t
    BY <1>3, <2>2
  <2> QED
    BY <1>1, <1>2, <2>2, <2>3, MovedIs
<1> QED
  BY <1>4, <1>5

LEMMA SamePlanWhole == TerminalSubtree /\ UNCHANGED plan => TerminalSubtree'
BY DEF TerminalSubtree

-----------------------------------------------------------------------------
(* Every step keeps the invariant.                                         *)

DataTyped ==
    /\ plan \in [Ticket -> Heading] /\ visits \in [Ticket -> Counts]
    /\ results \subseteq Ticket /\ ledger \in Seq(Line \cup {Fragment, Garbled})
    /\ charges \in [Ticket -> 0..TravelLimit]

LEMMA StepKeeps ==
    ASSUME PlanInv, NEW p \in Proc, Local(p), StateTyped', TerminalSubtree', Process(p)'
    PROVE  PlanInv'
BY OthersKeep DEF PlanInv

LEMMA StartKeeps ==
    ASSUME PlanInv, NEW p \in Proc, NEW kind \in Kinds, NEW t \in Ticket, NEW to \in State,
           NEW message, Start(p, Command(kind, t, to, message))
    PROVE  PlanInv'
<1> DEFINE c == Command(kind, t, to, message)
<1>1. /\ cmd' = [cmd EXCEPT ![p] = c] /\ left' = left - 1 /\ left > 0
      /\ UNCHANGED <<plan, visits, results, ledger, charges, holder>>
  BY DEF Start, files
<1>2. cmd'[p] = c /\ DOMAIN cmd' = Proc /\ \A q \in Proc \ {p} : cmd'[q] = cmd[q]
  BY <1>1 DEF PlanInv, StateTyped
<1>3. StateTyped'
  <2>1. left - 1 \in 0..MaxCommands
    BY <1>1, BoundsAssumption DEF PlanInv, StateTyped
  <2> QED
    BY <1>1, <1>2, <2>1 DEF PlanInv, StateTyped
<1>4. Local(p)
  BY <1>1, <1>2 DEF Local
<1>5. TerminalSubtree'
  BY <1>1, SamePlanWhole DEF PlanInv
<1>6. plan[t].state \in State
  BY DEF PlanInv, StateTyped, Heading
<1>7. /\ DOMAIN c = Fields /\ c.pc = "lock" /\ c.kind = kind /\ c.ticket = t /\ c.to = to
      /\ c.from = plan[t].state /\ c.mark = 0 /\ c.want = Locks(kind, t)
  BY DEF Command, Fields
<1>8. Process(p)'
  BY <1>2, <1>6, <1>7
     DEF Process, CommandTyped, Holds, FilesStand, Admitted, BeforeWhole, Pcs, Bound
<1> QED
  BY <1>3, <1>4, <1>5, <1>8, StepKeeps

\* A command that returns, whatever it has put into files it holds.
LEMMA ReturnKeeps ==
    ASSUME PlanInv, NEW p \in Proc, Return(p), DataTyped', TerminalSubtree',
           \A u \in Ticket : plan'[u] # plan[u] => holder[PlanFile[u]] = p,
           \A u \in Ticket : visits'[u] # visits[u] => holder[Manifest[u]] = p
    PROVE  PlanInv'
<1>1. /\ DOMAIN cmd' = Proc /\ cmd'[p] = None /\ \A q \in Proc \ {p} : cmd'[q] = cmd[q]
      /\ holder' \in [Lock -> Proc \cup {None}]
      /\ \A l \in Lock : holder'[l] # holder[l] => holder[l] = p
      /\ left' = left /\ Process(p)'
  BY ReturnIs DEF PlanInv
<1>2. Local(p)
  BY <1>1 DEF Local
<1>3. StateTyped'
  BY <1>1 DEF PlanInv, StateTyped, DataTyped
<1> QED
  BY <1>1, <1>2, <1>3, StepKeeps

LEMMA QuietReturnKeeps ==
    ASSUME PlanInv, NEW p \in Proc, Return(p), UNCHANGED <<plan, visits, results, charges>>,
           ledger' \in Seq(Line \cup {Fragment, Garbled})
    PROVE  PlanInv'
<1>1. DataTyped' /\ TerminalSubtree'
  BY SamePlanWhole DEF DataTyped, PlanInv, StateTyped
<1> QED
  BY <1>1, ReturnKeeps

\* What a command has in mind stays; it goes on from one step to the next.
OnwardBy(p, pc) ==
    /\ DOMAIN cmd' = Proc /\ \A q \in Proc \ {p} : cmd'[q] = cmd[q]
    /\ DOMAIN cmd'[p] = Fields /\ cmd'[p].pc = pc /\ cmd'[p].mark \in Nat
    /\ SameMind(p) /\ cmd'[p].to = cmd[p].to

LEMMA OnwardKeeps ==
    ASSUME PlanInv, NEW p \in Proc, cmd[p] # None, cmd[p].pc \in Bound, NEW pc \in Bound,
           OnwardBy(p, pc), DataTyped', TerminalSubtree',
           pc \in {"open", "assign", "commit"} => cmd[p].kind = "claim",
           pc \in {"record", "finish"} => cmd[p].kind = "move",
           holder' \in [Lock -> Proc \cup {None}],
           \A l \in Lock : holder'[l] # holder[l] => holder[l] = None,
           cmd[p].kind = "claim" /\ pc \notin {"charge", "open"} => holder'[Ledger] = p,
           \A u \in Ticket : plan'[u] # plan[u] => holder[PlanFile[u]] = p,
           \A u \in Ticket : visits'[u] # visits[u] => holder[Manifest[u]] = p,
           FilesStand(p)', left' = left
    PROVE  PlanInv'
<1> DEFINE c == cmd[p]
<1>1. CommandTyped(c) /\ Holds(p) /\ Admitted(c) /\ BeforeWhole(c) /\ c.pc # "lock"
  BY DEF PlanInv, Process, Bound
<1>2. Local(p)
  BY DEF Local, OnwardBy
<1>3. StateTyped'
  BY DEF PlanInv, StateTyped, DataTyped, OnwardBy
<1>4. /\ cmd'[p].kind = c.kind /\ cmd'[p].ticket = c.ticket /\ cmd'[p].from = c.from
      /\ cmd'[p].want = c.want /\ cmd'[p].before = c.before /\ cmd'[p].to = c.to
      /\ cmd'[p].pc = pc /\ cmd'[p].mark \in Nat /\ DOMAIN cmd'[p] = Fields
      /\ pc # "lock" /\ pc \in Pcs /\ pc \notin {"take", "drop", "check"}
  BY DEF OnwardBy, SameMind, Bound
<1>5. CommandTyped(cmd'[p])
  <2>1. c.kind \in {"claim", "move"}
    BY <1>1 DEF CommandTyped
  <2> QED
    BY <1>1, <1>4, <2>1 DEF CommandTyped
<1>6. Holds(p)'
  <2>1. p # None /\ c.ticket \in Ticket
    BY <1>1, NoneAssumption DEF CommandTyped
  <2>2. PlanFile[c.ticket] \in Lock /\ Manifest[c.ticket] \in Lock
    BY <2>1, LocksThere
  <2>3. /\ holder'[PlanFile[c.ticket]] = p
        /\ c.kind # "release" => holder'[Manifest[c.ticket]] = p
    BY <1>1, <2>1, <2>2 DEF Holds
  <2> QED
    BY <1>1, <1>4, <2>3 DEF Holds
<1>7. Admitted(cmd'[p]) /\ BeforeWhole(cmd'[p])
  BY <1>1, <1>4 DEF Admitted, BeforeWhole, DescendantsEnded
<1>8. Process(p)'
  BY <1>5, <1>6, <1>7 DEF Process
<1> QED
  BY <1>2, <1>3, <1>8, StepKeeps

LEMMA GotoIsOnward ==
    ASSUME PlanInv, NEW p \in Proc, cmd[p] # None, NEW pc, Goto(p, pc)
    PROVE  OnwardBy(p, pc)
<1>1. CommandTyped(cmd[p]) /\ DOMAIN cmd = Proc
  BY DEF PlanInv, Process, StateTyped
<1> QED
  BY <1>1, GotoIs DEF OnwardBy, SameMind, CommandTyped

\* A step that leaves the files where they stand.
LEMMA QuietOnward ==
    ASSUME PlanInv, NEW p \in Proc, cmd[p] # None, cmd[p].pc \in Bound, NEW pc \in Bound,
           OnwardBy(p, pc), UNCHANGED <<plan, visits, results, left>>,
           charges' \in [Ticket -> 0..TravelLimit],
           ledger' \in Seq(Line \cup {Fragment, Garbled}),
           pc \in {"open", "assign", "commit"} => cmd[p].kind = "claim",
           pc \in {"record", "finish"} => cmd[p].kind = "move",
           holder' \in [Lock -> Proc \cup {None}],
           \A l \in Lock : holder'[l] # holder[l] => holder[l] = None,
           cmd[p].kind = "claim" /\ pc \notin {"charge", "open"} => holder'[Ledger] = p,
           \/ cmd[p].pc \in {"charge", "open", "write"} /\ pc \in {"open", "write"}
           \/ cmd[p].pc \in {"enter", "assign", "record", "finish"}
              /\ pc \in {"enter", "assign", "record", "finish"}
           \/ pc = "restore" /\ (cmd[p].pc = "commit" => cmd[p].kind = "claim")
    PROVE  PlanInv'
<1> DEFINE c == cmd[p]
<1>1. /\ cmd'[p].ticket = c.ticket /\ cmd'[p].before = c.before /\ cmd'[p].kind = c.kind
      /\ cmd'[p].from = c.from /\ cmd'[p].to = c.to /\ cmd'[p].pc = pc
  BY DEF OnwardBy, SameMind
<1>2. DataTyped' /\ TerminalSubtree'
  BY SamePlanWhole DEF DataTyped, PlanInv, StateTyped
<1>3. FilesStand(p)
  BY DEF PlanInv, Process
<1>4. /\ \A t, headings : HeadingsAre(t, headings)' <=> HeadingsAre(t, headings)
      /\ \A t, counts : CountsAre(t, counts)' <=> CountsAre(t, counts)
  BY DEF HeadingsAre, CountsAre
<1>5. /\ MovedHeadings(c)' = MovedHeadings(cmd'[p]) /\ MovedHeadings(cmd'[p]) = MovedHeadings(c)
      /\ MovedCounts(cmd'[p]) = MovedCounts(c) /\ AssignedHeadings(p)' = AssignedHeadings(p)
  BY <1>1 DEF MovedHeadings, MovedCounts, AssignedHeadings
<1>6. FilesStand(p)'
  BY <1>1, <1>3, <1>4, <1>5 DEF FilesStand, HeadingsAre, CountsAre, Bound, Pcs
<1> QED
  BY <1>2, <1>6, OnwardKeeps

-----------------------------------------------------------------------------
(* The ledger's own operations.                                            *)

LEMMA CutIs ==
    ASSUME NEW lines \in Seq(Line \cup {Fragment, Garbled}), NEW m \in Nat, m <= Len(lines)
    PROVE  /\ SubSeq(lines, 1, m) \in Seq(Line \cup {Fragment, Garbled})
           /\ Len(SubSeq(lines, 1, m)) = m
           /\ \A n \in 1..m : SubSeq(lines, 1, m)[n] = lines[n]
<1> DEFINE V == Line \cup {Fragment, Garbled}
<1> HIDE DEF V
<1>1. lines \in Seq(V)
  BY DEF V
<1> QED
  BY <1>1 DEF V

\* A line goes behind the last one, unless that was cut short.
LEMMA ExtendIs ==
    ASSUME NEW lines \in Seq(Line \cup {Fragment, Garbled}), NEW entry \in Line \cup {Fragment}
    PROVE  LET e == Extend(lines, entry)
           IN  /\ e \in Seq(Line \cup {Fragment, Garbled})
               /\ \/ /\ Len(e) = Len(lines) + 1 /\ e[Len(lines) + 1] = entry
                     /\ \A n \in 1..Len(lines) : e[n] = lines[n]
                  \/ /\ Len(lines) > 0 /\ Len(e) = Len(lines)
                     /\ lines[Len(lines)] \notin Line /\ e[Len(lines)] \notin Line
                     /\ \A n \in 1..(Len(lines) - 1) : e[n] = lines[n]
<1> DEFINE V == Line \cup {Fragment, Garbled}
           e == Extend(lines, entry)
<1>0. Fragment \notin Line /\ Garbled \notin Line /\ entry \in V
  BY PlanAssumption DEF Line
<1> HIDE DEF V
<1>1. CASE lines # <<>> /\ Last(lines) = Fragment
  <2> DEFINE last == IF entry = Fragment THEN Fragment ELSE Garbled
             front == Front(lines)
  <2>1. e = Append(front, last) /\ last \in V /\ last \notin Line
    BY <1>0, <1>1 DEF Extend, V
  <2>2. Len(lines) \in Nat /\ Len(lines) > 0 /\ lines[Len(lines)] = Fragment /\ lines \in Seq(V)
    BY <1>1 DEF Last, V
  <2>3. /\ front \in Seq(V) /\ Len(front) = Len(lines) - 1
        /\ \A n \in 1..(Len(lines) - 1) : front[n] = lines[n]
    <3>1. Len(lines) - 1 \in Nat /\ Len(lines) - 1 <= Len(lines)
      BY <2>2
    <3> QED
      BY <3>1, CutIs DEF Front, V
  <2> HIDE DEF last, front
  <2>4. /\ e \in Seq(V) /\ Len(e) = Len(lines) /\ e[Len(lines)] = last
        /\ \A n \in 1..(Len(lines) - 1) : e[n] = front[n]
    BY <2>1, <2>2, <2>3
  <2> QED
    BY <1>0, <2>1, <2>2, <2>3, <2>4 DEF V
<1>2. CASE ~(lines # <<>> /\ Last(lines) = Fragment)
  <2>1. e = Append(lines, entry) /\ lines \in Seq(V)
    BY <1>2 DEF Extend, V
  <2> QED
    BY <1>0, <2>1 DEF V
<1> QED
  BY <1>1, <1>2

LEMMA ItsLine ==
    ASSUME NEW c, CommandTyped(c)
    PROVE  LineOf(c) \in Line
BY DEF LineOf, Line, CommandTyped

-----------------------------------------------------------------------------
(* Commands begin, and some return with nothing more done.                 *)

LEMMA BeginKeeps ==
    ASSUME PlanInv, NEW p \in Proc, Begin(p)
    PROVE  PlanInv'
<1>1. \A t \in Ticket : plan[t].state \in State
  BY DEF PlanInv, StateTyped, Heading
<1>2. {"claim", "take", "move", "release"} = Kinds
  BY DEF Kinds
<1>3. CASE StartClaim(p)
  <2>1. PICK t \in Ticket : Advances(t) /\ Start(p, Command("claim", t, Forward(t), FALSE))
    BY <1>3 DEF StartClaim
  <2>2. Forward(t) \in State
    BY <2>1, ForwardIsAnEdge, EdgeEnds DEF Advances
  <2> QED
    BY <1>2, <2>1, <2>2, StartKeeps
<1>4. CASE StartTake(p)
  BY <1>1, <1>2, <1>4, StartKeeps DEF StartTake
<1>5. CASE StartMove(p)
  <2>1. PICK t \in Ticket, edge \in Edges, message \in BOOLEAN :
          Start(p, Command("move", t, edge[2], message))
    BY <1>5 DEF StartMove
  <2>2. edge[2] \in State
    BY EdgesTyped
  <2> QED
    BY <1>2, <2>1, <2>2, StartKeeps
<1>6. CASE StartRelease(p)
  BY <1>1, <1>2, <1>6, StartKeeps DEF StartRelease
<1> QED
  BY <1>3, <1>4, <1>5, <1>6 DEF Begin

\* Whatever leaves at most a line or a fragment behind.
LEMMA LeavesKeep ==
    ASSUME PlanInv, NEW p \in Proc, cmd[p] # None, Return(p),
           UNCHANGED <<plan, visits, results, charges>>,
           ledger' \in {ledger, Extend(ledger, LineOf(cmd[p])), Extend(ledger, Fragment)}
    PROVE  PlanInv'
<1>1. CommandTyped(cmd[p]) /\ ledger \in Seq(Line \cup {Fragment, Garbled})
  BY DEF PlanInv, Process, StateTyped
<1>2. LineOf(cmd[p]) \in Line
  BY <1>1, ItsLine
<1>3. ledger' \in Seq(Line \cup {Fragment, Garbled})
  BY <1>1, <1>2, ExtendIs
<1> QED
  BY <1>3, QuietReturnKeeps

LEMMA ReturnsKeep ==
    ASSUME PlanInv, NEW p \in Proc,
           \/ Refuse(p) \/ RefuseCharge(p) \/ OpenFails(p) \/ WriteFails(p) \/ EnterBreaks(p)
           \/ Commit(p) \/ RecordFails(p) \/ Crash(p)
    PROVE  PlanInv'
<1>1. /\ cmd[p] # None /\ Return(p) /\ UNCHANGED <<plan, visits, results, charges>>
      /\ ledger' \in {ledger, Extend(ledger, LineOf(cmd[p])), Extend(ledger, Fragment)}
  BY DEF Refuse, RefuseCharge, OpenFails, WriteFails, EnterBreaks, Commit, RecordFails, Crash,
         At, files
<1> QED
  BY <1>1, LeavesKeep

-----------------------------------------------------------------------------
(* Commands go on, and leave the files as they are.                        *)

LEMMA ChargeKeeps ==
    ASSUME PlanInv, NEW p \in Proc, Charge(p)
    PROVE  PlanInv'
<1> DEFINE c == cmd[p]
           pc == IF c.kind = "claim" THEN "open" ELSE "write"
<1>1. /\ c # None /\ c.pc = "charge" /\ charges[c.ticket] < TravelLimit
      /\ charges' = [charges EXCEPT ![c.ticket] = @ + 1] /\ Goto(p, pc)
      /\ UNCHANGED <<plan, visits, results, ledger, holder, left>>
  BY DEF Charge, At
<1>2. CommandTyped(c) /\ StateTyped
  BY <1>1 DEF PlanInv, Process
<1>3. charges' \in [Ticket -> 0..TravelLimit]
  <2>1. c.ticket \in Ticket /\ charges \in [Ticket -> 0..TravelLimit]
    BY <1>2 DEF CommandTyped, StateTyped
  <2>2. charges[c.ticket] + 1 \in 0..TravelLimit
    BY <1>1, <2>1, BoundsAssumption
  <2> QED
    BY <1>1, <2>1, <2>2
<1>4. pc \in Bound /\ c.pc \in Bound /\ pc \in {"open", "write"}
  BY <1>1 DEF Bound, Pcs
<1>5. /\ ledger' \in Seq(Line \cup {Fragment, Garbled}) /\ holder' \in [Lock -> Proc \cup {None}]
      /\ UNCHANGED <<plan, visits, results, left>>
  BY <1>1, <1>2 DEF StateTyped
<1>6. OnwardBy(p, pc)
  BY <1>1, GotoIsOnward
<1> QED
  BY <1>1, <1>3, <1>4, <1>5, <1>6, QuietOnward

LEMMA OpenLedgerIs ==
    ASSUME PlanInv, NEW p \in Proc, OpenLedger(p)
    PROVE  OnwardBy(p, "write") /\ cmd'[p].mark = Len(ledger) /\ cmd[p].pc = "open" /\ cmd[p] # None
<1>1. cmd[p] # None /\ CommandTyped(cmd[p]) /\ DOMAIN cmd = Proc /\ Len(ledger) \in Nat
  BY DEF OpenLedger, At, PlanInv, Process, StateTyped
<1>2. cmd[p].pc = "open" /\ cmd' = [cmd EXCEPT ![p].mark = Len(ledger), ![p].pc = "write"]
  BY DEF OpenLedger, At
<1> QED
  BY <1>1, <1>2 DEF OnwardBy, SameMind, CommandTyped, Fields

LEMMA OpenLedgerKeeps ==
    ASSUME PlanInv, NEW p \in Proc, OpenLedger(p)
    PROVE  PlanInv'
<1>1. /\ cmd[p] # None /\ cmd[p].pc = "open" /\ OnwardBy(p, "write")
      /\ holder[Ledger] = None /\ holder' = [holder EXCEPT ![Ledger] = p]
      /\ UNCHANGED <<plan, visits, results, ledger, charges, left>>
  BY OpenLedgerIs DEF OpenLedger, files
<1>2. StateTyped
  BY DEF PlanInv
<1>3. /\ ledger' \in Seq(Line \cup {Fragment, Garbled})
      /\ charges' \in [Ticket -> 0..TravelLimit]
      /\ holder' \in [Lock -> Proc \cup {None}] /\ holder'[Ledger] = p
      /\ \A l \in Lock : holder'[l] # holder[l] => holder[l] = None
  BY <1>1, <1>2, LocksThere DEF StateTyped
<1>4. "open" \in Bound /\ "write" \in Bound
  BY DEF Bound, Pcs
<1> QED
  BY <1>1, <1>3, <1>4, QuietOnward

LEMMA EnterAcceptsKeeps ==
    ASSUME PlanInv, NEW p \in Proc, EnterAccepts(p)
    PROVE  PlanInv'
<1> DEFINE c == cmd[p]
<1>1. /\ c # None /\ c.pc = "enter" /\ Goto(p, Entered(c))
      /\ UNCHANGED <<plan, visits, results, ledger, charges, holder, left>>
  BY DEF EnterAccepts, At, files
<1>2. CommandTyped(c) /\ Holds(p) /\ StateTyped
  BY <1>1 DEF PlanInv, Process
<1>3. /\ Entered(c) \in {"assign", "record"} /\ Entered(c) \in Bound /\ c.pc \in Bound
      /\ Entered(c) = "assign" => c.kind = "claim"
      /\ Entered(c) = "record" => c.kind = "move"
      /\ c.kind = "claim" => holder'[Ledger] = p
  BY <1>1, <1>2 DEF Entered, Bound, Pcs, CommandTyped, Holds
<1>4. /\ ledger' \in Seq(Line \cup {Fragment, Garbled}) /\ holder' \in [Lock -> Proc \cup {None}]
      /\ charges' \in [Ticket -> 0..TravelLimit]
  BY <1>1, <1>2 DEF StateTyped
<1>5. OnwardBy(p, Entered(c))
  BY <1>1, GotoIsOnward
<1> HIDE DEF c
<1> QED
  BY <1>1, <1>3, <1>4, <1>5, QuietOnward DEF c

LEMMA EnterFailsIs ==
    ASSUME PlanInv, NEW p \in Proc, EnterFails(p)
    PROVE  OnwardBy(p, "restore") /\ cmd'[p].mark = cmd[p].mark /\ cmd[p].pc = "enter" /\ cmd[p] # None
<1>1. cmd[p] # None /\ CommandTyped(cmd[p]) /\ DOMAIN cmd = Proc
  BY DEF EnterFails, At, PlanInv, Process, StateTyped
<1>2. /\ cmd[p].pc = "enter"
      /\ cmd' = [cmd EXCEPT ![p].pc = "restore", ![p].retry = cmd[p].kind = "claim"]
  BY DEF EnterFails, At
<1> QED
  BY <1>1, <1>2 DEF OnwardBy, SameMind, CommandTyped, Fields

LEMMA EnterFailsKeeps ==
    ASSUME PlanInv, NEW p \in Proc, EnterFails(p)
    PROVE  PlanInv'
<1>1. /\ cmd[p] # None /\ cmd[p].pc = "enter" /\ OnwardBy(p, "restore")
      /\ UNCHANGED <<plan, visits, results, ledger, charges, holder, left>>
  BY EnterFailsIs DEF EnterFails, files
<1>2. CommandTyped(cmd[p]) /\ Holds(p) /\ StateTyped
  BY <1>1 DEF PlanInv, Process
<1>3. /\ "restore" \in Bound /\ cmd[p].pc \in Bound
      /\ cmd[p].kind = "claim" => holder'[Ledger] = p
  BY <1>1, <1>2 DEF Bound, Pcs, Holds
<1>4. /\ ledger' \in Seq(Line \cup {Fragment, Garbled}) /\ holder' \in [Lock -> Proc \cup {None}]
      /\ charges' \in [Ticket -> 0..TravelLimit]
  BY <1>1, <1>2 DEF StateTyped
<1> QED
  BY <1>1, <1>3, <1>4, QuietOnward

LEMMA ClaimFailsKeeps ==
    ASSUME PlanInv, NEW p \in Proc, ClaimFails(p)
    PROVE  PlanInv'
<1>1. /\ cmd[p] # None /\ cmd[p].kind = "claim"
      /\ cmd[p].pc \in {"write", "place", "assign", "commit"} /\ Goto(p, "restore")
      /\ UNCHANGED <<plan, visits, results, charges, holder, left>>
      /\ ledger' \in {ledger, Extend(ledger, Fragment)}
  BY DEF ClaimFails
<1>2. Holds(p) /\ StateTyped
  BY <1>1 DEF PlanInv, Process
<1>3. /\ "restore" \in Bound /\ cmd[p].pc \in Bound /\ holder'[Ledger] = p
  BY <1>1, <1>2 DEF Bound, Pcs, Holds
<1>4. ledger' \in Seq(Line \cup {Fragment, Garbled})
  BY <1>1, <1>2, ExtendIs DEF StateTyped
<1>5. holder' \in [Lock -> Proc \cup {None}] /\ charges' \in [Ticket -> 0..TravelLimit]
  BY <1>1, <1>2 DEF StateTyped
<1>6. OnwardBy(p, "restore")
  BY <1>1, GotoIsOnward
<1> QED
  BY <1>1, <1>3, <1>4, <1>5, <1>6, QuietOnward

LEMMA RecordKeeps ==
    ASSUME PlanInv, NEW p \in Proc, Record(p)
    PROVE  PlanInv'
<1>1. /\ cmd[p] # None /\ cmd[p].pc = "record" /\ ledger' = Extend(ledger, LineOf(cmd[p]))
      /\ UNCHANGED <<plan, visits, results, charges>>
      /\ \/ Goto(p, "finish") /\ UNCHANGED <<holder, left>>
         \/ Return(p)
  BY DEF Record, At
<1>2. CASE Return(p)
  BY <1>1, <1>2, LeavesKeep
<1>3. CASE Goto(p, "finish") /\ UNCHANGED <<holder, left>>
  <2>1. CommandTyped(cmd[p]) /\ StateTyped
    BY <1>1 DEF PlanInv, Process
  <2>2. LineOf(cmd[p]) \in Line
    BY <2>1, ItsLine
  <2>3. ledger' \in Seq(Line \cup {Fragment, Garbled})
    BY <1>1, <2>1, <2>2, ExtendIs DEF StateTyped
  <2>4. holder' \in [Lock -> Proc \cup {None}] /\ charges' \in [Ticket -> 0..TravelLimit]
    BY <1>1, <1>3, <2>1 DEF StateTyped
  <2>5. cmd[p].kind = "move" /\ cmd[p].pc \in Bound /\ "finish" \in Bound
    BY <1>1, <2>1 DEF CommandTyped, Bound, Pcs
  <2>6. OnwardBy(p, "finish")
    BY <1>1, <1>3, GotoIsOnward
  <2> QED
    BY <1>1, <1>3, <2>3, <2>4, <2>5, <2>6, QuietOnward
<1> QED
  BY <1>1, <1>2, <1>3

-----------------------------------------------------------------------------
(* Locks are taken, and the edge is chosen.                                *)

LEMMA RouteKeeps ==
    ASSUME PlanInv, NEW p \in Proc, Route(p)
    PROVE  PlanInv'
<1> DEFINE c == cmd[p]
           d == cmd'[p]
<1>1. /\ c # None /\ c.pc = "check" /\ Admits(c)
      /\ UNCHANGED <<plan, visits, results, ledger, charges, holder, left>>
  BY DEF Route, At, files
<1>2. PICK to : Lands(c, to) /\ cmd' = [cmd EXCEPT ![p].to = to, ![p].pc = "charge"]
  BY DEF Route
<1>3. /\ CommandTyped(c) /\ Holds(p) /\ FilesStand(p) /\ BeforeWhole(c) /\ StateTyped
      /\ DOMAIN cmd = Proc
  BY <1>1 DEF PlanInv, Process, StateTyped
<1>4. /\ DOMAIN cmd' = Proc /\ \A q \in Proc \ {p} : cmd'[q] = cmd[q]
      /\ DOMAIN d = Fields /\ d.pc = "charge" /\ d.to = to /\ d.kind = c.kind
      /\ d.ticket = c.ticket /\ d.from = c.from /\ d.want = c.want /\ d.before = c.before
      /\ d.mark = c.mark
  BY <1>2, <1>3 DEF CommandTyped, Fields
<1>5. /\ <<c.from, to>> \in Edges /\ to \in State /\ DescendantsEnded(c, to)
      /\ c.kind = "claim" => ~Ends(to)
  BY <1>2, EdgeEnds DEF Lands
<1>6. c.kind \in {"claim", "move"} /\ c.ticket \in Ticket /\ c.before \in ContentsOf(c.ticket)
  BY <1>1, <1>3 DEF CommandTyped
<1>7. CommandTyped(d)
  BY <1>3, <1>4, <1>5, <1>6 DEF CommandTyped, Pcs, Bound
<1>8. Holds(p)'
  <2>1. Holds(p)' <=>
          LET e == d IN
          /\ e.pc = "lock" =>
               \/ e.want = Locks(e.kind, e.ticket)
               \/ e.want = <<PlanFile[e.ticket]>> /\ holder[Manifest[e.ticket]] = p
          /\ e.pc # "lock" =>
               /\ e.want = <<>> /\ holder[PlanFile[e.ticket]] = p
               /\ e.kind # "release" => holder[Manifest[e.ticket]] = p
          /\ e.kind = "claim" /\ e.pc \in Bound \ {"charge", "open"} => holder[Ledger] = p
    BY <1>1 DEF Holds
  <2> QED
    BY <1>1, <1>3, <1>4, <2>1 DEF Holds
<1>9. HeadingsAre(c.ticket, c.before.headings) /\ CountsAre(c.ticket, c.before.counts)
  BY <1>1, <1>3 DEF FilesStand
<1>10. FilesStand(p)'
  BY <1>1, <1>4, <1>9 DEF FilesStand, HeadingsAre, CountsAre
<1>11. Admitted(d)
  <2>1. c.before.headings[c.ticket].state = c.from
    BY <1>2, <1>1 DEF Admits
  <2>2. c.kind = "claim" => c.before.headings[c.ticket].assignee = None
    BY <1>1, <1>6, <1>9, FileParts DEF Admits, Claimable, HeadingsAre
  <2> QED
    BY <1>4, <1>5, <2>1, <2>2 DEF Admitted, DescendantsEnded
<1>12. BeforeWhole(d)
  BY <1>1, <1>3, <1>4 DEF BeforeWhole
<1>13. Process(p)'
  BY <1>7, <1>8, <1>10, <1>11, <1>12 DEF Process
<1>14. StateTyped'
  BY <1>1, <1>3, <1>4 DEF StateTyped
<1>15. Local(p)
  BY <1>1, <1>4 DEF Local
<1>16. TerminalSubtree'
  BY <1>1, SamePlanWhole DEF PlanInv
<1> QED
  BY <1>13, <1>14, <1>15, <1>16, StepKeeps

\* What a command reads when it has its last lock.
LEMMA ContentsAre ==
    ASSUME StateTyped, TerminalSubtree, NEW t \in Ticket
    PROVE  /\ Contents(t) \in ContentsOf(t)
           /\ HeadingsAre(t, Contents(t).headings) /\ CountsAre(t, Contents(t).counts)
           /\ \A a \in InFile(t) : Ends(Contents(t).headings[a].state) =>
                \A u \in Descendants(a) : Ends(Contents(t).headings[u].state)
<1>1. /\ Restrict(plan, InFile(t)) = [u \in InFile(t) |-> plan[u]]
      /\ Restrict(visits, InManifest(t)) = [u \in InManifest(t) |-> visits[u]]
  BY DEF Restrict
<1>2. /\ InFile(t) \subseteq Ticket /\ InManifest(t) \subseteq Ticket
      /\ \A a \in InFile(t) : Descendants(a) \subseteq InFile(t)
  <2>1. ASSUME NEW a \in InFile(t)
        PROVE  Descendants(a) \subseteq InFile(t)
    <3>1. a \in Ticket /\ InFile(a) = InFile(t)
      BY DEF InFile
    <3> QED
      BY <3>1, FileParts
  <2> QED
    BY <2>1, FileParts
<1> QED
  BY <1>1, <1>2 DEF Contents, ContentsOf, StateTyped, HeadingsAre, CountsAre, TerminalSubtree

LEMMA AcquireIs ==
    ASSUME PlanInv, NEW p \in Proc, Acquire(p)
    PROVE  LET c == cmd[p]
               d == cmd'[p]
               t == c.ticket
           IN  /\ c # None /\ c.pc = "lock" /\ CommandTyped(c) /\ Head(c.want) \in Lock
               /\ holder[Head(c.want)] = None
               /\ holder' = [holder EXCEPT ![Head(c.want)] = p]
               /\ DOMAIN cmd' = Proc /\ \A q \in Proc \ {p} : cmd'[q] = cmd[q]
               /\ DOMAIN d = Fields /\ d.to = c.to /\ d.kind = c.kind /\ d.ticket = t
               /\ d.from = c.from /\ d.mark = c.mark
               /\ \/ /\ d.pc = "lock" /\ d.want = <<PlanFile[t]>> /\ Head(c.want) = Manifest[t]
                  \/ /\ d.pc = FirstStep(c.kind) /\ d.want = <<>> /\ d.before = Contents(t)
                     /\ Head(c.want) = PlanFile[t]
                     /\ c.kind # "release" =>
                          Manifest[t] = PlanFile[t] \/ holder[Manifest[t]] = p
<1> DEFINE c == cmd[p]
           t == c.ticket
           d == cmd'[p]
<1>1. /\ c # None /\ c.pc = "lock" /\ holder[Head(c.want)] = None
      /\ holder' = [holder EXCEPT ![Head(c.want)] = p]
      /\ cmd' = [cmd EXCEPT ![p] =
           IF Len(c.want) > 1 THEN [c EXCEPT !.want = Tail(@)]
           ELSE [c EXCEPT !.want = <<>>, !.pc = FirstStep(c.kind), !.before = Contents(t)]]
  BY DEF Acquire, At
<1>2. CommandTyped(c) /\ Holds(p) /\ DOMAIN cmd = Proc
  BY <1>1 DEF PlanInv, Process, StateTyped
<1>3. t \in Ticket /\ c.kind \in Kinds /\ DOMAIN c = Fields
  BY <1>2 DEF CommandTyped
<1>4. \/ c.want = <<Manifest[t], PlanFile[t]>>
      \/ /\ c.want = <<PlanFile[t]>>
         /\ c.kind # "release" => Manifest[t] = PlanFile[t] \/ holder[Manifest[t]] = p
  BY <1>1, <1>2, <1>3, TheseLocks DEF Holds, Inline
<1>5. PlanFile[t] \in Lock /\ Manifest[t] \in Lock
  BY <1>3, LocksThere
<1>6. CASE c.want = <<Manifest[t], PlanFile[t]>>
  <2>1. Len(c.want) > 1 /\ Head(c.want) = Manifest[t] /\ Tail(c.want) = <<PlanFile[t]>>
    BY <1>6
  <2>2. d = [c EXCEPT !.want = Tail(@)]
    BY <1>1, <1>2, <2>1
  <2> QED
    BY <1>1, <1>2, <1>3, <1>5, <2>1, <2>2 DEF Fields
<1>7. CASE /\ c.want = <<PlanFile[t]>>
           /\ c.kind # "release" => Manifest[t] = PlanFile[t] \/ holder[Manifest[t]] = p
  <2>1. Len(c.want) = 1 /\ Head(c.want) = PlanFile[t]
    BY <1>7
  <2>2. d = [c EXCEPT !.want = <<>>, !.pc = FirstStep(c.kind), !.before = Contents(t)]
    BY <1>1, <1>2, <2>1
  <2> QED
    BY <1>1, <1>2, <1>3, <1>5, <1>7, <2>1, <2>2 DEF Fields
<1> QED
  BY <1>4, <1>6, <1>7

LEMMA AcquireKeeps ==
    ASSUME PlanInv, NEW p \in Proc, Acquire(p)
    PROVE  PlanInv'
<1> DEFINE c == cmd[p]
           d == cmd'[p]
           t == c.ticket
<1>1. /\ c # None /\ c.pc = "lock" /\ CommandTyped(c) /\ Head(c.want) \in Lock
      /\ holder[Head(c.want)] = None
      /\ holder' = [holder EXCEPT ![Head(c.want)] = p]
      /\ DOMAIN cmd' = Proc /\ \A q \in Proc \ {p} : cmd'[q] = cmd[q]
      /\ DOMAIN d = Fields /\ d.to = c.to /\ d.kind = c.kind /\ d.ticket = t
      /\ d.from = c.from /\ d.mark = c.mark
  BY AcquireIs
<1>2. \/ /\ d.pc = "lock" /\ d.want = <<PlanFile[t]>> /\ Head(c.want) = Manifest[t]
      \/ /\ d.pc = FirstStep(c.kind) /\ d.want = <<>> /\ d.before = Contents(t)
         /\ Head(c.want) = PlanFile[t]
         /\ c.kind # "release" => Manifest[t] = PlanFile[t] \/ holder[Manifest[t]] = p
  BY AcquireIs
<1>3. UNCHANGED <<plan, visits, results, ledger, charges, left>>
  BY DEF Acquire, files
<1>4. StateTyped /\ TerminalSubtree
  BY DEF PlanInv
<1>5. /\ t \in Ticket /\ c.kind \in Kinds /\ c.from \in State /\ c.to \in State /\ c.mark \in Nat
      /\ PlanFile[t] \in Lock /\ Manifest[t] \in Lock /\ p # None
  BY <1>1, LocksThere, NoneAssumption DEF CommandTyped
<1>6. /\ holder' \in [Lock -> Proc \cup {None}]
      /\ \A l \in Lock : holder[l] = p => holder'[l] = p
      /\ holder'[Head(c.want)] = p
      /\ \A l \in Lock : holder'[l] # holder[l] => holder[l] = None
  BY <1>1, <1>4 DEF StateTyped
<1>7. StateTyped'
  BY <1>1, <1>3, <1>4, <1>6 DEF StateTyped
<1>8. Local(p)
  BY <1>1, <1>3, <1>6 DEF Local
<1>9. TerminalSubtree'
  BY <1>3, <1>4, SamePlanWhole
<1>10. Process(p)'
  <2>1. CASE d.pc = "lock" /\ d.want = <<PlanFile[t]>> /\ Head(c.want) = Manifest[t]
    BY <1>1, <1>5, <1>6, <2>1
       DEF Process, CommandTyped, Holds, FilesStand, Admitted, BeforeWhole, Pcs, Bound
  <2>2. CASE /\ d.pc = FirstStep(c.kind) /\ d.want = <<>> /\ d.before = Contents(t)
             /\ Head(c.want) = PlanFile[t]
             /\ c.kind # "release" => Manifest[t] = PlanFile[t] \/ holder[Manifest[t]] = p
    <3>1. /\ d.before \in ContentsOf(t)
          /\ HeadingsAre(t, d.before.headings) /\ CountsAre(t, d.before.counts)
          /\ \A a \in InFile(t) : Ends(d.before.headings[a].state) =>
               \A u \in Descendants(a) : Ends(d.before.headings[u].state)
      BY <1>4, <1>5, <2>2, ContentsAre
    <3>2. \/ d.pc = "check" /\ d.kind \in {"claim", "move"}
          \/ d.pc = "take" /\ d.kind = "take"
          \/ d.pc = "drop" /\ d.kind = "release"
      BY <1>1, <1>5, <2>2 DEF FirstStep, Kinds
    <3>3. holder'[PlanFile[t]] = p /\ (c.kind # "release" => holder'[Manifest[t]] = p)
      BY <1>5, <1>6, <2>2
    <3>4. CommandTyped(d)
      BY <1>1, <1>5, <3>1, <3>2 DEF CommandTyped, Pcs, Bound
    <3>5. Holds(p)'
      BY <1>1, <2>2, <3>2, <3>3 DEF Holds, Bound
    <3>6. FilesStand(p)'
      BY <1>1, <1>3, <3>1, <3>2 DEF FilesStand, HeadingsAre, CountsAre
    <3>7. Admitted(d) /\ BeforeWhole(d)
      BY <1>1, <3>1, <3>2 DEF Admitted, BeforeWhole, Bound
    <3> QED
      BY <3>4, <3>5, <3>6, <3>7 DEF Process
  <2> QED
    BY <1>2, <2>1, <2>2
<1> QED
  BY <1>7, <1>8, <1>9, <1>10, StepKeeps

-----------------------------------------------------------------------------
(* The writes, and what takes them back.                                   *)

LEMMA PutHeadings ==
    ASSUME PlanInv, NEW p \in Proc, cmd[p] # None, cmd[p].pc # "lock",
           NEW headings \in [InFile(cmd[p].ticket) -> Heading], NEW whole,
           plan' = Overlay(plan, headings),
           \A u \in InFile(cmd[p].ticket) : headings[u].state = whole[u].state,
           \A a \in InFile(cmd[p].ticket) : Ends(whole[a].state) =>
             \A u \in Descendants(a) : Ends(whole[u].state)
    PROVE  /\ plan' \in [Ticket -> Heading] /\ TerminalSubtree'
           /\ \A u \in InFile(cmd[p].ticket) : plan'[u] = headings[u]
           /\ \A u \in Ticket : plan'[u] # plan[u] => holder[PlanFile[u]] = p
<1> DEFINE t == cmd[p].ticket
<1>1. Process(p) /\ plan \in [Ticket -> Heading] /\ TerminalSubtree
  BY DEF PlanInv, StateTyped
<1>2. t \in Ticket /\ \A u \in InFile(t) : u \in Ticket /\ holder[PlanFile[u]] = p
  BY <1>1, Reading
<1>3. /\ plan' \in [Ticket -> Heading]
      /\ \A u \in InFile(t) : plan'[u] = headings[u]
      /\ \A u \in Ticket \ InFile(t) : plan'[u] = plan[u]
  <2>1. InFile(t) \in SUBSET Ticket
    BY <1>2
  <2>2. /\ Overlay(plan, headings) \in [Ticket -> Heading]
        /\ \A u \in InFile(t) : Overlay(plan, headings)[u] = headings[u]
        /\ \A u \in Ticket \ InFile(t) : Overlay(plan, headings)[u] = plan[u]
    BY <1>1, <2>1 DEF Overlay
  <2> QED
    BY <2>2
<1>4. TerminalSubtree'
  BY <1>1, <1>2, <1>3, WholeFile
<1> QED
  BY <1>2, <1>3, <1>4

LEMMA PutCounts ==
    ASSUME PlanInv, NEW p \in Proc, cmd[p] # None, cmd[p].pc \in Bound,
           NEW counts \in [InManifest(cmd[p].ticket) -> Counts],
           visits' = Overlay(visits, counts)
    PROVE  /\ visits' \in [Ticket -> Counts]
           /\ \A u \in InManifest(cmd[p].ticket) : visits'[u] = counts[u]
           /\ \A u \in Ticket : visits'[u] # visits[u] => holder[Manifest[u]] = p
<1> DEFINE t == cmd[p].ticket
<1>1. Process(p) /\ visits \in [Ticket -> Counts] /\ CommandTyped(cmd[p])
  BY DEF PlanInv, StateTyped, Process
<1>2. \A u \in InManifest(t) : u \in Ticket /\ holder[Manifest[u]] = p
  BY <1>1, Reading DEF Bound, CommandTyped
<1>3. /\ visits' \in [Ticket -> Counts]
      /\ \A u \in InManifest(t) : visits'[u] = counts[u]
      /\ \A u \in Ticket \ InManifest(t) : visits'[u] = visits[u]
  <2>1. InManifest(t) \in SUBSET Ticket
    BY <1>2
  <2>2. /\ Overlay(visits, counts) \in [Ticket -> Counts]
        /\ \A u \in InManifest(t) : Overlay(visits, counts)[u] = counts[u]
        /\ \A u \in Ticket \ InManifest(t) : Overlay(visits, counts)[u] = visits[u]
    BY <1>1, <2>1 DEF Overlay
  <2> QED
    BY <2>2
<1> QED
  BY <1>2, <1>3

\* Where a command stands after its edge is written.
LEMMA WrittenIs ==
    ASSUME NEW c, CommandTyped(c), c.kind \in {"claim", "move"}
    PROVE  /\ Written(c) \in {"enter", "assign", "record"} /\ Written(c) \in Bound
           /\ Written(c) \in {"open", "assign", "commit"} => c.kind = "claim"
           /\ Written(c) \in {"record", "finish"} => c.kind = "move"
BY DEF Written, Entered, Bound, Pcs

LEMMA WriteManifestKeeps ==
    ASSUME PlanInv, NEW p \in Proc, WriteManifest(p)
    PROVE  PlanInv'
<1> DEFINE c == cmd[p]
           pc == IF Inline(c.ticket) THEN Written(c) ELSE "place"
<1>1. /\ c # None /\ c.pc = "write" /\ visits' = Overlay(visits, MovedCounts(c)) /\ Goto(p, pc)
      /\ plan' = IF Inline(c.ticket) THEN Overlay(plan, MovedHeadings(c)) ELSE plan
      /\ UNCHANGED <<results, ledger, charges, holder, left>>
  BY DEF WriteManifest, At
<1>2. /\ CommandTyped(c) /\ Holds(p) /\ FilesStand(p) /\ Admitted(c) /\ BeforeWhole(c)
      /\ StateTyped /\ TerminalSubtree
  BY <1>1 DEF PlanInv, Process
<1>3. c.pc \in Bound /\ c.pc # "lock" /\ c.kind \in {"claim", "move"}
  BY <1>1, <1>2 DEF Bound, Pcs, CommandTyped
<1>4. /\ pc \in {"place", "enter", "assign", "record"} /\ pc \in Bound
      /\ pc \in {"open", "assign", "commit"} => c.kind = "claim"
      /\ pc \in {"record", "finish"} => c.kind = "move"
      /\ pc = "place" <=> ~Inline(c.ticket)
  BY <1>2, <1>3, WrittenIs DEF Bound, Pcs
<1> HIDE DEF pc
<1>5. /\ visits' \in [Ticket -> Counts] 
      /\ \A u \in InManifest(c.ticket) : visits'[u] = MovedCounts(c)[u]
      /\ \A u \in Ticket : visits'[u] # visits[u] => holder[Manifest[u]] = p
  BY <1>1, <1>2, <1>3, MovedIs, PutCounts
<1>6. /\ plan' \in [Ticket -> Heading] /\ TerminalSubtree'
      /\ Inline(c.ticket) => \A u \in InFile(c.ticket) : plan'[u] = MovedHeadings(c)[u]
      /\ ~Inline(c.ticket) => \A u \in InFile(c.ticket) : plan'[u] = c.before.headings[u]
      /\ \A u \in Ticket : plan'[u] # plan[u] => holder[PlanFile[u]] = p
  <2>1. CASE Inline(c.ticket)
    BY <1>1, <1>2, <1>3, <2>1, MovedIs, MovedWhole, PutHeadings
  <2>2. CASE ~Inline(c.ticket)
    BY <1>1, <1>2, <2>2, SamePlanWhole DEF StateTyped, FilesStand, HeadingsAre
  <2> QED
    BY <2>1, <2>2
<1>7. OnwardBy(p, pc)
  BY <1>1, GotoIsOnward
<1>8. FilesStand(p)'
  <2>1. /\ cmd'[p].ticket = c.ticket /\ cmd'[p].before = c.before /\ cmd'[p].kind = c.kind
        /\ cmd'[p].from = c.from /\ cmd'[p].to = c.to /\ cmd'[p].pc = pc
    BY <1>7 DEF OnwardBy, SameMind
  <2>2. MovedHeadings(cmd'[p]) = MovedHeadings(c) /\ MovedCounts(cmd'[p]) = MovedCounts(c)
    BY <2>1 DEF MovedHeadings, MovedCounts
  <2> QED
    BY <1>4, <1>5, <1>6, <2>1, <2>2 DEF FilesStand, HeadingsAre, CountsAre
<1>9. DataTyped' /\ holder' \in [Lock -> Proc \cup {None}]
  BY <1>1, <1>2, <1>5, <1>6 DEF StateTyped, DataTyped
<1>10. c.kind = "claim" => holder'[Ledger] = p
  BY <1>1, <1>2, <1>3 DEF Holds
<1> QED
  BY <1>1, <1>3, <1>4, <1>5, <1>6, <1>7, <1>8, <1>9, <1>10, OnwardKeeps

LEMMA WriteTaskKeeps ==
    ASSUME PlanInv, NEW p \in Proc, WriteTask(p)
    PROVE  PlanInv'
<1> DEFINE c == cmd[p]
<1>1. /\ c # None /\ c.pc = "place" /\ Goto(p, Written(c))
      /\ plan' = Overlay(plan, MovedHeadings(c))
      /\ UNCHANGED <<visits, results, ledger, charges, holder, left>>
  BY DEF WriteTask, At
<1>2. /\ CommandTyped(c) /\ Holds(p) /\ FilesStand(p) /\ Admitted(c) /\ BeforeWhole(c)
      /\ StateTyped
  BY <1>1 DEF PlanInv, Process
<1>3. c.pc \in Bound /\ c.pc # "lock" /\ c.kind \in {"claim", "move"}
  BY <1>1, <1>2 DEF Bound, Pcs, CommandTyped
<1>4. /\ Written(c) \in {"enter", "assign", "record"} /\ Written(c) \in Bound
      /\ Written(c) \in {"open", "assign", "commit"} => c.kind = "claim"
      /\ Written(c) \in {"record", "finish"} => c.kind = "move"
  BY <1>2, <1>3, WrittenIs
<1>5. /\ plan' \in [Ticket -> Heading] /\ TerminalSubtree'
      /\ \A u \in InFile(c.ticket) : plan'[u] = MovedHeadings(c)[u]
      /\ \A u \in Ticket : plan'[u] # plan[u] => holder[PlanFile[u]] = p
  BY <1>1, <1>2, <1>3, MovedIs, MovedWhole, PutHeadings
<1>6. \A u \in InManifest(c.ticket) : visits'[u] = MovedCounts(c)[u]
  BY <1>1, <1>2 DEF FilesStand, CountsAre
<1>7. OnwardBy(p, Written(c))
  BY <1>1, GotoIsOnward
<1>8. FilesStand(p)'
  <2>1. /\ cmd'[p].ticket = c.ticket /\ cmd'[p].before = c.before /\ cmd'[p].kind = c.kind
        /\ cmd'[p].from = c.from /\ cmd'[p].to = c.to /\ cmd'[p].pc = Written(c)
    BY <1>7 DEF OnwardBy, SameMind
  <2>2. MovedHeadings(cmd'[p]) = MovedHeadings(c) /\ MovedCounts(cmd'[p]) = MovedCounts(c)
    BY <2>1 DEF MovedHeadings, MovedCounts
  <2> QED
    BY <1>4, <1>5, <1>6, <2>1, <2>2 DEF FilesStand, HeadingsAre, CountsAre
<1>9. DataTyped' /\ holder' \in [Lock -> Proc \cup {None}]
  BY <1>1, <1>2, <1>5 DEF StateTyped, DataTyped
<1>10. c.kind = "claim" => holder'[Ledger] = p
  BY <1>1, <1>2, <1>3 DEF Holds
<1> QED
  BY <1>1, <1>3, <1>4, <1>5, <1>7, <1>8, <1>9, <1>10, OnwardKeeps

LEMMA AssignKeeps ==
    ASSUME PlanInv, NEW p \in Proc, Assign(p)
    PROVE  PlanInv'
<1> DEFINE c == cmd[p]
<1>1. /\ c # None /\ c.pc = "assign" /\ Goto(p, "commit")
      /\ plan' = Overlay(plan, AssignedHeadings(p))
      /\ UNCHANGED <<visits, results, ledger, charges, holder, left>>
  BY DEF Assign, At, AssignedHeadings
<1>2. /\ CommandTyped(c) /\ Holds(p) /\ FilesStand(p) /\ Admitted(c) /\ BeforeWhole(c)
      /\ StateTyped
  BY <1>1 DEF PlanInv, Process
<1>3. c.pc \in Bound /\ "commit" \in Bound /\ c.pc # "lock" /\ c.kind = "claim"
  BY <1>1, <1>2 DEF Bound, Pcs, CommandTyped
<1>4. /\ plan' \in [Ticket -> Heading] /\ TerminalSubtree'
      /\ \A u \in InFile(c.ticket) : plan'[u] = AssignedHeadings(p)[u]
      /\ \A u \in Ticket : plan'[u] # plan[u] => holder[PlanFile[u]] = p
  <2>1. \A u \in InFile(c.ticket) : AssignedHeadings(p)[u].state = MovedHeadings(c)[u].state
    BY <1>2, <1>3, MovedIs, AssignedIs
  <2>2. AssignedHeadings(p) \in [InFile(c.ticket) -> Heading]
    BY <1>2, <1>3, AssignedIs
  <2>3. \A a \in InFile(c.ticket) : Ends(MovedHeadings(c)[a].state) =>
          \A u \in Descendants(a) : Ends(MovedHeadings(c)[u].state)
    BY <1>2, <1>3, MovedWhole
  <2> QED
    BY <1>1, <1>3, <2>1, <2>2, <2>3, PutHeadings
<1>5. \A u \in InManifest(c.ticket) : visits'[u] = MovedCounts(c)[u]
  BY <1>1, <1>2 DEF FilesStand, CountsAre
<1>6. OnwardBy(p, "commit")
  BY <1>1, GotoIsOnward
<1>7. FilesStand(p)'
  <2>1. /\ cmd'[p].ticket = c.ticket /\ cmd'[p].before = c.before /\ cmd'[p].kind = c.kind
        /\ cmd'[p].from = c.from /\ cmd'[p].to = c.to /\ cmd'[p].pc = "commit"
    BY <1>6 DEF OnwardBy, SameMind
  <2>2. AssignedHeadings(p)' = AssignedHeadings(p) /\ MovedCounts(cmd'[p]) = MovedCounts(c)
    BY <2>1 DEF MovedHeadings, MovedCounts, AssignedHeadings
  <2> QED
    BY <1>4, <1>5, <2>1, <2>2 DEF FilesStand, HeadingsAre, CountsAre
<1>8. DataTyped' /\ holder' \in [Lock -> Proc \cup {None}] /\ holder'[Ledger] = p
  BY <1>1, <1>2, <1>3, <1>4 DEF StateTyped, DataTyped, Holds
<1> QED
  BY <1>1, <1>3, <1>4, <1>6, <1>7, <1>8, OnwardKeeps

LEMMA RestoreFilesIs ==
    ASSUME PlanInv, MarkInv, NEW p \in Proc, cmd[p] # None, cmd[p].pc = "restore",
           NEW failed, RestoreFiles(cmd[p], failed), UNCHANGED <<results, charges>>
    PROVE  /\ DataTyped' /\ TerminalSubtree'
           /\ \A u \in Ticket : plan'[u] # plan[u] => holder[PlanFile[u]] = p
           /\ \A u \in Ticket : visits'[u] # visits[u] => holder[Manifest[u]] = p
<1> DEFINE c == cmd[p]
           t == c.ticket
<1>1. /\ CommandTyped(c) /\ BeforeWhole(c) /\ StateTyped /\ TerminalSubtree
  BY DEF PlanInv, Process
<1>2. /\ c.pc \in Bound /\ c.pc # "lock" /\ t \in Ticket
      /\ c.before.headings \in [InFile(t) -> Heading]
      /\ c.before.counts \in [InManifest(t) -> Counts]
      /\ \A a \in InFile(t) : Ends(c.before.headings[a].state) =>
           \A u \in Descendants(a) : Ends(c.before.headings[u].state)
  BY <1>1 DEF Bound, Pcs, CommandTyped, ContentsOf, BeforeWhole
<1>3. /\ plan' \in [Ticket -> Heading] /\ TerminalSubtree'
      /\ \A u \in Ticket : plan'[u] # plan[u] => holder[PlanFile[u]] = p
  <2>1. CASE plan' = plan
    BY <1>1, <2>1, SamePlanWhole DEF StateTyped
  <2>2. CASE plan' = Overlay(plan, c.before.headings)
    BY <1>2, <2>2, PutHeadings
  <2> QED
    BY <2>1, <2>2 DEF RestoreFiles
<1>4. /\ visits' \in [Ticket -> Counts]
      /\ \A u \in Ticket : visits'[u] # visits[u] => holder[Manifest[u]] = p
  <2>1. CASE visits' = visits
    BY <1>1, <2>1 DEF StateTyped
  <2>2. CASE visits' = Overlay(visits, c.before.counts)
    BY <1>2, <2>2, PutCounts
  <2> QED
    BY <2>1, <2>2 DEF RestoreFiles
<1>5. ledger' \in Seq(Line \cup {Fragment, Garbled})
  <2>1. CASE ledger' = ledger
    BY <1>1, <2>1 DEF StateTyped
  <2>2. CASE c.kind = "claim" /\ ledger' = SubSeq(ledger, 1, c.mark)
    <3>1. c.mark \in Nat /\ c.mark <= Len(ledger)
      BY <1>1, <2>2 DEF MarkInv, CommandTyped, Bound, Pcs
    <3> QED
      BY <1>1, <2>2, <3>1, CutIs DEF StateTyped
  <2> QED
    BY <2>1, <2>2 DEF RestoreFiles
<1> QED
  BY <1>1, <1>3, <1>4, <1>5 DEF DataTyped, StateTyped

LEMMA RestoreKeeps ==
    ASSUME PlanInv, MarkInv, NEW p \in Proc, Restore(p)
    PROVE  PlanInv'
<1> DEFINE c == cmd[p]
           d == [c EXCEPT !.kind = "move", !.to = Recovery, !.pc = "lock",
                          !.want = Locks("move", c.ticket), !.before = None,
                          !.mark = 0, !.retry = FALSE]
<1>1. c # None /\ c.pc = "restore" /\ UNCHANGED <<results, charges>>
  BY DEF Restore, At
<1>2. PICK failed : /\ RestoreFiles(c, failed)
                    /\ \/ Return(p)
                       \/ /\ Recovery # None /\ cmd' = [cmd EXCEPT ![p] = d]
                          /\ holder' = Freed(p) /\ UNCHANGED left
  BY DEF Restore
<1>3. /\ DataTyped' /\ TerminalSubtree'
      /\ \A u \in Ticket : plan'[u] # plan[u] => holder[PlanFile[u]] = p
      /\ \A u \in Ticket : visits'[u] # visits[u] => holder[Manifest[u]] = p
  BY <1>1, <1>2, RestoreFilesIs
<1>4. CASE Return(p)
  BY <1>3, <1>4, ReturnKeeps
<1>5. CASE /\ Recovery # None /\ cmd' = [cmd EXCEPT ![p] = d]
           /\ holder' = Freed(p) /\ UNCHANGED left
  <2>1. CommandTyped(c) /\ StateTyped /\ DOMAIN cmd = Proc
    BY <1>1 DEF PlanInv, Process, StateTyped
  <2>2. DOMAIN cmd' = Proc /\ cmd'[p] = d /\ \A q \in Proc \ {p} : cmd'[q] = cmd[q]
    BY <1>5, <2>1
  <2>3. /\ holder' \in [Lock -> Proc \cup {None}]
        /\ \A l \in Lock : holder'[l] # holder[l] => holder[l] = p
    BY <1>5, <2>1 DEF Freed, StateTyped
  <2>4. /\ DOMAIN d = Fields /\ d.kind = "move" /\ d.to = Recovery /\ d.pc = "lock"
        /\ d.ticket = c.ticket /\ d.from = c.from /\ d.mark = 0
        /\ d.want = Locks("move", c.ticket)
    BY <2>1 DEF CommandTyped, Fields
  <2> HIDE DEF d
  <2>5. Recovery \in State
    BY <1>5, MachineAssumption
  <2>6. CommandTyped(d) /\ Admitted(d) /\ BeforeWhole(d)
    BY <2>1, <2>4, <2>5 DEF CommandTyped, Admitted, BeforeWhole, Pcs, Bound, Kinds
  <2>7. Holds(p)' /\ FilesStand(p)'
    BY <2>2, <2>4 DEF Holds, FilesStand, Bound
  <2>8. Process(p)'
    BY <2>2, <2>6, <2>7 DEF Process
  <2>9. StateTyped'
    BY <1>3, <1>5, <2>1, <2>2, <2>3 DEF StateTyped, DataTyped
  <2>10. Local(p)
    BY <1>3, <2>2, <2>3 DEF Local
  <2> QED
    BY <1>3, <2>8, <2>9, <2>10, StepKeeps
<1> QED
  BY <1>2, <1>4, <1>5

\* Tickets change hands, and stay in their states.
LEMMA OwnerChanges ==
    ASSUME PlanInv, NEW t \in Ticket, NEW owner \in Proc \cup {None}, NEW link \in BOOLEAN,
           \/ plan' = [plan EXCEPT ![t].assignee = owner]
           \/ plan' = [plan EXCEPT ![t].assignee = owner, ![t].link = link]
    PROVE  /\ plan' \in [Ticket -> Heading] /\ TerminalSubtree'
           /\ plan'[t].assignee = owner
           /\ \A u \in Ticket : u # t => plan'[u] = plan[u]
           /\ \A u \in Ticket : plan'[u].state = plan[u].state
<1>1. plan \in [Ticket -> Heading] /\ TerminalSubtree
  BY DEF PlanInv, StateTyped
<1>2. plan[t] \in Heading
  BY <1>1
<1> DEFINE h == [plan[t] EXCEPT !.assignee = owner]
<1>3. h \in Heading /\ h.state = plan[t].state /\ h.assignee = owner
  BY <1>2, HeadingChanges DEF Heading
<1>4. plan'[t] \in Heading /\ plan'[t].state = plan[t].state /\ plan'[t].assignee = owner
  <2>1. CASE plan' = [plan EXCEPT ![t].assignee = owner]
    <3>1. plan'[t] = h
      BY <1>1, <2>1
    <3> QED
      BY <1>3, <3>1
  <2>2. CASE plan' = [plan EXCEPT ![t].assignee = owner, ![t].link = link]
    <3>1. plan'[t] = [h EXCEPT !.link = link]
      BY <1>1, <2>2
    <3> HIDE DEF h
    <3>2. [h EXCEPT !.link = link] = [state |-> h.state, assignee |-> h.assignee, link |-> link]
      BY <1>3 DEF Heading
    <3>3. h.state \in State /\ h.assignee \in Proc \cup {None}
      BY <1>3 DEF Heading
    <3> QED
      BY <1>3, <3>1, <3>2, <3>3 DEF Heading
  <2> QED
    BY <2>1, <2>2
<1>5. \A u \in Ticket : u # t => plan'[u] = plan[u]
  BY <1>1
<1>6. plan' \in [Ticket -> Heading] /\ \A u \in Ticket : plan'[u].state = plan[u].state
  <2>1. plan' = [u \in Ticket |-> plan'[u]]
    BY <1>1
  <2> QED
    BY <1>1, <1>4, <1>5, <2>1
<1>7. TerminalSubtree'
  BY <1>1, <1>6 DEF TerminalSubtree, Descendants
<1> QED
  BY <1>4, <1>5, <1>6, <1>7

LEMMA FinishTakeDropKeep ==
    ASSUME PlanInv, NEW p \in Proc, Finish(p) \/ Take(p) \/ Drop(p)
    PROVE  PlanInv'
<1> DEFINE t == cmd[p].ticket
<1>1. /\ cmd[p] # None /\ cmd[p].pc # "lock" /\ Return(p)
      /\ UNCHANGED <<visits, ledger, charges>>
      /\ results' \subseteq results \cup {t}
  BY DEF Finish, Take, Drop, At
<1>2. CommandTyped(cmd[p]) /\ Holds(p) /\ StateTyped /\ TerminalSubtree
  BY <1>1 DEF PlanInv, Process
<1>3. t \in Ticket /\ holder[PlanFile[t]] = p
  BY <1>1, <1>2 DEF CommandTyped, Holds
<1>4. \/ plan' = plan
      \/ plan' = [plan EXCEPT ![t].assignee = None, ![t].link = TRUE]
      \/ plan' = [plan EXCEPT ![t].assignee = p]
      \/ plan' = [plan EXCEPT ![t].assignee = None]
  BY DEF Finish, Take, Drop
<1>5. /\ plan' \in [Ticket -> Heading] /\ TerminalSubtree'
      /\ \A u \in Ticket : u # t => plan'[u] = plan[u]
  <2>1. CASE plan' = plan
    BY <1>2, <2>1, SamePlanWhole DEF StateTyped
  <2>2. CASE plan' # plan
    BY <1>3, <1>4, <2>2, OwnerChanges
  <2> QED
    BY <2>1, <2>2
<1>6. DataTyped'
  BY <1>1, <1>2, <1>3, <1>5 DEF DataTyped, StateTyped
<1> QED
  BY <1>1, <1>3, <1>5, <1>6, ReturnKeeps

-----------------------------------------------------------------------------
(* What a step means for the ledger and for the charges.                   *)

Step(p) == Begin(p) \/ Continue(p) \/ Crash(p)

Acting(p) == cmd[p] # None /\ cmd[p].pc \in Bound \ {"charge", "open"}

\* Nothing is said, and nothing will be said before there is another charge.
Idles(p) ==
    /\ UNCHANGED <<ledger, charges>>
    /\ cmd'[p] # None => cmd'[p].pc \in {"lock", "check", "charge", "take", "drop"}

Works(p) ==
    /\ Acting(p) /\ cmd[p].pc \notin {"restore", "finish"}
    /\ OnwardBy(p, cmd'[p].pc) /\ cmd'[p].mark = cmd[p].mark
    /\ cmd'[p].pc \in {"place", "enter", "assign", "commit", "record", "restore"}
    /\ UNCHANGED charges
    /\ \/ UNCHANGED ledger
       \/ /\ cmd[p].kind = "claim" /\ cmd'[p].pc = "restore"
          /\ ledger' = Extend(ledger, Fragment)

Says(p) ==
    /\ Acting(p) /\ cmd[p].pc \in {"commit", "record"} /\ UNCHANGED charges
    /\ ledger' = Extend(ledger, LineOf(cmd[p]))
    /\ holder[Ledger] \in {p, None}
    /\ \/ cmd'[p] = None
       \/ OnwardBy(p, "finish") /\ cmd[p].kind = "move"

Breaks(p) ==
    /\ cmd[p] # None /\ cmd'[p] = None /\ UNCHANGED charges
    /\ ledger' = Extend(ledger, Fragment) /\ holder[Ledger] \in {p, None}

TakesBack(p) ==
    /\ cmd[p] # None /\ cmd[p].pc = "restore" /\ cmd[p].kind = "claim"
    /\ ledger' = SubSeq(ledger, 1, cmd[p].mark) /\ UNCHANGED charges
    /\ cmd'[p] # None => cmd'[p].pc = "lock"

Opens(p) ==
    /\ cmd[p] # None /\ cmd[p].pc = "open" /\ cmd'[p].mark = Len(ledger)
    /\ OnwardBy(p, "write") /\ UNCHANGED <<ledger, charges>>

Charges(p) ==
    /\ cmd[p] # None /\ cmd[p].pc = "charge" /\ cmd'[p].mark = cmd[p].mark
    /\ UNCHANGED ledger /\ charges' = [charges EXCEPT ![cmd[p].ticket] = @ + 1]
    /\ \/ OnwardBy(p, "open")
       \/ OnwardBy(p, "write") /\ cmd[p].kind = "move"

LEMMA OthersStay ==
    ASSUME DOMAIN cmd = Proc, NEW p \in Proc, Step(p)
    PROVE  DOMAIN cmd' = Proc /\ \A q \in Proc \ {p} : cmd'[q] = cmd[q]
<1>1. CASE Begin(p)
  BY <1>1 DEF Begin, StartClaim, StartTake, StartMove, StartRelease, Start
<1>2. CASE Return(p)
  BY <1>2 DEF Return
<1>3. CASE \E pc : Goto(p, pc)
  BY <1>3 DEF Goto
<1>4. CASE Acquire(p) \/ Route(p) \/ OpenLedger(p) \/ EnterFails(p) \/ Restore(p)
  <2>1. Restore(p) => Return(p) \/ \E c : cmd' = [cmd EXCEPT ![p] = c]
    BY DEF Restore
  <2> QED
    BY <1>2, <1>4, <2>1 DEF Acquire, Route, OpenLedger, EnterFails
<1> QED
  BY <1>1, <1>2, <1>3, <1>4
     DEF Step, Continue, Take, Drop, Refuse, RefuseCharge, Charge, OpenFails, WriteManifest,
         WriteTask, WriteFails, EnterAccepts, EnterBreaks, Assign, Commit, ClaimFails, Record,
         RecordFails, Finish, Crash

LEMMA CommitsSay ==
    ASSUME PlanInv, NEW p \in Proc, Commit(p) \/ Record(p)
    PROVE  Says(p)
<1>1. DOMAIN cmd = Proc /\ Process(p) /\ p # None
  BY NoneAssumption DEF PlanInv, StateTyped
<1>2. CASE Commit(p)
  <2>1. /\ cmd[p] # None /\ cmd[p].pc = "commit" /\ Return(p)
        /\ ledger' = Extend(ledger, LineOf(cmd[p])) /\ UNCHANGED charges
    BY <1>2 DEF Commit, At
  <2>2. holder[Ledger] = p
    BY <1>1, <2>1 DEF Process, Holds, CommandTyped, Bound, Pcs
  <2> QED
    BY <1>1, <2>1, <2>2 DEF Says, Acting, Bound, Pcs, Return
<1>3. CASE Record(p)
  <2>1. /\ cmd[p] # None /\ cmd[p].pc = "record" /\ (Return(p) \/ Goto(p, "finish"))
        /\ ledger' = Extend(ledger, LineOf(cmd[p])) /\ UNCHANGED charges /\ holder[Ledger] = None
    BY <1>3 DEF Record, At
  <2>2. cmd[p].kind = "move"
    BY <1>1, <2>1 DEF Process, CommandTyped
  <2>3. Goto(p, "finish") => OnwardBy(p, "finish")
    BY <2>1, GotoIsOnward
  <2>4. Return(p) => cmd'[p] = None
    BY <1>1 DEF Return
  <2> QED
    BY <2>1, <2>2, <2>3, <2>4 DEF Says, Acting, Bound, Pcs
<1> QED
  BY <1>2, <1>3

LEMMA EveryStep ==
    ASSUME PlanInv, NEW p \in Proc, Step(p)
    PROVE  Idles(p) \/ Works(p) \/ Says(p) \/ Breaks(p) \/ TakesBack(p) \/ Opens(p) \/ Charges(p)
<1>1. DOMAIN cmd = Proc /\ Process(p) /\ p # None
  BY NoneAssumption DEF PlanInv, StateTyped
<1>2. CASE Begin(p)
  <2>1. PICK kind, t, to, message : Start(p, Command(kind, t, to, message))
    BY <1>2, Zenon DEF Begin, StartClaim, StartTake, StartMove, StartRelease
  <2>2. cmd'[p].pc = "lock" /\ UNCHANGED <<ledger, charges>>
    BY <1>1, <2>1 DEF Command, Start, files
  <2> QED
    BY <2>1, <2>2 DEF Idles
<1>3. CASE Acquire(p)
  <2>1. cmd'[p].pc \in {"lock", FirstStep(cmd[p].kind)} /\ cmd[p].kind \in Kinds
    BY <1>3, AcquireIs DEF CommandTyped
  <2> QED
    BY <1>3, <2>1 DEF Idles, Acquire, files, FirstStep, Kinds
<1>4. CASE Route(p)
  <2>1. PICK to : cmd' = [cmd EXCEPT ![p].to = to, ![p].pc = "charge"] /\ cmd[p] # None
    BY <1>4 DEF Route, At
  <2>2. cmd'[p].pc = "charge"
    BY <1>1, <2>1 DEF Process, CommandTyped, Fields
  <2> QED
    BY <1>4, <2>2 DEF Idles, Route, files
<1>5. CASE \/ Take(p) \/ Drop(p) \/ Refuse(p) \/ RefuseCharge(p) \/ OpenFails(p) \/ WriteFails(p)
           \/ EnterBreaks(p) \/ Finish(p)
  <2>1. Return(p) /\ UNCHANGED <<ledger, charges>>
    BY <1>5 DEF Take, Drop, Refuse, RefuseCharge, OpenFails, WriteFails, EnterBreaks, Finish, files
  <2> QED
    BY <1>1, <2>1 DEF Idles, Return
<1>6. CASE Charge(p)
  <2>1. /\ cmd[p] # None /\ cmd[p].pc = "charge"
        /\ Goto(p, IF cmd[p].kind = "claim" THEN "open" ELSE "write")
        /\ UNCHANGED ledger /\ charges' = [charges EXCEPT ![cmd[p].ticket] = @ + 1]
    BY <1>6 DEF Charge, At
  <2>2. OnwardBy(p, IF cmd[p].kind = "claim" THEN "open" ELSE "write")
    BY <2>1, GotoIsOnward
  <2>3. cmd'[p].mark = cmd[p].mark
    BY <1>1, <2>1, GotoIs DEF Process
  <2>4. cmd[p].kind \in {"claim", "move"}
    BY <1>1, <2>1 DEF Process, CommandTyped, Bound, Pcs
  <2> QED
    BY <2>1, <2>2, <2>3, <2>4 DEF Charges
<1>7. CASE OpenLedger(p)
  BY <1>7, OpenLedgerIs DEF Opens, OpenLedger, files
<1>8. CASE WriteManifest(p) \/ WriteTask(p) \/ EnterAccepts(p) \/ Assign(p)
  <2>1. PICK pc : Goto(p, pc) /\ pc \in {"place", "enter", "assign", "commit", "record"}
    BY <1>8 DEF WriteManifest, WriteTask, EnterAccepts, Assign, Written, Entered
  <2>2. /\ cmd[p] # None /\ cmd[p].pc \in {"write", "place", "enter", "assign"}
        /\ UNCHANGED <<ledger, charges>>
    BY <1>8 DEF WriteManifest, WriteTask, EnterAccepts, Assign, At, files
  <2>3. OnwardBy(p, pc)
    BY <2>1, <2>2, GotoIsOnward
  <2>4. cmd'[p].mark = cmd[p].mark /\ cmd'[p].pc = pc
    BY <1>1, <2>1, <2>2, GotoIs DEF Process
  <2> QED
    BY <2>1, <2>2, <2>3, <2>4 DEF Works, Acting, Bound, Pcs
<1>9. CASE EnterFails(p)
  <2>1. /\ OnwardBy(p, "restore") /\ cmd'[p].mark = cmd[p].mark
        /\ cmd[p].pc = "enter" /\ cmd[p] # None /\ UNCHANGED <<ledger, charges>>
    BY <1>9, EnterFailsIs DEF EnterFails, files
  <2>2. cmd'[p].pc = "restore"
    BY <2>1 DEF OnwardBy
  <2> QED
    BY <2>1, <2>2 DEF Works, Acting, Bound, Pcs
<1>10. CASE ClaimFails(p)
  <2>1. /\ Goto(p, "restore") /\ cmd[p] # None /\ cmd[p].kind = "claim"
        /\ cmd[p].pc \in {"write", "place", "assign", "commit"} /\ UNCHANGED charges
        /\ ledger' \in {ledger, Extend(ledger, Fragment)}
    BY <1>10 DEF ClaimFails
  <2>2. OnwardBy(p, "restore")
    BY <2>1, GotoIsOnward
  <2>3. cmd'[p].mark = cmd[p].mark /\ cmd'[p].pc = "restore"
    BY <1>1, <2>1, GotoIs DEF Process
  <2> QED
    BY <2>1, <2>2, <2>3 DEF Works, Acting, Bound, Pcs
<1>11. CASE Commit(p) \/ Record(p)
  BY <1>11, CommitsSay
<1>12. CASE RecordFails(p) \/ Crash(p)
  <2>1. /\ cmd[p] # None /\ Return(p) /\ UNCHANGED charges
        /\ \/ ledger' = ledger
           \/ /\ ledger' = Extend(ledger, Fragment)
              /\ holder[Ledger] = None \/ At(p, "commit")
    BY <1>12 DEF RecordFails, Crash, At
  <2>2. At(p, "commit") => holder[Ledger] = p
    BY <1>1 DEF At, Process, Holds, CommandTyped, Bound, Pcs
  <2>3. cmd'[p] = None
    BY <1>1, <2>1 DEF Return
  <2> QED
    BY <2>1, <2>2, <2>3 DEF Idles, Breaks
<1>13. CASE Restore(p)
  <2>1. /\ cmd[p] # None /\ cmd[p].pc = "restore" /\ UNCHANGED charges
        /\ \/ ledger' = ledger
           \/ cmd[p].kind = "claim" /\ ledger' = SubSeq(ledger, 1, cmd[p].mark)
        /\ \/ Return(p)
           \/ cmd' = [cmd EXCEPT ![p] = [cmd[p] EXCEPT !.kind = "move", !.to = Recovery,
                        !.pc = "lock", !.want = Locks("move", cmd[p].ticket), !.before = None,
                        !.mark = 0, !.retry = FALSE]]
    BY <1>13 DEF Restore, RestoreFiles, At
  <2>2. cmd'[p] = None \/ cmd'[p].pc = "lock"
    BY <1>1, <2>1 DEF Return, Process, CommandTyped, Fields
  <2> QED
    BY <2>1, <2>2 DEF Idles, TakesBack
<1> QED
  BY <1>2, <1>3, <1>4, <1>5, <1>6, <1>7, <1>8, <1>9, <1>10, <1>11, <1>12, <1>13
     DEF Step, Continue

\* Every line stays where it is when another one is put behind it.
LEMMA ExtendKeepsLines ==
    ASSUME NEW lines \in Seq(Line \cup {Fragment, Garbled}), NEW entry \in Line \cup {Fragment}
    PROVE  \A n \in DOMAIN lines : lines[n] \in Line =>
             n \in DOMAIN Extend(lines, entry) /\ Extend(lines, entry)[n] = lines[n]
<1> DEFINE e == Extend(lines, entry)
<1>1. /\ Len(lines) \in Nat /\ DOMAIN lines = 1..Len(lines)
      /\ Len(e) \in Nat /\ DOMAIN e = 1..Len(e)
  BY ExtendIs
<1>2. \/ /\ Len(e) = Len(lines) + 1
         /\ \A n \in 1..Len(lines) : e[n] = lines[n]
      \/ /\ Len(e) = Len(lines) /\ lines[Len(lines)] \notin Line
         /\ \A n \in 1..(Len(lines) - 1) : e[n] = lines[n]
  BY ExtendIs
<1> DEFINE k == Len(lines)
           m == Len(e)
<1> HIDE DEF e, k, m
<1>3. ASSUME NEW n \in DOMAIN lines, lines[n] \in Line
      PROVE  n \in DOMAIN e /\ e[n] = lines[n]
  <2>1. k \in Nat /\ m \in Nat /\ n \in 1..k /\ DOMAIN e = 1..m
    BY <1>1 DEF k, m
  <2>2. CASE m = k + 1 /\ \A i \in 1..k : e[i] = lines[i]
    BY <2>1, <2>2
  <2>3. CASE m = k /\ lines[k] \notin Line /\ \A i \in 1..(k - 1) : e[i] = lines[i]
    <3>1. n # k
      BY <1>3, <2>3
    <3>2. n \in 1..(k - 1) /\ n \in 1..m
      BY <2>1, <2>3, <3>1
    <3> QED
      BY <2>1, <2>3, <3>2
  <2> QED
    BY <1>2, <2>2, <2>3 DEF k, m
<1> QED
  BY <1>3 DEF e

LEMMA NoLineAfter ==
    ASSUME NEW lines \in Seq(Line \cup {Fragment, Garbled}), NEW mark \in Nat,
           mark <= Len(lines), \A n \in DOMAIN lines : n > mark => lines[n] \notin Line
    PROVE  LET e == Extend(lines, Fragment)
           IN  mark <= Len(e) /\ \A n \in DOMAIN e : n > mark => e[n] \notin Line
<1> DEFINE e == Extend(lines, Fragment)
<1>1. /\ Len(lines) \in Nat /\ DOMAIN lines = 1..Len(lines)
      /\ Len(e) \in Nat /\ DOMAIN e = 1..Len(e) /\ Fragment \notin Line
  BY ExtendIs, PlanAssumption DEF Line
<1>2. \/ /\ Len(e) = Len(lines) + 1 /\ e[Len(lines) + 1] = Fragment
         /\ \A n \in 1..Len(lines) : e[n] = lines[n]
      \/ /\ Len(e) = Len(lines) /\ e[Len(lines)] \notin Line
         /\ \A n \in 1..(Len(lines) - 1) : e[n] = lines[n]
  BY ExtendIs
<1> DEFINE k == Len(lines)
           m == Len(e)
<1> HIDE DEF e, k, m
<1>3. k \in Nat /\ m \in Nat /\ DOMAIN lines = 1..k /\ DOMAIN e = 1..m /\ mark <= k
  BY <1>1 DEF k, m
<1>4. CASE m = k + 1 /\ e[k + 1] = Fragment /\ \A i \in 1..k : e[i] = lines[i]
  <2>1. ASSUME NEW n \in 1..m, n > mark
        PROVE  e[n] \notin Line
    <3>1. CASE n \in 1..k
      BY <1>3, <1>4, <2>1, <3>1
    <3>2. CASE n \notin 1..k
      <4>1. n = k + 1
        BY <1>3, <1>4, <3>2
      <4> QED
        BY <1>1, <1>4, <4>1
    <3> QED
      BY <3>1, <3>2
  <2>2. mark <= m
    BY <1>3, <1>4
  <2> QED
    BY <1>3, <2>1, <2>2 DEF e, m
<1>5. CASE m = k /\ e[k] \notin Line /\ \A i \in 1..(k - 1) : e[i] = lines[i]
  <2>1. ASSUME NEW n \in 1..m, n > mark
        PROVE  e[n] \notin Line
    <3>1. CASE n = k
      BY <1>5, <3>1
    <3>2. CASE n # k
      <4>1. n \in 1..(k - 1) /\ n \in 1..k
        BY <1>3, <1>5, <3>2
      <4> QED
        BY <1>3, <1>5, <2>1, <4>1
    <3> QED
      BY <3>1, <3>2
  <2> QED
    BY <1>3, <1>5, <2>1 DEF e, m
<1> QED
  BY <1>2, <1>4, <1>5 DEF k, m

LEMMA MarkKept ==
    ASSUME PlanInv, MarkInv, NEW p \in Proc, Step(p)
    PROVE  MarkInv'
<1> DEFINE Held == Bound \ {"charge", "open"}
<1> SUFFICES ASSUME NEW q \in Proc, cmd'[q] # None, cmd'[q].kind = "claim", cmd'[q].pc \in Held
             PROVE  /\ cmd'[q].mark <= Len(ledger')
                    /\ \A n \in DOMAIN ledger' : n > cmd'[q].mark => ledger'[n] \notin Line
  BY DEF MarkInv
<1>1. DOMAIN cmd = Proc /\ ledger \in Seq(Line \cup {Fragment, Garbled}) /\ q # None
  BY NoneAssumption DEF PlanInv, StateTyped
<1>2. \A r \in Proc : cmd[r] # None /\ cmd[r].kind = "claim" /\ cmd[r].pc \in Held =>
        holder[Ledger] = r
  BY DEF PlanInv, Process, Holds
<1>3. Idles(p) \/ Works(p) \/ Says(p) \/ Breaks(p) \/ TakesBack(p) \/ Opens(p) \/ Charges(p)
  BY EveryStep
<1>4. CASE q # p
  <2>1. cmd'[q] = cmd[q]
    BY <1>1, <1>4, OthersStay
  <2>2. holder[Ledger] = q
    BY <1>2, <2>1
  <2>3. ~Says(p) /\ ~Breaks(p)
    BY <1>1, <1>4, <2>2 DEF Says, Breaks
  <2>4. ~TakesBack(p)
    BY <1>2, <1>4, <2>2 DEF TakesBack, Bound, Pcs
  <2>5. Works(p) => ledger' = ledger
    BY <1>2, <1>4, <2>2 DEF Works, Acting
  <2>6. ledger' = ledger
    BY <1>3, <2>3, <2>4, <2>5 DEF Idles, Opens, Charges
  <2> QED
    BY <2>1, <2>6 DEF MarkInv
<1>5. CASE q = p
  <2>1. ~Idles(p) /\ ~Breaks(p) /\ ~TakesBack(p)
    BY <1>5 DEF Idles, Breaks, TakesBack, Bound, Pcs
  <2>2. ~Says(p) /\ ~Charges(p)
    BY <1>5 DEF Says, Charges, OnwardBy, SameMind
  <2>3. CASE Opens(p)
    BY <1>1, <1>5, <2>3 DEF Opens
  <2>4. CASE Works(p)
    <3>1. /\ cmd'[p].mark = cmd[p].mark /\ cmd[p] # None /\ cmd[p].kind = "claim"
          /\ cmd[p].pc \in Held
      BY <1>5, <2>4 DEF Works, Acting, OnwardBy, SameMind
    <3>2. /\ cmd[p].mark <= Len(ledger) /\ cmd[p].mark \in Nat
          /\ \A n \in DOMAIN ledger : n > cmd[p].mark => ledger[n] \notin Line
      BY <3>1 DEF MarkInv, PlanInv, Process, CommandTyped
    <3> QED
      BY <1>1, <1>5, <2>4, <3>1, <3>2, NoLineAfter DEF Works
  <2> QED
    BY <1>3, <2>1, <2>2, <2>3, <2>4
<1> QED
  BY <1>4, <1>5

LEMMA PlanKept ==
    ASSUME PlanInv, MarkInv, NEW p \in Proc, Step(p)
    PROVE  PlanInv'
BY BeginKeeps, AcquireKeeps, FinishTakeDropKeep, ReturnsKeep, RouteKeeps, ChargeKeeps,
   OpenLedgerKeeps, WriteManifestKeeps, WriteTaskKeeps, EnterAcceptsKeeps, EnterFailsKeeps,
   AssignKeeps, ClaimFailsKeeps, RestoreKeeps, RecordKeeps DEF Step, Continue

LEMMA InitIsWhole ==
    ASSUME Init
    PROVE  PlanInv /\ MarkInv
<1>1. Initial \in State /\ ~Ends(Initial)
  BY MachineAssumption DEF Ends
<1>2. /\ plan = [t \in Ticket |-> [state |-> Initial, assignee |-> None, link |-> FALSE]]
      /\ visits = [t \in Ticket |-> [s \in State |-> 0]]
      /\ results = {} /\ ledger = <<>> /\ charges = [t \in Ticket |-> 0]
      /\ holder = [l \in Lock |-> None] /\ cmd = [p \in Proc |-> None] /\ left = MaxCommands
  BY DEF Init
<1>3. StateTyped
  <2>1. plan \in [Ticket -> Heading] /\ visits \in [Ticket -> Counts]
    BY <1>1, <1>2 DEF Heading, Counts
  <2>2. charges \in [Ticket -> 0..TravelLimit] /\ left \in 0..MaxCommands
    BY <1>2, BoundsAssumption
  <2>3. ledger \in Seq(Line \cup {Fragment, Garbled})
    BY <1>2
  <2> QED
    BY <1>2, <2>1, <2>2, <2>3 DEF StateTyped
<1>4. TerminalSubtree
  BY <1>1, <1>2 DEF TerminalSubtree
<1> QED
  BY <1>2, <1>3, <1>4 DEF PlanInv, MarkInv, Process

LEMMA RestKeeps ==
    ASSUME PlanInv, MarkInv, UNCHANGED vars
    PROVE  PlanInv' /\ MarkInv'
<1>1. UNCHANGED <<plan, visits, results, ledger, charges, holder, cmd, left>>
  BY DEF vars, files
<1>2. StateTyped' /\ TerminalSubtree'
  BY <1>1, SamePlanWhole DEF PlanInv, StateTyped
<1>3. MarkInv'
  BY <1>1 DEF MarkInv
<1>4. ASSUME NEW q \in Proc
      PROVE  Process(q)'
  <2>1. Process(q)
    BY DEF PlanInv
  <2> QED
    BY <1>1, <2>1 DEF Process, Holds, FilesStand, HeadingsAre, CountsAre, AssignedHeadings
<1> QED
  BY <1>2, <1>3, <1>4 DEF PlanInv

-----------------------------------------------------------------------------
(* What follows with no further assumption.                                *)

\* A command past its first step stands to the files as it has read and     
\* written them, it holds their locks, and no line is behind a claim's mark.
THEOREM PlanInvariant == TransitionSpec => [](PlanInv /\ MarkInv)
<1>1. Init => PlanInv /\ MarkInv
  BY InitIsWhole
<1>2. PlanInv /\ MarkInv /\ [Next]_vars => (PlanInv /\ MarkInv)'
  <2> SUFFICES ASSUME PlanInv, MarkInv, [Next]_vars
               PROVE  PlanInv' /\ MarkInv'
    BY DEF MarkInv
  <2>1. CASE UNCHANGED vars
    BY <2>1, RestKeeps
  <2>2. CASE \E p \in Proc : Step(p)
    BY <2>2, PlanKept, MarkKept
  <2> QED
    BY <2>1, <2>2 DEF Next, Rest, Step
<1> QED
  BY <1>1, <1>2, PTL DEF TransitionSpec

LEMMA TypesFollow == PlanInv => PlanTypeOK
<1> SUFFICES ASSUME PlanInv PROVE PlanTypeOK
  OBVIOUS
<1>1. StateTyped
  BY DEF PlanInv
<1>2. ASSUME NEW p \in Proc, cmd[p] # None
      PROVE  /\ cmd[p].kind \in Kinds /\ cmd[p].ticket \in Ticket
             /\ {cmd[p].from, cmd[p].to} \subseteq State
             /\ cmd[p].want = <<>> =>
                  \A l \in Range(Locks(cmd[p].kind, cmd[p].ticket)) : holder[l] = p
  <2> DEFINE c == cmd[p]
  <2>1. CommandTyped(c) /\ Holds(p)
    BY <1>2 DEF PlanInv, Process
  <2>2. c.kind \in Kinds /\ c.ticket \in Ticket /\ {c.from, c.to} \subseteq State
    BY <2>1 DEF CommandTyped
  <2>3. Locks(c.kind, c.ticket) # <<>> /\ <<PlanFile[c.ticket]>> # <<>>
    BY <2>2, TheseLocks
  <2>4. c.want = <<>> =>
          /\ holder[PlanFile[c.ticket]] = p
          /\ c.kind # "release" => holder[Manifest[c.ticket]] = p
    BY <2>1, <2>3 DEF Holds
  <2>5. Range(Locks(c.kind, c.ticket)) =
          IF c.kind = "release" THEN {PlanFile[c.ticket]}
                                ELSE {PlanFile[c.ticket], Manifest[c.ticket]}
    BY <2>2, TheseLocks
  <2> QED
    BY <2>2, <2>4, <2>5
<1> QED
  BY <1>1, <1>2 DEF StateTyped, PlanTypeOK, Counts

\* The types of the files and of the commands, and what a lock is for: a command
\* past its first step holds the lock of every file it may write, so that no
\* two commands are ever in the same file.
THEOREM CommandsHoldTheirLocks == TransitionSpec => []PlanTypeOK
BY PlanInvariant, TypesFollow, PTL

\* Whichever edge a callback sends a ticket on, and whatever is taken back after
\* it: a ticket that ended has nothing unfinished under it.
THEOREM EndedTicketsAreWhole == TransitionSpec => []TerminalSubtree
<1>1. PlanInv => TerminalSubtree
  BY DEF PlanInv
<1> QED
  BY <1>1, PlanInvariant, PTL

\* What a command writes into the ticket it moves never has another owner.
LEMMA OwnerStays ==
    ASSUME PlanInv, NEW p \in Proc, Step(p), NEW t \in Ticket,
           plan[t].assignee # None, plan'[t].assignee # None
    PROVE  plan'[t].assignee = plan[t].assignee
<1> DEFINE c == cmd[p]
<1>1. Process(p) /\ StateTyped
  BY DEF PlanInv
<1>2. CASE UNCHANGED plan
  BY <1>2
<1>3. CASE Take(p) \/ Drop(p) \/ Finish(p)
  <2>1. c # None /\ c.ticket \in Ticket
    BY <1>1, <1>3 DEF Take, Drop, Finish, At, Process, CommandTyped
  <2>2. t = c.ticket => plan' = plan \/ plan'[t].assignee = None
    <3>1. t = c.ticket /\ Take(p) => plan' = plan
      BY DEF Take, Claimable
    <3>2. ASSUME t = c.ticket, Drop(p) \/ Finish(p)
          PROVE  plan' = plan \/ plan'[t].assignee = None
      <4>1. \/ plan' = plan
            \/ plan' = [plan EXCEPT ![t].assignee = None]
            \/ plan' = [plan EXCEPT ![t].assignee = None, ![t].link = TRUE]
        BY <3>2 DEF Drop, Finish
      <4> QED
        BY <4>1, OwnerChanges
    <3> QED
      BY <1>3, <3>1, <3>2
  <2>3. t # c.ticket => plan'[t] = plan[t]
    BY <1>1, <1>3 DEF Take, Drop, Finish, StateTyped
  <2> QED
    BY <2>2, <2>3
<1>4. CASE WriteManifest(p) \/ WriteTask(p) \/ Assign(p) \/ Restore(p)
  <2>1. /\ c # None /\ c.pc \in {"write", "place", "assign", "restore"}
        /\ c.pc # "lock" /\ c.pc \in Bound
    BY <1>4 DEF WriteManifest, WriteTask, Assign, Restore, At, Bound, Pcs
  <2>2. /\ CommandTyped(c) /\ FilesStand(p) /\ Admitted(c)
    BY <1>1, <2>1 DEF Process
  <2>3. \/ plan' = plan
        \/ plan' = Overlay(plan, c.before.headings)
        \/ plan' = Overlay(plan, MovedHeadings(c))
        \/ plan' = Overlay(plan, AssignedHeadings(p)) /\ c.pc = "assign"
    BY <1>4 DEF WriteManifest, WriteTask, Assign, Restore, RestoreFiles, AssignedHeadings, At
  <2>4. /\ c.before.headings \in [InFile(c.ticket) -> Heading]
        /\ MovedHeadings(c) \in [InFile(c.ticket) -> Heading]
        /\ AssignedHeadings(p) \in [InFile(c.ticket) -> Heading]
    BY <2>1, <2>2, MovedIs, AssignedIs DEF CommandTyped, ContentsOf
  <2>5. CASE t \notin InFile(c.ticket)
    BY <1>1, <2>3, <2>4, <2>5 DEF Overlay, StateTyped
  <2>6. CASE t \in InFile(c.ticket)
    <3> DEFINE was == c.before.headings[t].assignee
    <3>1. /\ MovedHeadings(c)[t].assignee = was
          /\ AssignedHeadings(p)[t].assignee = IF t = c.ticket THEN p ELSE was
      BY <2>1, <2>2, <2>6, MovedIs, AssignedIs
    <3>2. plan[t].assignee \in {was, AssignedHeadings(p)[t].assignee}
      BY <2>1, <2>2, <2>6, <3>1 DEF FilesStand, HeadingsAre
    <3>3. c.pc = "assign" \/ plan[t].assignee # was => c.kind = "claim"
      BY <2>1, <2>2, <2>6, <3>1 DEF FilesStand, HeadingsAre, CommandTyped
    <3>4. c.kind = "claim" /\ t = c.ticket => was = None
      BY <2>1, <2>2 DEF Admitted
    <3>5. \/ plan'[t].assignee \in {plan[t].assignee, was}
          \/ c.pc = "assign" /\ plan'[t].assignee = AssignedHeadings(p)[t].assignee
      <4>1. \A part \in [InFile(c.ticket) -> Heading] : Overlay(plan, part)[t] = part[t]
        BY <1>1, <2>6 DEF Overlay, StateTyped
      <4>2. \/ plan' = plan
            \/ plan'[t] = c.before.headings[t]
            \/ plan'[t] = MovedHeadings(c)[t]
            \/ plan'[t] = AssignedHeadings(p)[t] /\ c.pc = "assign"
        BY <2>3, <2>4, <4>1
      <4> QED
        BY <3>1, <4>2
    <3>6. c.pc = "assign" => plan[t].assignee = was
      BY <2>2, <2>6, <3>1 DEF FilesStand, HeadingsAre
    <3> QED
      BY <3>1, <3>2, <3>3, <3>4, <3>5, <3>6
  <2> QED
    BY <2>5, <2>6
<1>5. UNCHANGED plan \/ Take(p) \/ Drop(p) \/ Finish(p)
      \/ WriteManifest(p) \/ WriteTask(p) \/ Assign(p) \/ Restore(p)
  BY DEF Step, Begin, StartClaim, StartTake, StartMove, StartRelease, Start, Continue, Acquire,
         Refuse, Route, RefuseCharge, Charge, OpenLedger, OpenFails, WriteFails, EnterAccepts,
         EnterFails, EnterBreaks, Commit, ClaimFails, Record, RecordFails, Crash, files
<1> QED
  BY <1>2, <1>3, <1>4, <1>5

\* A ticket does not pass from one worker to another without being let go.
THEOREM ClaimsAreNotStolen == TransitionSpec => NoClaimStolen
<1>1. PlanInv /\ [Next]_vars =>
        [\A t \in Ticket : plan[t].assignee # None /\ plan'[t].assignee # None
           => plan'[t].assignee = plan[t].assignee]_vars
  <2> SUFFICES ASSUME PlanInv, Next, NEW t \in Ticket,
                      plan[t].assignee # None, plan'[t].assignee # None
               PROVE  plan'[t].assignee = plan[t].assignee
    BY DEF vars
  <2>1. CASE UNCHANGED vars
    BY <2>1 DEF vars, files
  <2>2. CASE \E p \in Proc : Step(p)
    BY <2>2, OwnerStays
  <2> QED
    BY <2>1, <2>2 DEF Next, Rest, Step
<1> QED
  BY <1>1, PlanInvariant, PTL DEF TransitionSpec, NoClaimStolen

LEMMA LinesStay ==
    ASSUME PlanInv, MarkInv, NEW p \in Proc, Step(p), NEW n \in DOMAIN ledger, ledger[n] \in Line
    PROVE  n \in DOMAIN ledger' /\ ledger'[n] = ledger[n]
<1>1. ledger \in Seq(Line \cup {Fragment, Garbled}) /\ Process(p)
  BY DEF PlanInv, StateTyped
<1>2. Idles(p) \/ Works(p) \/ Says(p) \/ Breaks(p) \/ TakesBack(p) \/ Opens(p) \/ Charges(p)
  BY EveryStep
<1>3. CASE ledger' = ledger
  BY <1>3
<1>4. CASE Says(p)
  <2>1. LineOf(cmd[p]) \in Line
    BY <1>1, <1>4, ItsLine DEF Process, Says, Acting
  <2> QED
    BY <1>1, <1>4, <2>1, ExtendKeepsLines DEF Says
<1>5. CASE ledger' = Extend(ledger, Fragment)
  BY <1>1, <1>5, ExtendKeepsLines
<1>6. CASE TakesBack(p)
  <2> DEFINE mark == cmd[p].mark
  <2>1. /\ mark <= Len(ledger) /\ mark \in Nat
        /\ \A i \in DOMAIN ledger : i > mark => ledger[i] \notin Line
        /\ ledger' = SubSeq(ledger, 1, mark)
    BY <1>1, <1>6 DEF TakesBack, MarkInv, Process, CommandTyped, Bound, Pcs
  <2> HIDE DEF mark
  <2>2. /\ ledger' \in Seq(Line \cup {Fragment, Garbled}) /\ Len(ledger') = mark
        /\ \A i \in 1..mark : ledger'[i] = ledger[i]
    BY <1>1, <2>1, CutIs
  <2>3. DOMAIN ledger' = 1..mark /\ n \in Nat /\ n >= 1 /\ ~(n > mark)
    BY <1>1, <2>1, <2>2
  <2> QED
    BY <2>1, <2>2, <2>3
<1> QED
  BY <1>2, <1>3, <1>4, <1>5, <1>6 DEF Idles, Works, Breaks, Opens, Charges

\* A claim that takes back its own bytes never takes another's line.
THEOREM LinesAreForEver == TransitionSpec => HistoryIsKept
<1>1. PlanInv /\ MarkInv /\ [Next]_vars =>
        [\A n \in DOMAIN ledger :
           ledger[n] \in Line => n \in DOMAIN ledger' /\ ledger'[n] = ledger[n]]_vars
  <2> SUFFICES ASSUME PlanInv, MarkInv, Next, NEW n \in DOMAIN ledger, ledger[n] \in Line
               PROVE  n \in DOMAIN ledger' /\ ledger'[n] = ledger[n]
    BY DEF vars
  <2>1. CASE UNCHANGED vars
    BY <2>1 DEF vars, files
  <2>2. CASE \E p \in Proc : Step(p)
    BY <2>2, LinesStay
  <2> QED
    BY <2>1, <2>2 DEF Next, Rest, Step
<1> QED
  BY <1>1, PlanInvariant, PTL DEF TransitionSpec, HistoryIsKept

-----------------------------------------------------------------------------
(* No line without its charge.                                             *)

LEMMA LinesCounted ==
    ASSUME StateTyped, NEW t
    PROVE  IsFiniteSet(LinesOf(t)) /\ Cardinality(LinesOf(t)) \in Nat
           /\ Len(ledger) + 1 \notin LinesOf(t)
<1>1. Len(ledger) \in Nat /\ DOMAIN ledger = 1..Len(ledger)
  BY DEF StateTyped
<1>2. IsFiniteSet(1..Len(ledger))
  BY <1>1, FS_Interval
<1>3. LinesOf(t) \subseteq 1..Len(ledger)
  BY <1>1 DEF LinesOf
<1> QED
  BY <1>1, <1>2, <1>3, FS_Subset, FS_CardinalityType

\* What is written behind the ledger's last line, or taken off its end.
LEMMA LinesAfter ==
    ASSUME StateTyped, NEW t, NEW entry \in Line \cup {Fragment}, ledger' = Extend(ledger, entry)
    PROVE  /\ LinesOf(t)' \subseteq LinesOf(t) \cup {Len(ledger) + 1}
           /\ LinesOf(t) \subseteq LinesOf(t)'
           /\ ~(entry \in Line /\ entry.ticket = t) => LinesOf(t)' = LinesOf(t)
<1> DEFINE k == Len(ledger)
           m == Len(ledger')
<1>1. /\ ledger \in Seq(Line \cup {Fragment, Garbled})
      /\ ledger' \in Seq(Line \cup {Fragment, Garbled}) /\ Fragment \notin Line
  BY ExtendIs, PlanAssumption DEF StateTyped, Line
<1>2. k \in Nat /\ DOMAIN ledger = 1..k /\ m \in Nat /\ DOMAIN ledger' = 1..m
  BY <1>1
<1>3. \/ m = k + 1 /\ ledger'[k + 1] = entry /\ \A n \in 1..k : ledger'[n] = ledger[n]
      \/ /\ m = k /\ k > 0 /\ ledger[k] \notin Line /\ ledger'[k] \notin Line
         /\ \A n \in 1..(k - 1) : ledger'[n] = ledger[n]
  BY <1>1, ExtendIs
<1> HIDE DEF k, m
<1>4. /\ LinesOf(t) = {n \in 1..k : ledger[n] \in Line /\ ledger[n].ticket = t}
      /\ LinesOf(t)' = {n \in 1..m : ledger'[n] \in Line /\ ledger'[n].ticket = t}
  BY <1>2 DEF LinesOf
<1>5. CASE m = k + 1 /\ ledger'[k + 1] = entry /\ \A n \in 1..k : ledger'[n] = ledger[n]
  <2>1. 1..m = (1..k) \cup {k + 1}
    BY <1>2, <1>5
  <2> QED
    BY <1>1, <1>4, <1>5, <2>1 DEF k
<1>6. CASE /\ m = k /\ k > 0 /\ ledger[k] \notin Line /\ ledger'[k] \notin Line
           /\ \A n \in 1..(k - 1) : ledger'[n] = ledger[n]
  <2>1. \A n \in 1..k : n = k \/ n \in 1..(k - 1)
    BY <1>2
  <2>2. \A n \in 1..k : ledger[n] \in Line <=> ledger'[n] \in Line
    BY <1>6, <2>1
  <2>3. \A n \in 1..k : ledger[n] \in Line => ledger'[n] = ledger[n]
    BY <1>6, <2>1
  <2>4. LinesOf(t)' = LinesOf(t)
    BY <1>4, <1>6, <2>2, <2>3
  <2> QED
    BY <2>4
<1> QED
  BY <1>3, <1>5, <1>6

LEMMA LinesLeft ==
    ASSUME StateTyped, NEW m \in Nat, m <= Len(ledger), ledger' = SubSeq(ledger, 1, m), NEW t
    PROVE  LinesOf(t)' \subseteq LinesOf(t)
<1> DEFINE k == Len(ledger)
<1>1. /\ Len(ledger') = m /\ ledger' \in Seq(Line \cup {Fragment, Garbled})
      /\ \A n \in 1..m : ledger'[n] = ledger[n]
  BY CutIs DEF StateTyped
<1>2. DOMAIN ledger' = 1..m /\ DOMAIN ledger = 1..k /\ k \in Nat
  BY <1>1 DEF StateTyped
<1>3. m <= k
  OBVIOUS
<1> HIDE DEF k
<1>4. 1..m \subseteq 1..k
  BY <1>2, <1>3
<1> QED
  BY <1>1, <1>2, <1>4 DEF LinesOf

LEMMA CardOneMore ==
    ASSUME NEW S, NEW T, NEW x, IsFiniteSet(S), T \subseteq S \cup {x}
    PROVE  /\ IsFiniteSet(T) /\ Cardinality(T) \in Nat /\ Cardinality(S) \in Nat
           /\ Cardinality(T) <= Cardinality(S) + 1
           /\ T \subseteq S => Cardinality(T) <= Cardinality(S)
<1>1. /\ IsFiniteSet(S \cup {x}) /\ Cardinality(S) \in Nat
      /\ Cardinality(S \cup {x}) <= Cardinality(S) + 1 /\ Cardinality(S \cup {x}) \in Nat
  BY FS_AddElement, FS_CardinalityType
<1>2. /\ IsFiniteSet(T) /\ Cardinality(T) <= Cardinality(S \cup {x}) /\ Cardinality(T) \in Nat
  BY <1>1, FS_Subset, FS_CardinalityType
<1>3. T \subseteq S => Cardinality(T) <= Cardinality(S)
  BY FS_Subset
<1> QED
  BY <1>1, <1>2, <1>3

\* No two commands are past the check of an edge of one ticket.
LEMMA OneAtATicket ==
    ASSUME PlanInv, NEW p \in Proc, NEW q \in Proc, cmd[p] # None, cmd[q] # None,
           cmd[p].pc # "lock", cmd[q].pc # "lock", cmd[p].ticket = cmd[q].ticket
    PROVE  p = q
BY DEF PlanInv, Process, Holds

LEMMA PaidKept ==
    ASSUME PlanInv, MarkInv, PaidInv, NEW p \in Proc, Step(p)
    PROVE  PaidInv'
<1> SUFFICES ASSUME NEW t \in Ticket
             PROVE  Cardinality(LinesOf(t)') + (IF \E q \in Proc : Owing(q, t)' THEN 1 ELSE 0)
                      <= charges'[t]
  BY DEF PaidInv
<1> DEFINE L == Cardinality(LinesOf(t))
           M == Cardinality(LinesOf(t)')
           O == \E q \in Proc : Owing(q, t)
           Q == \E q \in Proc : Owing(q, t)'
<1>1. /\ StateTyped /\ IsFiniteSet(LinesOf(t)) /\ L \in Nat /\ DOMAIN cmd = Proc
      /\ charges[t] \in Nat /\ Process(p)
  BY LinesCounted DEF PlanInv, StateTyped
<1>2. L + (IF O THEN 1 ELSE 0) <= charges[t]
  BY DEF PaidInv
<1>3. \A q \in Proc \ {p} : cmd'[q] = cmd[q] /\ (Owing(q, t)' <=> Owing(q, t))
  BY <1>1, OthersStay DEF Owing
<1>4. Idles(p) \/ Works(p) \/ Says(p) \/ Breaks(p) \/ TakesBack(p) \/ Opens(p) \/ Charges(p)
  BY EveryStep
<1>5. /\ ledger' = ledger => M = L
      /\ ledger' = Extend(ledger, Fragment) => M = L
      /\ TakesBack(p) => M \in Nat /\ M <= L
  <2>1. ledger' = ledger => LinesOf(t)' = LinesOf(t)
    BY DEF LinesOf
  <2>2. ledger' = Extend(ledger, Fragment) => LinesOf(t)' = LinesOf(t)
    <3>1. Fragment \notin Line
      BY PlanAssumption DEF Line
    <3> QED
      BY <1>1, <3>1, LinesAfter
  <2>3. TakesBack(p) => LinesOf(t)' \subseteq LinesOf(t)
    <3> SUFFICES ASSUME TakesBack(p) PROVE LinesOf(t)' \subseteq LinesOf(t)
      OBVIOUS
    <3>1. cmd[p].mark \in Nat /\ cmd[p].mark <= Len(ledger)
      BY <1>1 DEF TakesBack, MarkInv, Process, CommandTyped, Bound, Pcs
    <3> QED
      BY <1>1, <3>1, LinesLeft DEF TakesBack
  <2> QED
    BY <1>1, <2>1, <2>2, <2>3, CardOneMore
<1>6. CASE Says(p)
  <2>1. /\ charges' = charges /\ ledger' = Extend(ledger, LineOf(cmd[p])) /\ ~Owing(p, t)'
        /\ cmd[p] # None /\ cmd[p].pc \in {"commit", "record"}
    BY <1>6 DEF Says, Acting, Owing, OnwardBy
  <2>2. LineOf(cmd[p]) \in Line /\ LineOf(cmd[p]).ticket = cmd[p].ticket
    BY <1>1, <2>1, ItsLine DEF Process, LineOf
  <2>3. CASE cmd[p].ticket = t
    <3>1. Owing(p, t)
      BY <2>1, <2>3 DEF Owing, Bound, Pcs
    <3>2. ASSUME NEW q \in Proc, Owing(q, t)'
          PROVE  FALSE
      <4>1. q # p /\ Owing(q, t)
        BY <1>3, <2>1, <3>2
      <4> QED
        BY <3>1, <4>1, OneAtATicket DEF Owing, Bound
    <3>3. M \in Nat /\ M <= L + 1
      BY <1>1, <2>1, <2>2, LinesAfter, CardOneMore
    <3> QED
      BY <1>1, <1>2, <2>1, <3>1, <3>2, <3>3
  <2>4. CASE cmd[p].ticket # t
    <3>1. LinesOf(t)' = LinesOf(t)
      BY <1>1, <2>1, <2>2, <2>4, LinesAfter
    <3>2. Q => O
      BY <1>3, <2>1
    <3> QED
      BY <1>1, <1>2, <2>1, <3>1, <3>2
  <2> QED
    BY <2>3, <2>4
<1>7. CASE Charges(p)
  <2>1. M = L
    BY <1>5, <1>7 DEF Charges
  <2>2. CASE cmd[p].ticket = t
    <3>1. charges'[t] = charges[t] + 1
      BY <1>1, <1>7, <2>2 DEF Charges, StateTyped
    <3> QED
      BY <1>1, <1>2, <2>1, <3>1
  <2>3. CASE cmd[p].ticket # t
    <3>1. charges'[t] = charges[t]
      BY <1>1, <1>7, <2>3 DEF Charges, StateTyped
    <3>2. ~Owing(p, t)'
      BY <1>7, <2>3 DEF Charges, Owing, OnwardBy, SameMind
    <3>3. Q => O
      BY <1>3, <3>2
    <3> QED
      BY <1>1, <1>2, <2>1, <3>1, <3>3
  <2> QED
    BY <2>2, <2>3
<1>8. CASE Idles(p) \/ Breaks(p) \/ TakesBack(p) \/ Works(p) \/ Opens(p)
  <2>1. Owing(p, t)' => Owing(p, t)
    <3>1. Idles(p) \/ Breaks(p) \/ TakesBack(p) => ~Owing(p, t)'
      BY DEF Idles, Breaks, TakesBack, Owing, Bound
    <3>2. Works(p) \/ Opens(p) => cmd[p] # None /\ cmd'[p].ticket = cmd[p].ticket
                                  /\ cmd[p].pc \in Bound \ {"charge", "restore", "finish"}
      BY DEF Works, Opens, Acting, Bound, Pcs, OnwardBy, SameMind
    <3> QED
      BY <1>8, <3>1, <3>2 DEF Owing
  <2>2. Q => O
    BY <1>3, <2>1
  <2>3. charges' = charges /\ M \in Nat /\ M <= L
    BY <1>1, <1>5, <1>8 DEF Idles, Breaks, TakesBack, Works, Opens
  <2> QED
    BY <1>1, <1>2, <2>2, <2>3
<1> QED
  BY <1>4, <1>6, <1>7, <1>8

\* However a command ends, it was charged for before its line could be written:
\* no ticket has more lines than applied edges its budget has paid for.
THEOREM LinesHaveTheirCharge == TransitionSpec => []LinesArePaid
<1>1. Init => PaidInv
  <2> SUFFICES ASSUME Init PROVE PaidInv
    OBVIOUS
  <2>1. \A t \in Ticket : LinesOf(t) = {} /\ charges[t] = 0 /\ ~\E p \in Proc : Owing(p, t)
    BY DEF Init, LinesOf, Owing
  <2> QED
    BY <2>1, FS_EmptySet DEF PaidInv
<1>2. PlanInv /\ MarkInv /\ PaidInv /\ [Next]_vars => PaidInv'
  <2> SUFFICES ASSUME PlanInv, MarkInv, PaidInv, [Next]_vars PROVE PaidInv'
    OBVIOUS
  <2>1. CASE UNCHANGED vars
    BY <2>1 DEF vars, files, PaidInv, Owing, LinesOf
  <2>2. CASE \E p \in Proc : Step(p)
    BY <2>2, PaidKept
  <2> QED
    BY <2>1, <2>2 DEF Next, Rest, Step
<1>3. PlanInv /\ PaidInv => LinesArePaid
  <2> SUFFICES ASSUME PlanInv, PaidInv, NEW t \in Ticket
               PROVE  Cardinality(LinesOf(t)) <= charges[t]
    BY DEF LinesArePaid
  <2>1. Cardinality(LinesOf(t)) \in Nat /\ charges[t] \in Nat
    BY LinesCounted DEF PlanInv, StateTyped
  <2>2. Cardinality(LinesOf(t)) + (IF \E p \in Proc : Owing(p, t) THEN 1 ELSE 0) <= charges[t]
    BY DEF PaidInv
  <2> QED
    BY <2>1, <2>2
<1> QED
  BY <1>1, <1>2, <1>3, PlanInvariant, PTL DEF TransitionSpec

-----------------------------------------------------------------------------
(* What a step means for the headings and for the command that makes it.   *)

LEMMA WhereNow ==
    ASSUME PlanInv, NEW p \in Proc, Step(p), cmd'[p] # None
    PROVE  \/ cmd'[p].pc = "lock"
           \/ Acquire(p) /\ cmd'[p].pc \in {"check", "take", "drop"}
           \/ Route(p) /\ cmd'[p].pc = "charge"
           \/ /\ cmd[p] # None /\ cmd[p].pc \in Bound /\ cmd'[p].pc \in Bound \ {"charge"}
              /\ OnwardBy(p, cmd'[p].pc)
              /\ cmd'[p].pc = "enter" => <<cmd[p].from, cmd[p].to>> \in OnEnter
              /\ cmd'[p].pc = "restore" => cmd[p].pc = "enter" \/ cmd[p].kind = "claim"
<1>1. DOMAIN cmd = Proc /\ Process(p)
  BY DEF PlanInv, StateTyped
<1>2. CASE Begin(p)
  <2>1. PICK kind, t, to, message : Start(p, Command(kind, t, to, message))
    BY <1>2, Zenon DEF Begin, StartClaim, StartTake, StartMove, StartRelease
  <2> QED
    BY <1>1, <2>1 DEF Command, Start
<1>3. CASE Acquire(p)
  <2>1. cmd'[p].pc \in {"lock", FirstStep(cmd[p].kind)} /\ cmd[p].kind \in Kinds
    BY <1>3, AcquireIs DEF CommandTyped
  <2> QED
    BY <1>3, <2>1 DEF FirstStep, Kinds
<1>4. CASE Route(p)
  <2>1. PICK to : cmd' = [cmd EXCEPT ![p].to = to, ![p].pc = "charge"] /\ cmd[p] # None
    BY <1>4 DEF Route, At
  <2> QED
    BY <1>1, <1>4, <2>1 DEF Process, CommandTyped, Fields
<1>5. CASE Return(p)
  BY <1>1, <1>5 DEF Return
<1>6. CASE \/ Charge(p) \/ WriteManifest(p) \/ WriteTask(p) \/ EnterAccepts(p) \/ Assign(p)
           \/ ClaimFails(p) \/ (Record(p) /\ Goto(p, "finish"))
  <2>1. PICK pc : /\ Goto(p, pc)
                  /\ pc \in {"open", "write", "place", "enter", "assign", "commit", "restore",
                             "record", "finish"}
                  /\ pc = "enter" => <<cmd[p].from, cmd[p].to>> \in OnEnter
                  /\ pc = "restore" => cmd[p].kind = "claim"
    BY <1>6 DEF Charge, WriteManifest, WriteTask, EnterAccepts, Assign, ClaimFails, Written, Entered
  <2>2. /\ cmd[p] # None
        /\ cmd[p].pc \in {"charge", "write", "place", "enter", "assign", "commit", "record"}
    BY <1>6 DEF Charge, WriteManifest, WriteTask, EnterAccepts, Assign, ClaimFails, Record, At
  <2>3. OnwardBy(p, pc) /\ cmd'[p].pc = pc
    BY <2>1, <2>2, GotoIsOnward DEF OnwardBy
  <2> QED
    BY <2>1, <2>2, <2>3 DEF Bound, Pcs
<1>7. CASE OpenLedger(p)
  BY <1>7, OpenLedgerIs DEF Bound, Pcs, OnwardBy
<1>8. CASE EnterFails(p)
  BY <1>8, EnterFailsIs DEF Bound, Pcs, OnwardBy
<1>9. CASE Restore(p)
  <2>1. /\ cmd[p] # None
        /\ \/ Return(p)
           \/ cmd' = [cmd EXCEPT ![p] = [cmd[p] EXCEPT !.kind = "move", !.to = Recovery,
                        !.pc = "lock", !.want = Locks("move", cmd[p].ticket), !.before = None,
                        !.mark = 0, !.retry = FALSE]]
    BY <1>9 DEF Restore, At
  <2> QED
    BY <1>1, <1>5, <2>1 DEF Process, CommandTyped, Fields
<1>10. \/ Begin(p) \/ Acquire(p) \/ Route(p) \/ Return(p) \/ OpenLedger(p) \/ EnterFails(p)
       \/ Restore(p) \/ Charge(p) \/ WriteManifest(p) \/ WriteTask(p) \/ EnterAccepts(p)
       \/ Assign(p) \/ ClaimFails(p) \/ (Record(p) /\ Goto(p, "finish"))
  BY DEF Step, Continue, Take, Drop, Refuse, RefuseCharge, OpenFails, WriteFails, EnterBreaks,
         Commit, Record, RecordFails, Finish, Crash
<1> QED
  BY <1>2, <1>3, <1>4, <1>5, <1>6, <1>7, <1>8, <1>9, <1>10

\* The heading of a ticket after a step.
LEMMA HeadingNow ==
    ASSUME PlanInv, NEW p \in Proc, Step(p), NEW t \in Ticket
    PROVE  LET c == cmd[p]
           IN  \/ plan'[t] = plan[t]
               \/ plan'[t].state = plan[t].state /\ plan'[t].assignee = None
               \/ plan'[t].state = plan[t].state /\ Claimable(t)
               \/ /\ c # None /\ c.pc \in {"write", "place", "assign", "restore"}
                  /\ t \in InFile(c.ticket)
                  /\ \/ c.pc # "restore" /\ plan'[t] = MovedHeadings(c)[t]
                     \/ c.pc = "assign" /\ plan'[t] = AssignedHeadings(p)[t]
                     \/ c.pc = "restore" /\ plan'[t] = c.before.headings[t]
<1> DEFINE c == cmd[p]
<1>1. Process(p) /\ StateTyped
  BY DEF PlanInv
<1>2. CASE UNCHANGED plan
  BY <1>2
<1>3. CASE Take(p) \/ Drop(p) \/ Finish(p)
  <2>1. c # None /\ c.ticket \in Ticket
    BY <1>1, <1>3 DEF Take, Drop, Finish, At, Process, CommandTyped
  <2>2. \/ plan' = plan
        \/ plan' = [plan EXCEPT ![c.ticket].assignee = p] /\ Claimable(c.ticket)
        \/ plan' = [plan EXCEPT ![c.ticket].assignee = None]
        \/ plan' = [plan EXCEPT ![c.ticket].assignee = None, ![c.ticket].link = TRUE]
    BY <1>3 DEF Take, Drop, Finish
  <2>3. CASE plan' = plan
    BY <2>3
  <2>4. CASE plan' = [plan EXCEPT ![c.ticket].assignee = p] /\ Claimable(c.ticket)
    <3>1. \A u \in Ticket : plan'[u].state = plan[u].state /\ (u # c.ticket => plan'[u] = plan[u])
      BY <2>1, <2>4, OwnerChanges
    <3> QED
      BY <2>4, <3>1
  <2>5. CASE \/ plan' = [plan EXCEPT ![c.ticket].assignee = None]
             \/ plan' = [plan EXCEPT ![c.ticket].assignee = None, ![c.ticket].link = TRUE]
    <3>1. /\ plan'[c.ticket].assignee = None
          /\ \A u \in Ticket : plan'[u].state = plan[u].state /\ (u # c.ticket => plan'[u] = plan[u])
      BY <2>1, <2>5, OwnerChanges
    <3> QED
      BY <3>1
  <2> QED
    BY <2>2, <2>3, <2>4, <2>5
<1>4. CASE WriteManifest(p) \/ WriteTask(p) \/ Assign(p) \/ Restore(p)
  <2>1. /\ c # None /\ c.pc \in {"write", "place", "assign", "restore"}
        /\ c.pc # "lock" /\ c.pc \in Bound
    BY <1>4 DEF WriteManifest, WriteTask, Assign, Restore, At, Bound, Pcs
  <2>2. CommandTyped(c)
    BY <1>1, <2>1 DEF Process
  <2>3. \/ plan' = plan
        \/ plan' = Overlay(plan, c.before.headings) /\ c.pc = "restore"
        \/ plan' = Overlay(plan, MovedHeadings(c)) /\ c.pc # "restore"
        \/ plan' = Overlay(plan, AssignedHeadings(p)) /\ c.pc = "assign"
    BY <1>4 DEF WriteManifest, WriteTask, Assign, Restore, RestoreFiles, AssignedHeadings, At
  <2>4. /\ c.before.headings \in [InFile(c.ticket) -> Heading]
        /\ MovedHeadings(c) \in [InFile(c.ticket) -> Heading]
        /\ AssignedHeadings(p) \in [InFile(c.ticket) -> Heading]
    BY <2>1, <2>2, MovedIs, AssignedIs DEF CommandTyped, ContentsOf
  <2>5. \A part \in [InFile(c.ticket) -> Heading] :
          Overlay(plan, part)[t] = IF t \in InFile(c.ticket) THEN part[t] ELSE plan[t]
    BY <1>1 DEF Overlay, StateTyped
  <2> QED
    BY <2>1, <2>3, <2>4, <2>5
<1>5. UNCHANGED plan \/ Take(p) \/ Drop(p) \/ Finish(p)
      \/ WriteManifest(p) \/ WriteTask(p) \/ Assign(p) \/ Restore(p)
  BY DEF Step, Begin, StartClaim, StartTake, StartMove, StartRelease, Start, Continue, Acquire,
         Refuse, Route, RefuseCharge, Charge, OpenLedger, OpenFails, WriteFails, EnterAccepts,
         EnterFails, EnterBreaks, Commit, ClaimFails, Record, RecordFails, Crash, files
<1> QED
  BY <1>2, <1>3, <1>4, <1>5

-----------------------------------------------------------------------------
(* Claims and the tickets they depend on.                                  *)

LEMMA EndsStay ==
    ASSUME PlanInv, PriorInv, NEW p \in Proc, Step(p), NEW t \in Ticket, Ends(plan[t].state)
    PROVE  Ends(plan'[t].state)
<1> DEFINE c == cmd[p]
<1>1. CASE plan'[t].state = plan[t].state
  BY <1>1
<1>2. CASE /\ c # None /\ c.pc \in {"write", "place", "assign", "restore"}
           /\ t \in InFile(c.ticket)
           /\ \/ c.pc # "restore" /\ plan'[t] = MovedHeadings(c)[t]
              \/ c.pc = "assign" /\ plan'[t] = AssignedHeadings(p)[t]
              \/ c.pc = "restore" /\ plan'[t] = c.before.headings[t]
  <2>1. CommandTyped(c) /\ FilesStand(p) /\ Admitted(c) /\ c.pc # "lock" /\ c.pc \in Bound
    BY <1>2 DEF PlanInv, Process, Bound, Pcs
  <2>2. c.pc = "restore" => ~Ends(c.to)
    BY <1>2 DEF PriorInv
  <2>3. /\ ~Ends(c.from) /\ c.before.headings[c.ticket].state = c.from
    BY <2>1, EdgeEnds DEF Admitted
  <2>4. /\ MovedHeadings(c)[t].state =
             IF t = c.ticket THEN c.to ELSE c.before.headings[t].state
        /\ AssignedHeadings(p)[t].state = MovedHeadings(c)[t].state
    BY <1>2, <2>1, MovedIs, AssignedIs
  <2>5. CASE t # c.ticket
    <3>1. plan[t].state = c.before.headings[t].state
      BY <1>2, <2>1, <2>4, <2>5 DEF FilesStand, HeadingsAre
    <3> QED
      BY <1>2, <2>4, <2>5, <3>1
  <2>6. CASE t = c.ticket /\ c.pc = "restore"
    <3>1. plan[t].state \in {c.from, c.to}
      BY <1>2, <2>1, <2>3, <2>4, <2>6 DEF FilesStand, HeadingsAre
    <3> QED
      BY <2>2, <2>3, <2>6, <3>1
  <2>7. CASE t = c.ticket /\ c.pc = "assign"
    <3>1. plan[t].state = c.to
      BY <1>2, <2>1, <2>4, <2>7 DEF FilesStand, HeadingsAre
    <3> QED
      BY <1>2, <2>4, <2>7, <3>1
  <2>8. CASE t = c.ticket /\ c.pc \in {"write", "place"}
    <3>1. plan[t].state = c.from
      BY <1>2, <2>1, <2>3, <2>8 DEF FilesStand, HeadingsAre
    <3> QED
      BY <2>3, <3>1
  <2> QED
    BY <1>2, <2>5, <2>6, <2>7, <2>8
<1> QED
  BY <1>1, <1>2, HeadingNow

LEMMA PriorKept ==
    ASSUME EndsAreFinal, PlanInv, MarkInv, PriorInv, NEW p \in Proc, Step(p)
    PROVE  PriorInv'
<1> DEFINE StillEnded(t) == \A u \in Prior[t] : Ends(plan'[u].state)
<1>1. \A t \in Ticket : PriorsEnded(t) => StillEnded(t)
  <2> SUFFICES ASSUME NEW t \in Ticket, PriorsEnded(t), NEW u \in Prior[t]
               PROVE  Ends(plan'[u].state)
    BY DEF PriorsEnded
  <2>1. u \in Ticket /\ Ends(plan[u].state)
    BY PlanAssumption DEF PriorsEnded
  <2> QED
    BY <2>1, EndsStay
<1>2. \A t \in Ticket : Claimable(t) => PriorsEnded(t)
  BY DEF Claimable, Ready, PriorsEnded
<1>3. \A t \in Ticket : plan[t].assignee # None => PriorsEnded(t)
  BY DEF PriorInv, ClaimsFollowPriors, PriorsEnded
<1>4. ClaimsFollowPriors'
  <2> SUFFICES ASSUME NEW t \in Ticket, plan'[t].assignee # None PROVE PriorsEnded(t)
    BY <1>1 DEF ClaimsFollowPriors, PriorsEnded
  <2> DEFINE c == cmd[p]
  <2>1. CASE plan'[t] = plan[t] \/ Claimable(t)
    BY <1>2, <1>3, <2>1
  <2>2. CASE /\ c # None /\ c.pc \in {"write", "place", "assign", "restore"}
             /\ t \in InFile(c.ticket)
             /\ \/ c.pc # "restore" /\ plan'[t] = MovedHeadings(c)[t]
                \/ c.pc = "assign" /\ plan'[t] = AssignedHeadings(p)[t]
                \/ c.pc = "restore" /\ plan'[t] = c.before.headings[t]
    <3>1. CommandTyped(c) /\ c.pc # "lock" /\ c.pc \in Bound
      BY <2>2 DEF PlanInv, Process, Bound, Pcs
    <3>2. /\ MovedHeadings(c)[t].assignee = c.before.headings[t].assignee
          /\ t # c.ticket => AssignedHeadings(p)[t] = c.before.headings[t]
      BY <2>2, <3>1, MovedIs, AssignedIs
    <3>3. c.before.headings[t].assignee # None => PriorsEnded(t)
      BY <2>2, <3>1 DEF PriorInv
    <3>4. c.pc = "assign" => PriorsEnded(c.ticket)
      BY <2>2, <3>1 DEF PriorInv, CommandTyped
    <3> QED
      BY <2>2, <3>2, <3>3, <3>4
  <2> QED
    BY <2>1, <2>2, HeadingNow
<1>5. ASSUME NEW q \in Proc, cmd'[q] # None
      PROVE  LET d == cmd'[q]
             IN  /\ d.pc # "lock" =>
                      \A u \in InFile(d.ticket) :
                        d.before.headings[u].assignee # None => PriorsEnded(u)
                 /\ d.kind = "claim" /\ d.pc \in Bound => PriorsEnded(d.ticket)
                 /\ d.pc \in {"enter", "restore"} => ~Ends(d.to)
  <2> DEFINE c == cmd[q]
             d == cmd'[q]
  <2>0. DOMAIN cmd = Proc
    BY DEF PlanInv, StateTyped
  <2>1. CASE q # p
    <3>1. d = c
      BY <2>0, <2>1, OthersStay
    <3> QED
      BY <1>5, <3>1 DEF PriorInv
  <2>2. CASE q = p /\ d.pc = "lock"
    BY <2>2 DEF Bound
  <2>3. CASE q = p /\ Acquire(p) /\ d.pc \in {"check", "take", "drop"}
    <3>1. d.ticket = c.ticket /\ d.before = Contents(c.ticket) /\ c.ticket \in Ticket
      BY <2>3, AcquireIs DEF CommandTyped
    <3>2. HeadingsAre(c.ticket, d.before.headings)
      BY <3>1, ContentsAre DEF PlanInv
    <3>3. \A u \in InFile(c.ticket) : u \in Ticket /\ d.before.headings[u] = plan[u]
      BY <3>2 DEF HeadingsAre, InFile
    <3> QED
      BY <1>3, <2>3, <3>1, <3>3 DEF Bound
  <2>4. CASE q = p /\ Route(p) /\ d.pc = "charge"
    <3>1. /\ c # None /\ c.pc = "check" /\ Admits(c) /\ CommandTyped(c)
          /\ \E to : cmd' = [cmd EXCEPT ![p].to = to, ![p].pc = "charge"]
      BY <2>4 DEF Route, At, PlanInv, Process
    <3>2. d.ticket = c.ticket /\ d.kind = c.kind /\ d.before = c.before
      BY <2>0, <2>4, <3>1 DEF CommandTyped, Fields
    <3>3. c.kind = "claim" => PriorsEnded(c.ticket)
      BY <1>2, <3>1 DEF Admits, CommandTyped
    <3> QED
      BY <2>4, <3>1, <3>2, <3>3 DEF PriorInv
  <2>5. CASE /\ q = p /\ c # None /\ c.pc \in Bound /\ d.pc \in Bound \ {"charge"}
             /\ OnwardBy(p, d.pc)
             /\ d.pc = "enter" => <<c.from, c.to>> \in OnEnter
             /\ d.pc = "restore" => c.pc = "enter" \/ c.kind = "claim"
    <3>1. d.ticket = c.ticket /\ d.kind = c.kind /\ d.before = c.before /\ d.to = c.to
      BY <2>5 DEF OnwardBy, SameMind
    <3>2. d.pc = "enter" => ~Ends(c.to)
      BY <2>5 DEF EndsAreFinal
    <3>3. d.pc = "restore" => ~Ends(c.to)
      BY <2>5 DEF PriorInv, PlanInv, Process, Admitted
    <3> QED
      BY <2>5, <3>1, <3>2, <3>3 DEF PriorInv, Bound
  <2> QED
    BY <1>5, <2>1, <2>2, <2>3, <2>4, <2>5, WhereNow
<1>6. ASSUME NEW q \in Proc, cmd'[q] # None
      PROVE  cmd'[q].ticket \in Ticket
  BY <1>6, PlanKept DEF PlanInv, Process, CommandTyped
<1>7. \A t : InFile(t) \subseteq Ticket
  BY DEF InFile
<1>8. ASSUME NEW q \in Proc, cmd'[q] # None
      PROVE  LET d == cmd'[q]
             IN  /\ d.pc # "lock" =>
                      \A u \in InFile(d.ticket) :
                        d.before.headings[u].assignee # None => StillEnded(u)
                 /\ d.kind = "claim" /\ d.pc \in Bound => StillEnded(d.ticket)
                 /\ d.pc \in {"enter", "restore"} => ~Ends(d.to)
  <2> DEFINE d == cmd'[q]
  <2>1. /\ d.pc # "lock" =>
             \A u \in InFile(d.ticket) : d.before.headings[u].assignee # None => PriorsEnded(u)
        /\ d.kind = "claim" /\ d.pc \in Bound => PriorsEnded(d.ticket)
        /\ d.pc \in {"enter", "restore"} => ~Ends(d.to)
    BY <1>5, <1>8
  <2>2. d.ticket \in Ticket
    BY <1>6, <1>8
  <2> QED
    <3> HIDE DEF StillEnded
    <3>1. \A u \in InFile(d.ticket) : PriorsEnded(u) => StillEnded(u)
      BY <1>1, <1>7
    <3> QED
      BY <1>1, <2>1, <2>2, <3>1
<1> QED
  BY <1>4, <1>8 DEF PriorInv, PriorsEnded

\* Where no callback that takes its edge back is on an edge that ends a ticket,
\* a ticket somebody works on has all that it depends on behind it, although it
\* is claimed without a lock on the rheis of the others.
THEOREM ClaimsComeAfterTheirPriors ==
    ASSUME EndsAreFinal
    PROVE  TransitionSpec => []ClaimsFollowPriors
<1>1. Init => PriorInv
  BY DEF Init, PriorInv, ClaimsFollowPriors
<1>2. PlanInv /\ MarkInv /\ PriorInv /\ [Next]_vars => PriorInv'
  <2> SUFFICES ASSUME PlanInv, MarkInv, PriorInv, [Next]_vars PROVE PriorInv'
    OBVIOUS
  <2>1. CASE UNCHANGED vars
    BY <2>1 DEF vars, files, PriorInv, ClaimsFollowPriors, PriorsEnded
  <2>2. CASE \E p \in Proc : Step(p)
    BY <2>2, PriorKept
  <2> QED
    BY <2>1, <2>2 DEF Next, Rest, Step
<1>3. PriorInv => ClaimsFollowPriors
  BY DEF PriorInv
<1> QED
  BY <1>1, <1>2, <1>3, PlanInvariant, PTL DEF TransitionSpec

-----------------------------------------------------------------------------
(* Visits and their limits.                                                *)

\* The counters of a ticket after a step.
LEMMA CountsNow ==
    ASSUME PlanInv, NEW p \in Proc, Step(p), NEW t \in Ticket
    PROVE  LET c == cmd[p]
           IN  \/ visits'[t] = visits[t]
               \/ /\ c # None /\ t \in InManifest(c.ticket)
                  /\ \/ c.pc = "write" /\ visits'[t] = MovedCounts(c)[t]
                     \/ c.pc = "restore" /\ visits'[t] = c.before.counts[t]
<1> DEFINE c == cmd[p]
<1>1. Process(p) /\ StateTyped
  BY DEF PlanInv
<1>2. CASE UNCHANGED visits
  BY <1>2
<1>3. CASE WriteManifest(p) \/ Restore(p)
  <2>1. c # None /\ c.pc \in {"write", "restore"} /\ c.pc # "lock" /\ c.pc \in Bound
    BY <1>3 DEF WriteManifest, Restore, At, Bound, Pcs
  <2>2. CommandTyped(c)
    BY <1>1, <2>1 DEF Process
  <2>3. \/ visits' = visits
        \/ visits' = Overlay(visits, c.before.counts) /\ c.pc = "restore"
        \/ visits' = Overlay(visits, MovedCounts(c)) /\ c.pc = "write"
    BY <1>3 DEF WriteManifest, Restore, RestoreFiles, At
  <2>4. /\ c.before.counts \in [InManifest(c.ticket) -> Counts]
        /\ MovedCounts(c) \in [InManifest(c.ticket) -> Counts]
    BY <2>1, <2>2, MovedIs DEF CommandTyped, ContentsOf
  <2>5. \A part \in [InManifest(c.ticket) -> Counts] :
          Overlay(visits, part)[t] = IF t \in InManifest(c.ticket) THEN part[t] ELSE visits[t]
    BY <1>1 DEF Overlay, StateTyped
  <2> QED
    BY <2>1, <2>3, <2>4, <2>5
<1>4. UNCHANGED visits \/ WriteManifest(p) \/ Restore(p)
  BY DEF Step, Begin, StartClaim, StartTake, StartMove, StartRelease, Start, Continue, Acquire,
         Take, Drop, Finish, WriteTask, Assign,
         Refuse, Route, RefuseCharge, Charge, OpenLedger, OpenFails, WriteFails, EnterAccepts,
         EnterFails, EnterBreaks, Commit, ClaimFails, Record, RecordFails, Crash, files
<1> QED
  BY <1>2, <1>3, <1>4

\* One more visit, where there was room for it.
LEMMA VisitWithin ==
    ASSUME NEW counts \in Counts, Within(counts), NEW from \in State, NEW to \in State,
           VisitLimit[to] > 0 => Normalised(counts, from)[to] < VisitLimit[to]
    PROVE  Within(CountVisit(counts, from, to))
<1> DEFINE now == Normalised(counts, from)
<1>1. VisitLimit \in [State -> Nat]
  BY MachineAssumption
<1>2. now \in Counts
  BY CountsTyped
<1>3. \A s \in State : VisitLimit[s] > 0 => now[s] <= VisitLimit[s]
  BY <1>1 DEF Normalised, Counts, Within
<1> HIDE DEF now
<1>4. CASE ~(VisitLimit[to] > 0)
  <2>1. CountVisit(counts, from, to) = now
    BY <1>4 DEF CountVisit, now
  <2> QED
    BY <1>3, <2>1 DEF Within
<1>5. CASE VisitLimit[to] > 0
  <2>1. CountVisit(counts, from, to) = [now EXCEPT ![to] = now[to] + 1]
    BY <1>5 DEF CountVisit, now
  <2>2. now[to] < VisitLimit[to]
    BY <1>5 DEF now
  <2>3. ASSUME NEW s \in State, VisitLimit[s] > 0
        PROVE  CountVisit(counts, from, to)[s] <= VisitLimit[s]
    <3>1. CASE s = to
      <4>1. CountVisit(counts, from, to)[s] = now[to] + 1
        BY <1>2, <2>1, <3>1 DEF Counts
      <4>2. now[to] \in Nat /\ VisitLimit[to] \in Nat
        BY <1>1, <1>2 DEF Counts
      <4> QED
        BY <2>2, <3>1, <4>1, <4>2
    <3>2. CASE s # to
      BY <1>2, <1>3, <2>1, <2>3, <3>2 DEF Counts
    <3> QED
      BY <3>1, <3>2
  <2> QED
    BY <2>3 DEF Within
<1> QED
  BY <1>4, <1>5

LEMMA LimitKept ==
    ASSUME RedirectsAreFree, PlanInv, LimitInv, NEW p \in Proc, Step(p)
    PROVE  LimitInv'
<1> DEFINE Room(d) == VisitLimit[d.to] > 0 =>
                        Normalised(d.before.counts[d.ticket], d.from)[d.to] < VisitLimit[d.to]
<1>0. DOMAIN cmd = Proc
  BY DEF PlanInv, StateTyped
<1>1. \A t \in Ticket : Within(visits[t])
  BY DEF LimitInv, VisitLimitHolds, Within
<1>2. VisitLimitHolds'
  <2> SUFFICES ASSUME NEW t \in Ticket PROVE Within(visits'[t])
    BY DEF VisitLimitHolds, Within
  <2> DEFINE c == cmd[p]
  <2>1. CASE visits'[t] = visits[t]
    BY <1>1, <2>1
  <2>2. CASE /\ c # None /\ t \in InManifest(c.ticket)
             /\ \/ c.pc = "write" /\ visits'[t] = MovedCounts(c)[t]
                \/ c.pc = "restore" /\ visits'[t] = c.before.counts[t]
    <3>1. CommandTyped(c) /\ c.pc # "lock" /\ c.from \in State /\ c.to \in State
          /\ c.before \in ContentsOf(c.ticket) /\ c.ticket \in InManifest(c.ticket)
      BY <2>2, FileParts DEF PlanInv, Process, CommandTyped
    <3>2. \A u \in InManifest(c.ticket) : Within(c.before.counts[u])
      BY <2>2, <3>1 DEF LimitInv
    <3>3. CASE c.pc = "write" /\ visits'[t] = MovedCounts(c)[t]
      <4>1. CASE t # c.ticket
        BY <2>2, <3>1, <3>2, <3>3, <4>1, MovedIs
      <4>2. CASE t = c.ticket
        <5>1. visits'[t] = CountVisit(c.before.counts[t], c.from, c.to)
          BY <3>1, <3>3, <4>2, MovedIs
        <5>2. VisitLimit[c.to] > 0 =>
                Normalised(c.before.counts[t], c.from)[c.to] < VisitLimit[c.to]
          BY <2>2, <3>3, <4>2 DEF LimitInv
        <5>3. c.before.counts[t] \in Counts /\ Within(c.before.counts[t])
          BY <3>1, <3>2, <4>2 DEF ContentsOf
        <5> QED
          BY <3>1, <5>1, <5>2, <5>3, VisitWithin
      <4> QED
        BY <4>1, <4>2
    <3> QED
      BY <2>2, <3>2, <3>3
  <2> QED
    BY <2>1, <2>2, CountsNow
<1>3. ASSUME NEW q \in Proc, cmd'[q] # None
      PROVE  LET d == cmd'[q]
             IN  /\ d.pc # "lock" => \A u \in InManifest(d.ticket) : Within(d.before.counts[u])
                 /\ d.pc \in {"charge", "open", "write"} => Room(d)
  <2> DEFINE c == cmd[q]
             d == cmd'[q]
  <2>1. CASE q # p
    <3>1. d = c
      BY <1>0, <2>1, OthersStay
    <3> QED
      BY <1>3, <3>1 DEF LimitInv
  <2>2. CASE q = p /\ d.pc = "lock"
    BY <2>2
  <2>3. CASE q = p /\ Acquire(p) /\ d.pc \in {"check", "take", "drop"}
    <3>1. d.ticket = c.ticket /\ d.before = Contents(c.ticket) /\ c.ticket \in Ticket
      BY <2>3, AcquireIs DEF CommandTyped
    <3>2. CountsAre(c.ticket, d.before.counts)
      BY <3>1, ContentsAre DEF PlanInv
    <3>3. \A u \in InManifest(c.ticket) : u \in Ticket /\ d.before.counts[u] = visits[u]
      BY <3>2 DEF CountsAre, InManifest
    <3> QED
      BY <1>1, <2>3, <3>1, <3>3
  <2>4. CASE q = p /\ Route(p) /\ d.pc = "charge"
    <3>1. /\ c # None /\ c.pc = "check" /\ Admits(c) /\ CommandTyped(c)
      BY <2>4 DEF Route, At, PlanInv, Process
    <3>2. PICK to \in Targets(c) :
            Lands(c, to) /\ cmd' = [cmd EXCEPT ![p].to = to, ![p].pc = "charge"]
      BY <2>4 DEF Route
    <3>3. d.ticket = c.ticket /\ d.from = c.from /\ d.before = c.before /\ d.to = to
      BY <1>0, <2>4, <3>1, <3>2 DEF CommandTyped, Fields
    <3>4. Room(d)
      <4>1. CASE to = c.to
        BY <3>1, <3>3, <4>1 DEF Admits, Applicable
      <4>2. CASE to # c.to
        <5>1. <<c.from, c.to>> \in Edges /\ to \in Redirects[<<c.from, c.to>>]
          BY <3>2, <4>2, MachineAssumption DEF Targets
        <5>2. VisitLimit[to] = 0
          BY <5>1 DEF RedirectsAreFree
        <5> QED
          BY <3>3, <5>2
      <4> QED
        BY <4>1, <4>2
    <3> HIDE DEF Room
    <3> QED
      BY <2>4, <3>1, <3>3, <3>4 DEF LimitInv
  <2>5. CASE /\ q = p /\ c # None /\ c.pc \in Bound /\ d.pc \in Bound \ {"charge"}
             /\ OnwardBy(p, d.pc)
    <3>1. /\ d.ticket = c.ticket /\ d.from = c.from /\ d.before = c.before /\ d.to = c.to
      BY <2>5 DEF OnwardBy, SameMind
    <3>2. d.pc \in {"open", "write"} => c.pc \in {"charge", "open", "write"}
      <4>1. Idles(p) \/ Works(p) \/ Says(p) \/ Breaks(p) \/ TakesBack(p) \/ Opens(p) \/ Charges(p)
        BY EveryStep
      <4> QED
        BY <1>3, <2>5, <4>1
           DEF Idles, Works, Says, Breaks, TakesBack, Opens, Charges, OnwardBy, Bound
    <3> QED
      BY <2>5, <3>1, <3>2 DEF LimitInv, Bound
  <2> QED
    BY <1>3, <2>1, <2>2, <2>3, <2>4, <2>5, WhereNow
<1> QED
  BY <1>2, <1>3 DEF LimitInv

\* Where no callback sends a ticket into a state with a limit, the limit holds
\* for any number of commands that all saw room for one more visit.
THEOREM NoVisitTooMany ==
    ASSUME RedirectsAreFree
    PROVE  TransitionSpec => []VisitLimitHolds
<1>1. Init => LimitInv
  <2> SUFFICES ASSUME Init PROVE LimitInv
    OBVIOUS
  <2>1. \A t \in Ticket, s \in State : visits[t][s] = 0
    BY DEF Init
  <2>2. VisitLimitHolds
    BY <2>1, MachineAssumption DEF VisitLimitHolds
  <2> QED
    BY <2>2 DEF Init, LimitInv
<1>2. PlanInv /\ LimitInv /\ [Next]_vars => LimitInv'
  <2> SUFFICES ASSUME PlanInv, LimitInv, [Next]_vars PROVE LimitInv'
    OBVIOUS
  <2>1. CASE UNCHANGED vars
    BY <2>1 DEF vars, files, LimitInv, VisitLimitHolds
  <2>2. CASE \E p \in Proc : Step(p)
    BY <2>2, LimitKept
  <2> QED
    BY <2>1, <2>2 DEF Next, Rest, Step
<1>3. LimitInv => VisitLimitHolds
  BY DEF LimitInv
<1> QED
  BY <1>1, <1>2, <1>3, PlanInvariant, PTL DEF TransitionSpec

-----------------------------------------------------------------------------
(* The counters and the history, where nothing fails but callbacks and     *)
(* claims.                                                                 *)

\* A process in a command is not one in none.
NoneIsNoCommand == \A c : DOMAIN c = Fields => c # None

LEMMA StatesOfOthers ==
    ASSUME PlanInv, NEW p \in Proc, Step(p), NEW t \in Ticket, plan'[t].state # plan[t].state
    PROVE  cmd[p] # None /\ t = cmd[p].ticket /\ cmd[p].pc \in {"write", "place", "restore"}
<1> DEFINE c == cmd[p]
<1>1. /\ c # None /\ c.pc \in {"write", "place", "assign", "restore"}
      /\ t \in InFile(c.ticket)
      /\ \/ c.pc # "restore" /\ plan'[t] = MovedHeadings(c)[t]
         \/ c.pc = "assign" /\ plan'[t] = AssignedHeadings(p)[t]
         \/ c.pc = "restore" /\ plan'[t] = c.before.headings[t]
  BY HeadingNow
<1>2. CommandTyped(c) /\ FilesStand(p) /\ c.pc # "lock" /\ c.pc \in Bound
  BY <1>1 DEF PlanInv, Process, Bound, Pcs
<1>3. /\ MovedHeadings(c)[t].state = IF t = c.ticket THEN c.to ELSE c.before.headings[t].state
      /\ AssignedHeadings(p)[t].state = MovedHeadings(c)[t].state
  BY <1>1, <1>2, MovedIs, AssignedIs
<1>4. CASE t # c.ticket
  <2>1. plan[t].state = c.before.headings[t].state
    BY <1>1, <1>2, <1>3, <1>4 DEF FilesStand, HeadingsAre
  <2> QED
    BY <1>1, <1>3, <1>4, <2>1
<1>5. CASE c.pc = "assign"
  <2>1. plan[t].state = MovedHeadings(c)[t].state
    BY <1>1, <1>2, <1>5 DEF FilesStand, HeadingsAre
  <2> QED
    BY <1>1, <1>3, <1>5, <2>1
<1> QED
  BY <1>1, <1>4, <1>5

\* How a command that has begun to write goes on, or ends.
LEMMA FromWriting ==
    ASSUME Faults \subseteq {"claim"}, NoneIsNoCommand, PlanInv, NEW p \in Proc, Step(p),
           cmd[p] # None, cmd[p].pc \in {"write", "place", "enter", "assign", "commit", "record"}
    PROVE  Works(p) \/ Says(p)
<1>1. Idles(p) \/ Works(p) \/ Says(p) \/ Breaks(p) \/ TakesBack(p) \/ Opens(p) \/ Charges(p)
  BY EveryStep
<1>2. ~TakesBack(p) /\ ~Opens(p) /\ ~Charges(p)
  BY DEF TakesBack, Opens, Charges
<1>3. CASE Commit(p) \/ Record(p)
  BY <1>3, CommitsSay
<1>4. CASE EnterFails(p) \/ \E pc \in {"place", "enter", "assign", "commit", "restore", "record"} :
                               Goto(p, pc)
  <2>1. PICK pc \in {"place", "enter", "assign", "commit", "restore", "record"} : OnwardBy(p, pc)
    BY <1>4, EnterFailsIs, GotoIsOnward
  <2>2. cmd'[p].pc = pc /\ cmd'[p] # None
    BY <2>1 DEF OnwardBy, NoneIsNoCommand
  <2> QED
    BY <1>1, <1>2, <2>1, <2>2 DEF Idles, Breaks
<1>5. \/ Commit(p) \/ Record(p) \/ WriteManifest(p) \/ WriteTask(p) \/ EnterAccepts(p)
      \/ EnterFails(p) \/ Assign(p) \/ ClaimFails(p)
  BY DEF Step, Begin, StartClaim, StartTake, StartMove, StartRelease, Start, Continue, Acquire,
         Take, Drop, Refuse, Route, RefuseCharge, Charge, OpenLedger, OpenFails, WriteFails,
         EnterBreaks, Restore, RecordFails, Finish, Crash, At
<1>6. WriteManifest(p) \/ WriteTask(p) \/ EnterAccepts(p) \/ Assign(p) \/ ClaimFails(p) =>
        \E pc \in {"place", "enter", "assign", "commit", "restore", "record"} : Goto(p, pc)
  BY DEF WriteManifest, WriteTask, EnterAccepts, Assign, ClaimFails, Written, Entered
<1> QED
  BY <1>3, <1>4, <1>5, <1>6

\* Who writes holds the metadata, and nobody else writes there.
LEMMA Writers ==
    ASSUME PlanInv, NEW p \in Proc, Writing(p)
    PROVE  /\ CommandTyped(cmd[p]) /\ FilesStand(p) /\ Admitted(cmd[p]) /\ Holds(p)
           /\ cmd[p] # None /\ cmd[p].pc # "lock" /\ cmd[p].pc \in Bound
           /\ cmd[p].ticket \in Ticket
           /\ holder[Manifest[cmd[p].ticket]] = p
           /\ cmd[p].ticket \in InManifest(cmd[p].ticket)
           /\ \A u \in Ticket : u \in InManifest(cmd[p].ticket) <=> Manifest[u] = Manifest[cmd[p].ticket]
           /\ \A u \in InManifest(cmd[p].ticket) : u \in Ticket
<1>1. /\ cmd[p] # None /\ cmd[p].pc # "lock" /\ cmd[p].pc \in Bound /\ Process(p)
  BY DEF Writing, Bound, Pcs, PlanInv
<1>2. CommandTyped(cmd[p]) /\ FilesStand(p) /\ Admitted(cmd[p]) /\ Holds(p)
  BY <1>1 DEF Process
<1>3. cmd[p].ticket \in Ticket /\ cmd[p].kind # "release"
  BY <1>1, <1>2 DEF CommandTyped
<1> QED
  BY <1>1, <1>2, <1>3, FileParts DEF Holds, InManifest

\* What was cut short belongs to a claim that is taking it back, with the lock
\* of the ledger in its hands.
LEMMA WhoseFragment ==
    ASSUME PlanInv, CountInv, NEW n \in DOMAIN ledger, ledger[n] \notin Line
    PROVE  \E q \in Proc : /\ cmd[q] # None /\ cmd[q].kind = "claim" /\ cmd[q].pc = "restore"
                           /\ n > cmd[q].mark /\ holder[Ledger] = q /\ Writing(q)
<1>1. PICK q \in Proc : /\ cmd[q] # None /\ cmd[q].kind = "claim" /\ cmd[q].pc = "restore"
                        /\ n > cmd[q].mark
  BY DEF CountInv, FragmentsAreUndone
<1>2. holder[Ledger] = q
  BY <1>1 DEF PlanInv, Process, Holds, Bound, Pcs
<1> QED
  BY <1>1, <1>2 DEF Writing

\* A ledger of nothing but lines is extended by one entry.
LEMMA LinesOnly ==
    ASSUME StateTyped, \A n \in DOMAIN ledger : ledger[n] \in Line,
           NEW entry \in Line \cup {Fragment}, ledger' = Extend(ledger, entry)
    PROVE  /\ DOMAIN ledger' = (DOMAIN ledger) \cup {Len(ledger) + 1}
           /\ ledger'[Len(ledger) + 1] = entry
           /\ \A n \in DOMAIN ledger : ledger'[n] = ledger[n] /\ n # Len(ledger) + 1
<1> DEFINE k == Len(ledger)
           m == Len(ledger')
<1>1. /\ ledger \in Seq(Line \cup {Fragment, Garbled})
      /\ ledger' \in Seq(Line \cup {Fragment, Garbled})
  BY ExtendIs DEF StateTyped
<1>2. k \in Nat /\ DOMAIN ledger = 1..k /\ m \in Nat /\ DOMAIN ledger' = 1..m
  BY <1>1
<1>3. \/ m = k + 1 /\ ledger'[k + 1] = entry /\ \A n \in 1..k : ledger'[n] = ledger[n]
      \/ k > 0 /\ ledger[k] \notin Line
  BY <1>1, ExtendIs
<1> HIDE DEF k, m
<1>4. ~(k > 0 /\ ledger[k] \notin Line)
  <2>1. k > 0 => k \in 1..k
    BY <1>2
  <2> QED
    BY <1>2, <2>1
<1>5. m = k + 1 => 1..m = (1..k) \cup {k + 1}
  BY <1>2
<1>6. \A n \in 1..k : n # k + 1
  BY <1>2
<1> QED
  BY <1>2, <1>3, <1>4, <1>5, <1>6 DEF k

\* The counters of tickets whose lines a step leaves alone.
LEMMA SameMoves ==
    ASSUME PlanInv, MarkInv, NEW p \in Proc, Step(p), NEW t, LinesOf(t)' = LinesOf(t)
    PROVE  \A s : MovesInto(t, s)' = MovesInto(t, s)
<1>1. \A n \in LinesOf(t) : ledger'[n] = ledger[n]
  BY LinesStay DEF LinesOf
<1> QED
  BY <1>1 DEF MovesInto

\* A command that does not write, before or after.
LEMMA CountIdle ==
    ASSUME CountInv, NEW p \in Proc, ~Writing(p), ~Writing(p)',
           \A q \in Proc \ {p} : cmd'[q] = cmd[q],
           UNCHANGED <<visits, ledger>>, \A t \in Ticket : plan'[t].state = plan[t].state
    PROVE  CountInv'
<1>1. \A q \in Proc : Writing(q)' <=> Writing(q)
  BY DEF Writing
<1>2. \A q \in Proc : Writing(q) => cmd'[q] = cmd[q]
  OBVIOUS
<1>3. \A t, s : MovesInto(t, s)' = MovesInto(t, s)
  BY DEF MovesInto, LinesOf
<1>4. FragmentsAreUndone'
  <2> SUFFICES ASSUME NEW n \in DOMAIN ledger, ledger[n] \notin Line
               PROVE  \E q \in Proc : cmd'[q] # None /\ cmd'[q].kind = "claim"
                                      /\ cmd'[q].pc = "restore" /\ n > cmd'[q].mark
    BY DEF FragmentsAreUndone
  <2>1. PICK q \in Proc : /\ cmd[q] # None /\ cmd[q].kind = "claim" /\ cmd[q].pc = "restore"
                          /\ n > cmd[q].mark
    BY DEF CountInv, FragmentsAreUndone
  <2>2. cmd'[q] = cmd[q]
    BY <1>2, <2>1 DEF Writing
  <2> QED
    BY <2>1, <2>2
<1>5. \A t \in Ticket : Settled(t)' <=> Settled(t)
  BY <1>1, <1>2 DEF Settled
<1>6. \A t, counts : Counted(t, counts)' <=> Counted(t, counts)
  BY <1>3 DEF Counted
<1>7. \A t \in Ticket : Settled(t)' =>
        Counted(t, visits[t])' /\ EverEntered(visits'[t], plan'[t].state)
  <2> SUFFICES ASSUME NEW t \in Ticket, Settled(t)'
               PROVE  Counted(t, visits[t])' /\ EverEntered(visits'[t], plan'[t].state)
    OBVIOUS
  <2>1. Counted(t, visits[t]) /\ EverEntered(visits[t], plan[t].state)
    BY <1>5 DEF CountInv
  <2> QED
    BY <1>3, <2>1 DEF Counted, EverEntered
<1>8. \A q \in Proc : Writing(q)' =>
        /\ \A u \in InManifest(cmd'[q].ticket) : Counted(u, cmd[q].before.counts[u])'
        /\ EverEntered(cmd'[q].before.counts[cmd'[q].ticket], cmd'[q].from)
        /\ \A u \in InManifest(cmd'[q].ticket) \ {cmd'[q].ticket} :
             EverEntered(cmd'[q].before.counts[u], plan'[u].state)
  <2> SUFFICES ASSUME NEW q \in Proc, Writing(q)'
               PROVE  /\ \A u \in InManifest(cmd[q].ticket) : Counted(u, cmd[q].before.counts[u])'
                      /\ EverEntered(cmd[q].before.counts[cmd[q].ticket], cmd[q].from)
                      /\ \A u \in InManifest(cmd[q].ticket) \ {cmd[q].ticket} :
                           EverEntered(cmd[q].before.counts[u], plan'[u].state)
    BY <1>1, <1>2
  <2>1. Writing(q) /\ cmd'[q] = cmd[q]
    BY <1>1, <1>2
  <2>2. \A u \in InManifest(cmd[q].ticket) : u \in Ticket
    BY DEF InManifest
  <2> QED
    BY <1>3, <2>1, <2>2 DEF CountInv, Counted, EverEntered
<1> QED
  BY <1>4, <1>7, <1>8 DEF CountInv

\* At the rheis of others.
LEMMA CountElsewhere ==
    ASSUME PlanInv, CountInv, NEW p \in Proc, Step(p), cmd[p] # None,
           cmd[p].pc = "write" \/ Writing(p),
           Writing(p)' => cmd'[p].ticket = cmd[p].ticket,
           \A t \in Ticket \ InManifest(cmd[p].ticket) : \A s : MovesInto(t, s)' = MovesInto(t, s)
    PROVE  /\ \A t \in Ticket \ InManifest(cmd[p].ticket) : Settled(t)' =>
                Counted(t, visits[t])' /\ EverEntered(visits'[t], plan'[t].state)
           /\ \A q \in Proc \ {p} : Writing(q)' =>
                /\ \A u \in InManifest(cmd'[q].ticket) : Counted(u, cmd[q].before.counts[u])'
                /\ EverEntered(cmd'[q].before.counts[cmd'[q].ticket], cmd'[q].from)
                /\ \A u \in InManifest(cmd'[q].ticket) \ {cmd'[q].ticket} :
                     EverEntered(cmd'[q].before.counts[u], plan'[u].state)
<1> DEFINE G == InManifest(cmd[p].ticket)
<1>1. /\ cmd[p].ticket \in Ticket /\ holder[Manifest[cmd[p].ticket]] = p
      /\ cmd[p].ticket \in G
      /\ \A u \in Ticket : u \in G <=> Manifest[u] = Manifest[cmd[p].ticket]
  <2>1. CASE cmd[p].pc = "write"
    <3>1. /\ cmd[p].ticket \in Ticket /\ cmd[p].kind # "release" /\ Holds(p)
      BY <2>1 DEF PlanInv, Process, CommandTyped, Bound, Pcs
    <3> QED
      BY <2>1, <3>1 DEF Holds, InManifest
  <2>2. CASE Writing(p)
    BY <2>2, Writers
  <2> QED
    BY <2>1, <2>2
<1>2. \A q \in Proc \ {p} : cmd'[q] = cmd[q] /\ (Writing(q)' <=> Writing(q))
  BY OthersStay DEF PlanInv, StateTyped, Writing
<1>3. \A u \in Ticket \ G : plan'[u].state = plan[u].state
  BY <1>1, StatesOfOthers
<1>4. ASSUME NEW t \in Ticket \ G, Settled(t)'
      PROVE  Counted(t, visits[t])' /\ EverEntered(visits'[t], plan'[t].state)
  <2>1. Settled(t)
    <3> SUFFICES ASSUME NEW q \in Proc, Writing(q), Manifest[cmd[q].ticket] = Manifest[t]
                 PROVE  FALSE
      BY DEF Settled
    <3>1. q # p
      BY <1>1
    <3>2. Writing(q)' /\ cmd'[q] = cmd[q]
      BY <1>2, <3>1
    <3> QED
      BY <1>4, <3>2 DEF Settled
  <2>2. visits'[t] = visits[t]
    BY CountsNow
  <2>3. Counted(t, visits[t]) /\ EverEntered(visits[t], plan[t].state)
    BY <2>1 DEF CountInv
  <2> QED
    BY <1>3, <2>2, <2>3 DEF Counted, EverEntered
<1>5. ASSUME NEW q \in Proc \ {p}, Writing(q)'
      PROVE  /\ \A u \in InManifest(cmd[q].ticket) : Counted(u, cmd[q].before.counts[u])'
             /\ EverEntered(cmd[q].before.counts[cmd[q].ticket], cmd[q].from)
             /\ \A u \in InManifest(cmd[q].ticket) \ {cmd[q].ticket} :
                  EverEntered(cmd[q].before.counts[u], plan'[u].state)
  <2>1. Writing(q) /\ cmd'[q] = cmd[q]
    BY <1>2, <1>5
  <2>2. \A u \in InManifest(cmd[q].ticket) : u \in Ticket \ G
    BY <1>1, <2>1, Writers
  <2> QED
    BY <1>3, <2>1, <2>2 DEF CountInv, Counted, EverEntered
<1> QED
  BY <1>2, <1>4, <1>5

\* Where a command writes, or has just written.
LEMMA CountHere ==
    ASSUME PlanInv, CountInv, NEW p \in Proc, Step(p), cmd[p] # None,
           cmd[p].pc = "write" \/ Writing(p),
           Writing(p)' => cmd'[p].ticket = cmd[p].ticket,
           \A t \in Ticket \ InManifest(cmd[p].ticket) : \A s : MovesInto(t, s)' = MovesInto(t, s),
           FragmentsAreUndone',
           Writing(p)' =>
             /\ \A u \in InManifest(cmd'[p].ticket) : Counted(u, cmd[p].before.counts[u])'
             /\ EverEntered(cmd'[p].before.counts[cmd'[p].ticket], cmd'[p].from)
             /\ \A u \in InManifest(cmd'[p].ticket) \ {cmd'[p].ticket} :
                  EverEntered(cmd'[p].before.counts[u], plan'[u].state),
           ~Writing(p)' =>
             \A t \in InManifest(cmd[p].ticket) :
               Counted(t, visits[t])' /\ EverEntered(visits'[t], plan'[t].state)
    PROVE  CountInv'
<1>1. /\ \A t \in Ticket \ InManifest(cmd[p].ticket) : Settled(t)' =>
           Counted(t, visits[t])' /\ EverEntered(visits'[t], plan'[t].state)
      /\ \A q \in Proc \ {p} : Writing(q)' =>
           /\ \A u \in InManifest(cmd'[q].ticket) : Counted(u, cmd[q].before.counts[u])'
           /\ EverEntered(cmd'[q].before.counts[cmd'[q].ticket], cmd'[q].from)
           /\ \A u \in InManifest(cmd'[q].ticket) \ {cmd'[q].ticket} :
                EverEntered(cmd'[q].before.counts[u], plan'[u].state)
  BY CountElsewhere
<1>2. ASSUME NEW t \in InManifest(cmd[p].ticket), Settled(t)'
      PROVE  ~Writing(p)'
  BY <1>2 DEF Settled, InManifest
<1> QED
  BY <1>1, <1>2 DEF CountInv

LEMMA FragmentsElsewhere ==
    ASSUME PlanInv, CountInv, NEW p \in Proc, UNCHANGED ledger,
           \A q \in Proc \ {p} : cmd'[q] = cmd[q],
           cmd[p] # None => cmd[p].pc # "restore" \/ cmd[p].kind # "claim"
    PROVE  FragmentsAreUndone'
<1> SUFFICES ASSUME NEW n \in DOMAIN ledger, ledger[n] \notin Line
             PROVE  \E q \in Proc : cmd'[q] # None /\ cmd'[q].kind = "claim"
                                    /\ cmd'[q].pc = "restore" /\ n > cmd'[q].mark
  BY DEF FragmentsAreUndone
<1>1. PICK q \in Proc : /\ cmd[q] # None /\ cmd[q].kind = "claim" /\ cmd[q].pc = "restore"
                        /\ n > cmd[q].mark
  BY DEF CountInv, FragmentsAreUndone
<1> QED
  BY <1>1

\* The first write, or a claim that fails at it.
LEMMA CountBegins ==
    ASSUME PlanInv, MarkInv, CountInv, NEW p \in Proc, Step(p), Works(p),
           cmd[p].pc = "write", NoneIsNoCommand
    PROVE  CountInv'
<1> DEFINE c == cmd[p]
           d == cmd'[p]
           G == InManifest(c.ticket)
<1>1. /\ c # None /\ d.ticket = c.ticket /\ d.before = c.before /\ d.from = c.from
      /\ d.pc \in {"place", "enter", "assign", "commit", "record", "restore"} /\ DOMAIN d = Fields
      /\ c.pc \in Bound /\ c.pc # "lock"
  BY DEF Works, Acting, OnwardBy, SameMind, Bound
<1>2. Writing(p)'
  BY <1>1 DEF Writing, NoneIsNoCommand
<1>3. DOMAIN cmd = Proc /\ \A q \in Proc \ {p} : cmd'[q] = cmd[q]
  BY OthersStay DEF PlanInv, StateTyped
<1>4. ledger' = ledger
  <2>1. WriteManifest(p) \/ ClaimFails(p) \/ WriteFails(p) \/ Crash(p)
    BY <1>1 DEF Step, Begin, StartClaim, StartTake, StartMove, StartRelease, Start, Continue,
         Acquire, Take, Drop, Refuse, Route, RefuseCharge, Charge, OpenLedger, OpenFails,
         WriteTask, EnterAccepts, EnterFails, Assign, Commit, Record,
         EnterBreaks, Restore, RecordFails, Finish, At
  <2> QED
    BY <1>1, <2>1 DEF WriteManifest, ClaimFails, WriteFails, Crash, At, files
<1>5. \A t, s : MovesInto(t, s)' = MovesInto(t, s)
  BY <1>4 DEF MovesInto, LinesOf
<1>6. FragmentsAreUndone'
  BY <1>3, <1>4, FragmentsElsewhere
<1>7. /\ CommandTyped(c) /\ Holds(p) /\ FilesStand(p) /\ Admitted(c)
      /\ c.ticket \in Ticket /\ c.kind # "release"
  BY <1>1 DEF PlanInv, Process, CommandTyped
<1>8. \A u \in G : /\ Counted(u, c.before.counts[u]) /\ EverEntered(c.before.counts[u], plan[u].state)
                   /\ u \in Ticket
  <2> SUFFICES ASSUME NEW u \in G
               PROVE  /\ Counted(u, c.before.counts[u]) /\ u \in Ticket
                      /\ EverEntered(c.before.counts[u], plan[u].state)
    OBVIOUS
  <2>1. u \in Ticket /\ Manifest[u] = Manifest[c.ticket]
    BY DEF InManifest
  <2>2. holder[Manifest[c.ticket]] = p
    BY <1>1, <1>7 DEF Holds
  <2>3. Settled(u)
    <3>1. ~Writing(p)
      BY DEF Writing
    <3> QED
      BY <2>1, <2>2, <3>1, Writers DEF Settled
  <2>4. visits[u] = c.before.counts[u]
    BY <1>7 DEF FilesStand, CountsAre
  <2> QED
    BY <2>1, <2>3, <2>4 DEF CountInv
<1>9. /\ c.ticket \in G /\ plan[c.ticket].state = c.from
  <2>1. c.before.headings[c.ticket].state = c.from
    BY <1>1, <1>7 DEF Admitted
  <2> QED
    BY <1>7, <2>1, FileParts DEF FilesStand, HeadingsAre
<1>10. \A u \in G \ {c.ticket} : plan'[u].state = plan[u].state
  BY <1>8, StatesOfOthers
<1>11. \A u \in G : Counted(u, cmd[p].before.counts[u])'
  BY <1>1, <1>5, <1>8 DEF Counted
<1>12. /\ EverEntered(c.before.counts[c.ticket], c.from)
       /\ \A u \in G \ {c.ticket} : EverEntered(c.before.counts[u], plan'[u].state)
  BY <1>8, <1>9, <1>10
<1> QED
  BY <1>1, <1>2, <1>5, <1>6, <1>11, <1>12, CountHere

\* A command that goes on writing, or fails at it.
LEMMA CountGoesOn ==
    ASSUME PlanInv, MarkInv, CountInv, NEW p \in Proc, Step(p), Works(p), Writing(p),
           NoneIsNoCommand
    PROVE  CountInv'
<1> DEFINE c == cmd[p]
           d == cmd'[p]
           G == InManifest(c.ticket)
<1>1. /\ c # None /\ d.ticket = c.ticket /\ d.before = c.before /\ d.from = c.from
      /\ d.kind = c.kind /\ d.mark = c.mark
      /\ d.pc \in {"place", "enter", "assign", "commit", "record", "restore"} /\ DOMAIN d = Fields
      /\ c.pc # "restore" /\ c.pc \in Bound \ {"charge", "open"}
  BY DEF Works, Acting, OnwardBy, SameMind
<1>2. Writing(p)'
  BY <1>1 DEF Writing, NoneIsNoCommand
<1>3. /\ DOMAIN cmd = Proc /\ StateTyped
      /\ \A q \in Proc \ {p} : cmd'[q] = cmd[q]
  BY OthersStay DEF PlanInv, StateTyped
<1>4. /\ Holds(p) /\ CommandTyped(c) /\ \A u \in G : u \in Ticket
      /\ c.ticket \in G
  BY Writers
<1>5. CASE ledger' = ledger
  <2>1. \A t, s : MovesInto(t, s)' = MovesInto(t, s)
    BY <1>5 DEF MovesInto, LinesOf
  <2>2. FragmentsAreUndone'
    BY <1>1, <1>3, <1>5, FragmentsElsewhere
  <2>3. \A u \in G : Counted(u, cmd[p].before.counts[u])'
    BY <1>1, <2>1 DEF CountInv, Counted
  <2>4. /\ EverEntered(c.before.counts[c.ticket], c.from)
        /\ \A u \in G \ {c.ticket} : EverEntered(c.before.counts[u], plan'[u].state)
    BY <1>4, StatesOfOthers DEF CountInv
  <2> QED
    BY <1>1, <1>2, <2>1, <2>2, <2>3, <2>4, CountHere
<1>6. CASE c.kind = "claim" /\ d.pc = "restore" /\ ledger' = Extend(ledger, Fragment)
  <2>1. holder[Ledger] = p
    BY <1>1, <1>4, <1>6 DEF Holds
  <2>2. \A n \in DOMAIN ledger : ledger[n] \in Line
    BY <1>1, <2>1, WhoseFragment
  <2>3. Fragment \notin Line
    BY PlanAssumption DEF Line
  <2>4. \A t : LinesOf(t)' = LinesOf(t)
    BY <1>3, <1>6, <2>3, LinesAfter
  <2>5. \A t, s : MovesInto(t, s)' = MovesInto(t, s)
    BY <2>4, SameMoves
  <2>6. FragmentsAreUndone'
    <3> SUFFICES ASSUME NEW n \in DOMAIN ledger', ledger'[n] \notin Line
                 PROVE  n > d.mark
      BY <1>1, <1>2, <1>6 DEF FragmentsAreUndone, Writing
    <3>1. n = Len(ledger) + 1
      BY <1>3, <1>6, <2>2, LinesOnly
    <3>2. c.mark <= Len(ledger) /\ c.mark \in Nat /\ Len(ledger) \in Nat
      BY <1>1, <1>3, <1>4, <1>6 DEF MarkInv, CommandTyped, StateTyped
    <3> QED
      BY <1>1, <3>1, <3>2
  <2>7. \A u \in G : Counted(u, cmd[p].before.counts[u])'
    BY <1>1, <2>5 DEF CountInv, Counted
  <2>8. /\ EverEntered(c.before.counts[c.ticket], c.from)
        /\ \A u \in G \ {c.ticket} : EverEntered(c.before.counts[u], plan'[u].state)
    BY <1>4, StatesOfOthers DEF CountInv
  <2> QED
    BY <1>1, <1>2, <2>5, <2>6, <2>7, <2>8, CountHere
<1> QED
  BY <1>5, <1>6 DEF Works

LEMMA VisitCounted ==
    ASSUME NEW counts \in Counts, NEW from \in State, NEW to \in State, EverEntered(counts, from),
           NEW s \in State \ {Initial}, VisitLimit[s] > 0
    PROVE  CountVisit(counts, from, to)[s] = IF s = to THEN counts[s] + 1 ELSE counts[s]
<1> DEFINE now == Normalised(counts, from)
<1>1. now \in Counts
  BY CountsTyped
<1>2. now[s] = counts[s]
  BY DEF Normalised, Counts, EverEntered
<1> HIDE DEF now
<1>3. CountVisit(counts, from, to) = IF VisitLimit[to] > 0 THEN [now EXCEPT ![to] = @ + 1] ELSE now
  BY DEF CountVisit, now
<1> QED
  BY <1>1, <1>2, <1>3 DEF Counts

\* A command that writes its line.
LEMMA CountSays ==
    ASSUME PlanInv, MarkInv, CountInv, NEW p \in Proc, Step(p), Says(p)
    PROVE  CountInv'
<1> PICK t : t = cmd[p].ticket
  OBVIOUS
<1> DEFINE c == cmd[p]
           G == InManifest(t)
           entry == LineOf(c)
<1>1. /\ c # None /\ c.pc \in {"commit", "record"} /\ ledger' = Extend(ledger, entry)
      /\ holder[Ledger] \in {p, None} /\ Writing(p) /\ ~Writing(p)'
  BY DEF Says, Acting, Writing, OnwardBy
<1>2. /\ DOMAIN cmd = Proc /\ StateTyped /\ Len(ledger) \in Nat
      /\ \A q \in Proc \ {p} : cmd'[q] = cmd[q]
  BY OthersStay DEF PlanInv, StateTyped
<1>3. /\ CommandTyped(c) /\ FilesStand(p) /\ Admitted(c) /\ c.pc # "lock"
      /\ \A u \in G : u \in Ticket
  BY <1>1, Writers
<1>4. /\ t \in Ticket /\ t \in InFile(t) /\ t \in G /\ c.from \in State /\ c.to \in State
      /\ c.before.counts \in [G -> Counts] /\ InFile(t) \subseteq G
  BY <1>3, FileParts DEF CommandTyped, ContentsOf
<1>5. entry \in Line /\ entry.ticket = t /\ entry.to = c.to
  BY <1>3, ItsLine DEF LineOf
<1> HIDE DEF entry
<1>6. \A n \in DOMAIN ledger : ledger[n] \in Line
  <2> SUFFICES ASSUME NEW n \in DOMAIN ledger, ledger[n] \notin Line PROVE FALSE
    OBVIOUS
  <2>1. PICK q \in Proc : cmd[q] # None /\ cmd[q].pc = "restore" /\ holder[Ledger] = q
    BY WhoseFragment
  <2> QED
    BY <1>1, <2>1, NoneAssumption
<1>7. /\ DOMAIN ledger' = (DOMAIN ledger) \cup {Len(ledger) + 1}
      /\ ledger'[Len(ledger) + 1] = entry
      /\ \A n \in DOMAIN ledger : ledger'[n] = ledger[n] /\ n # Len(ledger) + 1
  BY <1>1, <1>2, <1>5, <1>6, LinesOnly
<1>8. FragmentsAreUndone'
  BY <1>5, <1>6, <1>7 DEF FragmentsAreUndone
<1>9. \A u, s : u # t => MovesInto(u, s)' = MovesInto(u, s)
  <2>1. \A u : u # t => LinesOf(u)' = LinesOf(u)
    BY <1>1, <1>2, <1>5, LinesAfter
  <2> QED
    BY <2>1, SameMoves
<1>10. \A s : MovesInto(t, s)' = MovesInto(t, s) \cup (IF s = c.to THEN {Len(ledger) + 1} ELSE {})
  <2>1. LinesOf(t)' = LinesOf(t) \cup {Len(ledger) + 1}
    <3>1. \A n : n \in LinesOf(t)' <=> n \in DOMAIN ledger' /\ ledger'[n] \in Line
                                       /\ ledger'[n].ticket = t
      BY DEF LinesOf
    <3>2. \A n : n \in LinesOf(t) <=> n \in DOMAIN ledger /\ ledger[n] \in Line
                                       /\ ledger[n].ticket = t
      BY DEF LinesOf
    <3> QED
      BY <1>5, <1>7, <3>1, <3>2
  <2>2. \A n \in LinesOf(t) : ledger'[n] = ledger[n]
    BY <1>7 DEF LinesOf
  <2> QED
    BY <1>5, <1>7, <2>1, <2>2 DEF MovesInto
<1>11. /\ \A u \in G : visits'[u] = MovedCounts(c)[u] /\ plan'[u].state = plan[u].state
       /\ \A u \in G \ {t} : visits'[u] = c.before.counts[u]
       /\ visits'[t] = CountVisit(c.before.counts[t], c.from, c.to)
       /\ plan'[t].state = c.to
  <2>1. \A u \in G : visits'[u] = visits[u] /\ plan'[u].state = plan[u].state
    BY <1>1, <1>3, CountsNow, StatesOfOthers
  <2>2. \A u \in G : visits[u] = MovedCounts(c)[u]
    BY <1>1, <1>3 DEF FilesStand, CountsAre
  <2>3. plan[t].state = c.to
    BY <1>1, <1>3, <1>4, MovedIs, AssignedIs DEF FilesStand, HeadingsAre
  <2> QED
    BY <1>3, <1>4, <2>1, <2>2, <2>3, MovedIs
<1>12. /\ \A u \in G : Counted(u, c.before.counts[u])
       /\ EverEntered(c.before.counts[t], c.from)
       /\ \A u \in G \ {t} : EverEntered(c.before.counts[u], plan[u].state)
  BY <1>1 DEF CountInv
<1>13. ASSUME NEW u \in G
       PROVE  Counted(u, visits[u])' /\ EverEntered(visits'[u], plan'[u].state)
  <2>1. CASE u # t
    BY <1>9, <1>11, <1>12, <2>1 DEF Counted
  <2>2. CASE u = t
    <3> DEFINE counts == c.before.counts[t]
    <3>1. counts \in Counts
      BY <1>4
    <3>2. \A s \in State \ {Initial} : VisitLimit[s] > 0 =>
            visits'[t][s] = IF s = c.to THEN counts[s] + 1 ELSE counts[s]
      BY <1>4, <1>11, <1>12, <3>1, VisitCounted
    <3>3. \A s : Cardinality(MovesInto(t, s)') =
            Cardinality(MovesInto(t, s)) + (IF s = c.to THEN 1 ELSE 0)
      <4> TAKE s
      <4>1. IsFiniteSet(MovesInto(t, s)) /\ Len(ledger) + 1 \notin MovesInto(t, s)
        BY <1>2, LinesCounted, FS_Subset DEF MovesInto
      <4>2. Cardinality(MovesInto(t, s)) \in Nat
        BY <4>1, FS_CardinalityType
      <4>3. Cardinality(MovesInto(t, s) \cup {Len(ledger) + 1}) = Cardinality(MovesInto(t, s)) + 1
        BY <4>1, FS_AddElement
      <4>4. MovesInto(t, s)' =
              IF s = c.to THEN MovesInto(t, s) \cup {Len(ledger) + 1} ELSE MovesInto(t, s)
        BY <1>10
      <4> QED
        BY <4>2, <4>3, <4>4
    <3>4. \A s \in State \ {Initial} : VisitLimit[s] > 0 =>
            counts[s] = Cardinality(MovesInto(t, s))
      BY <1>4, <1>12 DEF Counted
    <3>5. Counted(t, visits[t])'
      <4> SUFFICES ASSUME NEW s \in State \ {Initial}, VisitLimit[s] > 0
                   PROVE  visits'[t][s] = Cardinality(MovesInto(t, s)')
        BY DEF Counted
      <4>1. counts[s] \in Nat
        BY <3>1 DEF Counts
      <4> QED
        BY <3>2, <3>3, <3>4, <4>1
    <3>6. EverEntered(visits'[t], plan'[t].state)
      <4> SUFFICES ASSUME c.to # Initial, VisitLimit[c.to] > 0 PROVE visits'[t][c.to] > 0
        BY <1>11 DEF EverEntered
      <4>1. visits'[t][c.to] = counts[c.to] + 1 /\ counts[c.to] \in Nat
        BY <1>4, <3>1, <3>2 DEF Counts
      <4> QED
        BY <4>1
    <3> QED
      BY <2>2, <3>5, <3>6
  <2> QED
    BY <2>1, <2>2
<1> QED
  BY <1>1, <1>4, <1>8, <1>9, <1>13, CountHere

\* A command that puts everything back.
LEMMA CountTakenBack ==
    ASSUME Faults \subseteq {"claim"}, PlanInv, MarkInv, CountInv, NEW p \in Proc, Step(p), Restore(p)
    PROVE  CountInv'
<1> PICK t : t = cmd[p].ticket
  OBVIOUS
<1> DEFINE c == cmd[p]
           G == InManifest(t)
<1>1. /\ c # None /\ c.pc = "restore" /\ Writing(p)
      /\ plan' = Overlay(plan, c.before.headings) /\ visits' = Overlay(visits, c.before.counts)
      /\ ledger' = IF c.kind = "claim" THEN SubSeq(ledger, 1, c.mark) ELSE ledger
  <2>1. PICK failed \in SUBSET Surfaces(c) : (failed # {} => "restore" \in Faults) /\ RestoreFiles(c, failed)
    BY DEF Restore
  <2>2. failed = {}
    BY <2>1
  <2> QED
    BY <2>1, <2>2 DEF Restore, RestoreFiles, At, Writing
<1>2. /\ CommandTyped(c) /\ Admitted(c) /\ Holds(p) /\ c.pc # "lock" /\ c.pc \in Bound
      /\ t \in Ticket /\ t \in G /\ \A u \in G : u \in Ticket
  BY <1>1, Writers
<1>3. /\ c.before.headings \in [InFile(t) -> Heading] /\ c.before.counts \in [G -> Counts]
      /\ t \in InFile(t)
  BY <1>2, FileParts DEF CommandTyped, ContentsOf
<1>4. DOMAIN cmd = Proc /\ StateTyped /\ \A q \in Proc \ {p} : cmd'[q] = cmd[q]
  BY OthersStay DEF PlanInv, StateTyped
<1>5. ~Writing(p)'
  <2>1. Return(p) \/ cmd' = [cmd EXCEPT ![p] =
          [c EXCEPT !.kind = "move", !.to = Recovery, !.pc = "lock", !.want = Locks("move", c.ticket),
                    !.before = None, !.mark = 0, !.retry = FALSE]]
    BY DEF Restore
  <2>2. CASE Return(p)
    BY <1>4, <2>2 DEF Return, Writing
  <2>3. CASE cmd' = [cmd EXCEPT ![p] =
          [c EXCEPT !.kind = "move", !.to = Recovery, !.pc = "lock", !.want = Locks("move", c.ticket),
                    !.before = None, !.mark = 0, !.retry = FALSE]]
    <3>1. cmd'[p].pc = "lock"
      BY <1>2, <1>4, <2>3 DEF CommandTyped, Fields
    <3> QED
      BY <3>1 DEF Writing
  <2> QED
    BY <2>1, <2>2, <2>3
<1>6. \A u \in G : visits'[u] = c.before.counts[u]
  BY <1>1, <1>2, <1>3, <1>4 DEF Overlay, StateTyped
<1>7. plan'[t].state = c.from
  <2>1. plan'[t] = c.before.headings[t]
    BY <1>1, <1>2, <1>3, <1>4 DEF Overlay, StateTyped
  <2> QED
    BY <1>2, <2>1 DEF Admitted
<1>8. \A u \in G \ {t} : plan'[u].state = plan[u].state
  BY <1>2, StatesOfOthers
<1>9. c.kind = "claim" => c.mark \in Nat /\ c.mark <= Len(ledger) /\ holder[Ledger] = p
  BY <1>1, <1>2 DEF MarkInv, CommandTyped, Holds
<1>10. \A u, s : MovesInto(u, s)' = MovesInto(u, s)
  <2> SUFFICES ASSUME NEW u PROVE \A s : MovesInto(u, s)' = MovesInto(u, s)
    OBVIOUS
  <2>1. CASE c.kind = "claim"
    <3>1. LinesOf(u)' \subseteq LinesOf(u)
      BY <1>1, <1>4, <1>9, <2>1, LinesLeft
    <3>2. LinesOf(u) \subseteq LinesOf(u)'
      BY LinesStay DEF LinesOf
    <3> QED
      BY <3>1, <3>2, SameMoves
  <2>2. CASE c.kind # "claim"
    BY <1>1, <2>2 DEF MovesInto, LinesOf
  <2> QED
    BY <2>1, <2>2
<1>11. FragmentsAreUndone'
  <2>1. CASE c.kind = "claim"
    <3> SUFFICES ASSUME NEW n \in DOMAIN ledger', ledger'[n] \notin Line PROVE FALSE
      BY DEF FragmentsAreUndone
    <3> DEFINE mark == c.mark
    <3>0. /\ mark \in Nat /\ mark <= Len(ledger) /\ ledger' = SubSeq(ledger, 1, mark)
          /\ ledger \in Seq(Line \cup {Fragment, Garbled})
      BY <1>1, <1>4, <1>9, <2>1 DEF StateTyped
    <3>1. /\ Len(ledger') = mark /\ ledger' \in Seq(Line \cup {Fragment, Garbled})
          /\ \A i \in 1..mark : ledger'[i] = ledger[i]
      <4> HIDE DEF mark
      <4> QED
        BY <3>0, CutIs
    <3>2. n \in 1..mark /\ mark \in Nat /\ mark <= Len(ledger) /\ Len(ledger) \in Nat
          /\ DOMAIN ledger = 1..Len(ledger)
      BY <1>4, <1>9, <2>1, <3>1 DEF StateTyped
    <3> HIDE DEF mark
    <3>3. n \in DOMAIN ledger /\ ~(n > mark)
      BY <3>2
    <3>4. ledger[n] \notin Line
      BY <3>1, <3>2
    <3>5. PICK q \in Proc : holder[Ledger] = q /\ n > cmd[q].mark
      BY <3>3, <3>4, WhoseFragment
    <3> QED
      BY <1>9, <2>1, <3>3, <3>5 DEF mark
  <2>2. CASE c.kind # "claim"
    BY <1>1, <1>4, <2>2, FragmentsElsewhere
  <2> QED
    BY <2>1, <2>2
<1>12. \A u \in G : Counted(u, visits[u])' /\ EverEntered(visits'[u], plan'[u].state)
  <2>1. /\ \A u \in G : Counted(u, c.before.counts[u])
        /\ EverEntered(c.before.counts[t], c.from)
        /\ \A u \in G \ {t} : EverEntered(c.before.counts[u], plan[u].state)
    BY <1>1 DEF CountInv
  <2> TAKE u \in G
  <2>2. Counted(u, visits[u])'
    BY <1>6, <1>10, <2>1 DEF Counted
  <2>3. EverEntered(visits'[u], plan'[u].state)
    BY <1>6, <1>7, <1>8, <2>1 DEF EverEntered
  <2> QED
    BY <2>2, <2>3
<1> QED
  BY <1>1, <1>5, <1>10, <1>11, <1>12, CountHere

LEMMA CountKept ==
    ASSUME Faults \subseteq {"claim"}, NoneIsNoCommand, PlanInv, MarkInv, CountInv,
           NEW p \in Proc, Step(p)
    PROVE  CountInv'
<1>1. CASE cmd[p] # None /\ cmd[p].pc = "write"
  <2>1. Works(p)
    BY <1>1, FromWriting DEF Says
  <2> QED
    BY <1>1, <2>1, CountBegins
<1>2. CASE Writing(p) /\ cmd[p].pc # "restore"
  <2>1. Works(p) \/ Says(p)
    BY <1>2, FromWriting DEF Writing
  <2> QED
    BY <1>2, <2>1, CountGoesOn, CountSays
<1>3. CASE cmd[p] # None /\ cmd[p].pc = "restore"
  <2>1. Restore(p)
    BY <1>3 DEF Step, Begin, StartClaim, StartTake, StartMove, StartRelease, Start, Continue,
         Acquire, Take, Drop, Refuse, Route, RefuseCharge, Charge, OpenLedger, OpenFails,
         WriteManifest, WriteTask, WriteFails, EnterAccepts, EnterFails, EnterBreaks, Assign,
         Commit, ClaimFails, Record, RecordFails, Finish, Crash, At
  <2> QED
    BY <2>1, CountTakenBack
<1>4. CASE ~Writing(p) /\ (cmd[p] # None => cmd[p].pc # "write")
  <2>1. Idles(p) \/ Breaks(p) \/ Opens(p) \/ Charges(p)
    BY <1>4, EveryStep DEF Works, Says, TakesBack, Acting, Writing, Bound, Pcs
  <2>2. ~Writing(p)'
    BY <2>1 DEF Idles, Breaks, Opens, Charges, OnwardBy, Writing
  <2>3. UNCHANGED <<visits, ledger>>
    BY <1>4 DEF Step, Begin, StartClaim, StartTake, StartMove, StartRelease, Start, Continue,
         Acquire, Take, Drop, Finish, WriteManifest, WriteTask, Assign, Refuse, Route,
         RefuseCharge, Charge, OpenLedger, OpenFails, WriteFails, EnterAccepts, EnterFails,
         EnterBreaks, Commit, ClaimFails, Restore, Record, RecordFails, Crash, files, At, Writing
  <2>4. \A t \in Ticket : plan'[t].state = plan[t].state
    BY <1>4, StatesOfOthers DEF Writing
  <2>5. \A q \in Proc \ {p} : cmd'[q] = cmd[q]
    BY OthersStay DEF PlanInv, StateTyped
  <2> QED
    BY <1>4, <2>2, <2>3, <2>4, <2>5, CountIdle
<1> QED
  BY <1>1, <1>2, <1>3, <1>4 DEF Writing

LEMMA CountInvariant ==
    ASSUME Faults \subseteq {"claim"}, NoneIsNoCommand
    PROVE  TransitionSpec => []CountInv
<1>1. Init => CountInv
  <2> SUFFICES ASSUME Init PROVE CountInv
    OBVIOUS
  <2>1. DOMAIN ledger = {} /\ \A p \in Proc : ~Writing(p)
    BY DEF Init, Writing
  <2>2. \A t, s : Cardinality(MovesInto(t, s)) = 0
    <3>1. \A t, s : MovesInto(t, s) = {}
      BY <2>1 DEF MovesInto, LinesOf
    <3> QED
      BY <3>1, FS_EmptySet
  <2>3. \A t \in Ticket : plan[t].state = Initial /\ \A s \in State : visits[t][s] = 0
    BY DEF Init
  <2> QED
    BY <2>1, <2>2, <2>3 DEF CountInv, FragmentsAreUndone, Counted, EverEntered
<1>2. PlanInv /\ MarkInv /\ CountInv /\ [Next]_vars => CountInv'
  <2> SUFFICES ASSUME PlanInv, MarkInv, CountInv, [Next]_vars PROVE CountInv'
    OBVIOUS
  <2>1. CASE UNCHANGED vars
    <3>1. UNCHANGED <<plan, visits, ledger, cmd>>
      BY <2>1 DEF vars, files
    <3> QED
      BY <3>1 DEF CountInv, FragmentsAreUndone, Settled, Writing, Counted, EverEntered, MovesInto, LinesOf
  <2>2. CASE \E p \in Proc : Step(p)
    BY <2>2, CountKept
  <2> QED
    BY <2>1, <2>2 DEF Next, Rest, Step
<1> QED
  BY <1>1, <1>2, PlanInvariant, PTL DEF TransitionSpec

\* Where nothing fails but callbacks and claims, the counter that decides about
\* loops is the number of moves in the history whenever nobody is writing: a
\* claim that is taken back leaves its counter, its heading and its line as
\* they were (claim_transaction.rs), an ordinary move its counter and heading.
THEOREM VisitsAreInTheHistory ==
    ASSUME Faults \subseteq {"claim"}, NoneIsNoCommand
    PROVE  TransitionSpec => []VisitsMatchLedger
<1>1. PlanInv /\ CountInv => VisitsMatchLedger
  <2> SUFFICES ASSUME PlanInv, CountInv, NEW t \in Ticket, NEW s \in State \ {Initial},
                      VisitLimit[s] > 0, holder[Manifest[t]] = None
               PROVE  visits[t][s] = Cardinality(MovesInto(t, s))
    BY DEF VisitsMatchLedger
  <2>1. Settled(t)
    BY Writers, NoneAssumption DEF Settled
  <2> QED
    BY <2>1 DEF CountInv, Counted
<1> QED
  BY <1>1, PlanInvariant, CountInvariant, PTL

-----------------------------------------------------------------------------
(* The moves are atomic: what TicketMoves sees of the plan, one step at a  *)
(* time.                                                                   *)

\* A command whose writes do not count yet, and one that clears up behind its
\* line.
Hidden(c, t) ==
    c # None /\ c.ticket = t /\ c.pc \in {"enter", "assign", "commit", "record", "restore"}

Shut(c, t) == c # None /\ c.pc = "finish" /\ c.ticket = t /\ Ends(c.to)

Seen(headings, commands, t) ==
    LET undone == {p \in Proc : Hidden(commands[p], t)}
        found == IF undone = {} THEN headings[t]
                 ELSE commands[CHOOSE p \in undone : TRUE].before.headings[t]
    IN [state |-> found.state,
        owner |-> IF \E p \in Proc : Shut(commands[p], t) THEN None ELSE found.assignee]

LEMMA ViewIsSeen ==
    /\ View = [t \in Ticket |-> Seen(plan, cmd, t)]
    /\ View' = [t \in Ticket |-> Seen(plan', cmd', t)]
<1>1. \A p, t : (Hidden(cmd[p], t) <=> Provisional(p, t)) /\ (Shut(cmd[p], t) <=> Closing(p, t))
  BY DEF Hidden, Provisional, Shut, Closing, At
<1>2. \A p, t : (Hidden(cmd'[p], t) <=> Provisional(p, t)') /\ (Shut(cmd'[p], t) <=> Closing(p, t)')
  BY DEF Hidden, Provisional, Shut, Closing, At
<1>3. \A t : {p \in Proc : Hidden(cmd[p], t)} = {p \in Proc : Provisional(p, t)}
  BY <1>1
<1>4. \A t : {p \in Proc : Hidden(cmd'[p], t)} = {p \in Proc : Provisional(p, t)'}
  BY <1>2
<1>5. \A t \in Ticket : View[t] = Seen(plan, cmd, t)
  <2> TAKE t \in Ticket
  <2> DEFINE there(undone) == IF undone = {} THEN plan[t]
                              ELSE cmd[CHOOSE p \in undone : TRUE].before.headings[t]
             look(undone, closed) ==
               [state |-> there(undone).state, owner |-> IF closed THEN None ELSE there(undone).assignee]
  <2>1. View[t] = look({p \in Proc : Provisional(p, t)}, \E p \in Proc : Closing(p, t))
    BY DEF View
  <2>2. Seen(plan, cmd, t) = look({p \in Proc : Hidden(cmd[p], t)}, \E p \in Proc : Shut(cmd[p], t))
    BY DEF Seen
  <2>3. (\E p \in Proc : Closing(p, t)) <=> \E p \in Proc : Shut(cmd[p], t)
    BY <1>1
  <2> HIDE DEF there
  <2> QED
    BY <1>3, <2>1, <2>2, <2>3
<1>6. \A t \in Ticket : View'[t] = Seen(plan', cmd', t)
  <2> TAKE t \in Ticket
  <2> DEFINE there(undone) == IF undone = {} THEN plan'[t]
                              ELSE cmd'[CHOOSE p \in undone : TRUE].before.headings[t]
             look(undone, closed) ==
               [state |-> there(undone).state, owner |-> IF closed THEN None ELSE there(undone).assignee]
  <2>1. View'[t] = look({p \in Proc : Provisional(p, t)'}, \E p \in Proc : Closing(p, t)')
    BY DEF View
  <2>2. Seen(plan', cmd', t) = look({p \in Proc : Hidden(cmd'[p], t)}, \E p \in Proc : Shut(cmd'[p], t))
    BY DEF Seen
  <2>3. (\E p \in Proc : Closing(p, t)') <=> \E p \in Proc : Shut(cmd'[p], t)
    BY <1>2
  <2> HIDE DEF there
  <2> QED
    BY <1>4, <2>1, <2>2, <2>3
<1> QED
  BY <1>5, <1>6 DEF View

\* Nobody is in the middle of a ticket: what is seen is what is there.
LEMMA SeenAsItIs ==
    ASSUME NEW headings, NEW commands, NEW t,
           \A p \in Proc : ~Hidden(commands[p], t) /\ ~Shut(commands[p], t)
    PROVE  Seen(headings, commands, t) = [state |-> headings[t].state, owner |-> headings[t].assignee]
<1>1. {p \in Proc : Hidden(commands[p], t)} = {}
  OBVIOUS
<1> QED
  BY <1>1 DEF Seen

\* One command is: what is seen is what it found there.
LEMMA SeenAsItWas ==
    ASSUME NEW headings, NEW commands, NEW t, NEW p \in Proc, Hidden(commands[p], t),
           \A q \in Proc \ {p} : ~Hidden(commands[q], t) /\ ~Shut(commands[q], t)
    PROVE  Seen(headings, commands, t) =
             [state |-> commands[p].before.headings[t].state,
              owner |-> commands[p].before.headings[t].assignee]
<1> DEFINE undone == {q \in Proc : Hidden(commands[q], t)}
<1>1. undone = {p}
  OBVIOUS
<1>2. (CHOOSE q \in undone : TRUE) = p
  BY <1>1
<1>3. \A q \in Proc : ~Shut(commands[q], t)
  BY DEF Hidden, Shut
<1>4. Seen(headings, commands, t) =
        [state |-> commands[CHOOSE q \in undone : TRUE].before.headings[t].state,
         owner |-> commands[CHOOSE q \in undone : TRUE].before.headings[t].assignee]
  BY <1>1, <1>3 DEF Seen
<1> QED
  BY <1>2, <1>4

\* One command clears up behind the end of a ticket.
LEMMA SeenClosed ==
    ASSUME NEW headings, NEW commands, NEW t, NEW p \in Proc, Shut(commands[p], t),
           \A q \in Proc \ {p} : ~Hidden(commands[q], t) /\ ~Shut(commands[q], t)
    PROVE  Seen(headings, commands, t) = [state |-> headings[t].state, owner |-> None]
<1>1. {q \in Proc : Hidden(commands[q], t)} = {}
  BY DEF Hidden, Shut
<1> QED
  BY <1>1 DEF Seen

\* A ticket whose heading stays and that nobody enters or leaves.
LEMMA SeenTheSame ==
    ASSUME NEW headings, NEW after, NEW commands, NEW next, NEW t, after[t] = headings[t],
           \A p \in Proc : /\ Hidden(next[p], t) <=> Hidden(commands[p], t)
                           /\ Shut(next[p], t) <=> Shut(commands[p], t)
                           /\ Hidden(commands[p], t) => next[p].before = commands[p].before
    PROVE  Seen(after, next, t) = Seen(headings, commands, t)
<1> DEFINE undone == {p \in Proc : Hidden(commands[p], t)}
           found(c) == c.before.headings[t]
<1>1. undone = {p \in Proc : Hidden(next[p], t)}
  OBVIOUS
<1>2. undone # {} => next[CHOOSE p \in undone : TRUE].before = commands[CHOOSE p \in undone : TRUE].before
  OBVIOUS
<1> QED
  BY <1>1, <1>2 DEF Seen

\* Nobody else is in the middle of the ticket of a command that has its locks.
LEMMA OthersAreElsewhere ==
    ASSUME PlanInv, NEW p \in Proc, cmd[p] # None, cmd[p].pc # "lock",
           \A q \in Proc \ {p} : cmd'[q] = cmd[q]
    PROVE  \A q \in Proc \ {p} :
             /\ ~Hidden(cmd[q], cmd[p].ticket) /\ ~Shut(cmd[q], cmd[p].ticket)
             /\ ~Hidden(cmd'[q], cmd[p].ticket) /\ ~Shut(cmd'[q], cmd[p].ticket)
<1> SUFFICES ASSUME NEW q \in Proc \ {p}
             PROVE  ~Hidden(cmd[q], cmd[p].ticket) /\ ~Shut(cmd[q], cmd[p].ticket)
  OBVIOUS
<1> QED
  BY OneAtATicket DEF Hidden, Shut

LEMMA HeadingsOfOthers ==
    ASSUME PlanInv, NEW p \in Proc, Step(p), NEW t \in Ticket, plan'[t] # plan[t]
    PROVE  /\ cmd[p] # None /\ t = cmd[p].ticket
           /\ cmd[p].pc \in {"take", "drop", "finish", "write", "place", "assign", "restore"}
<1> DEFINE c == cmd[p]
<1>1. Process(p) /\ StateTyped
  BY DEF PlanInv
<1>2. UNCHANGED plan \/ Take(p) \/ Drop(p) \/ Finish(p)
      \/ WriteManifest(p) \/ WriteTask(p) \/ Assign(p) \/ Restore(p)
  BY DEF Step, Begin, StartClaim, StartTake, StartMove, StartRelease, Start, Continue, Acquire,
         Refuse, Route, RefuseCharge, Charge, OpenLedger, OpenFails, WriteFails, EnterAccepts,
         EnterFails, EnterBreaks, Commit, ClaimFails, Record, RecordFails, Crash, files
<1>3. CASE Take(p) \/ Drop(p) \/ Finish(p)
  <2>1. c # None /\ c.pc \in {"take", "drop", "finish"} /\ c.ticket \in Ticket
    BY <1>1, <1>3 DEF Take, Drop, Finish, At, Process, CommandTyped
  <2>2. PICK owner \in Proc \cup {None} :
          \/ plan' = [plan EXCEPT ![c.ticket].assignee = owner]
          \/ plan' = [plan EXCEPT ![c.ticket].assignee = owner, ![c.ticket].link = TRUE]
    BY <1>3 DEF Take, Drop, Finish
  <2>3. \A u \in Ticket : u # c.ticket => plan'[u] = plan[u]
    BY <2>1, <2>2, OwnerChanges
  <2> QED
    BY <2>1, <2>3
<1>4. CASE WriteManifest(p) \/ WriteTask(p) \/ Assign(p) \/ Restore(p)
  <2>1. /\ c # None /\ c.pc \in {"write", "place", "assign", "restore"}
        /\ c.pc # "lock" /\ c.pc \in Bound
    BY <1>4 DEF WriteManifest, WriteTask, Assign, Restore, At, Bound, Pcs
  <2>2. CommandTyped(c) /\ FilesStand(p)
    BY <1>1, <2>1 DEF Process
  <2>3. PICK part \in {c.before.headings, MovedHeadings(c), AssignedHeadings(p)} :
          plan' = Overlay(plan, part)
    BY <1>4 DEF WriteManifest, WriteTask, Assign, Restore, RestoreFiles, AssignedHeadings, At
  <2>4. part \in [InFile(c.ticket) -> Heading]
    BY <2>1, <2>2, MovedIs, AssignedIs DEF CommandTyped, ContentsOf
  <2>5. plan'[t] = IF t \in InFile(c.ticket) THEN part[t] ELSE plan[t]
    BY <1>1, <2>3, <2>4 DEF Overlay, StateTyped
  <2>6. \A u \in InFile(c.ticket) \ {c.ticket} :
          /\ MovedHeadings(c)[u] = c.before.headings[u]
          /\ AssignedHeadings(p)[u] = c.before.headings[u]
    BY <2>1, <2>2, MovedIs, AssignedIs
  <2>7. \A u \in InFile(c.ticket) \ {c.ticket} : plan[u] = c.before.headings[u]
    BY <2>1, <2>2, <2>6 DEF FilesStand, HeadingsAre
  <2> QED
    BY <2>1, <2>5, <2>6, <2>7
<1> QED
  BY <1>2, <1>3, <1>4

\* Tickets that a command is not about look as before.
LEMMA SeenElsewhere ==
    ASSUME PlanInv, NEW p \in Proc, Step(p), NEW t \in Ticket, cmd[p] # None => cmd[p].ticket # t
    PROVE  Seen(plan', cmd', t) = Seen(plan, cmd, t)
<1>1. plan'[t] = plan[t]
  BY HeadingsOfOthers
<1>2. \A q \in Proc \ {p} : cmd'[q] = cmd[q]
  BY OthersStay DEF PlanInv, StateTyped
<1>3. ~Hidden(cmd[p], t) /\ ~Shut(cmd[p], t)
  BY DEF Hidden, Shut
<1>4. ~Hidden(cmd'[p], t) /\ ~Shut(cmd'[p], t)
  <2>1. CASE cmd'[p] = None
    BY <2>1 DEF Hidden, Shut
  <2>2. CASE cmd'[p] # None
    BY <2>2, WhereNow DEF Hidden, Shut, OnwardBy, SameMind
  <2> QED
    BY <2>1, <2>2
<1>5. \A q \in Proc : /\ Hidden(cmd'[q], t) <=> Hidden(cmd[q], t)
                      /\ Shut(cmd'[q], t) <=> Shut(cmd[q], t)
                      /\ Hidden(cmd[q], t) => cmd'[q].before = cmd[q].before
  BY <1>2, <1>3, <1>4
<1> QED
  BY <1>1, <1>5, SeenTheSame

\* A step shows in its own ticket, or not at all.
LEMMA ViewAfter ==
    ASSUME PlanInv, NEW p \in Proc, Step(p)
    PROVE  /\ cmd[p] = None => View' = View
           /\ cmd[p] # None /\ cmd[p].ticket \in Ticket =>
                /\ View[cmd[p].ticket] = Seen(plan, cmd, cmd[p].ticket)
                /\ View' = [View EXCEPT ![cmd[p].ticket] = Seen(plan', cmd', cmd[p].ticket)]
<1>1. /\ View = [t \in Ticket |-> Seen(plan, cmd, t)]
      /\ View' = [t \in Ticket |-> Seen(plan', cmd', t)]
  BY ViewIsSeen
<1>2. \A t \in Ticket : (cmd[p] # None => cmd[p].ticket # t) =>
        Seen(plan', cmd', t) = Seen(plan, cmd, t)
  BY SeenElsewhere
<1>3. CASE cmd[p] = None
  BY <1>1, <1>2, <1>3
<1>4. CASE cmd[p] # None /\ cmd[p].ticket \in Ticket
  BY <1>1, <1>2, <1>4
<1> QED
  BY <1>3, <1>4

\* What a command can do where only callbacks and claims fail.
LEMMA WithoutFaults ==
    ASSUME Faults \subseteq {"claim"}, NEW p \in Proc, Step(p), cmd[p] # None
    PROVE  \/ Acquire(p) \/ Take(p) \/ Drop(p)
           \/ Refuse(p) \/ Route(p) \/ RefuseCharge(p) \/ Charge(p)
           \/ OpenLedger(p) \/ OpenFails(p) \/ WriteManifest(p) \/ WriteTask(p)
           \/ EnterAccepts(p) \/ EnterFails(p) \/ Assign(p) \/ Commit(p) \/ ClaimFails(p)
           \/ Restore(p) \/ Record(p) \/ Finish(p)
BY DEF Step, Begin, StartClaim, StartTake, StartMove, StartRelease, Start, Continue,
     WriteFails, EnterBreaks, RecordFails, Crash

LEMMA BeginsUnseen ==
    ASSUME PlanInv, NEW p \in Proc, Step(p), cmd[p] = None
    PROVE  View' = View /\ UNCHANGED ledger
<1>1. View' = View
  BY ViewAfter
<1>2. UNCHANGED ledger
  BY DEF Step, Begin, StartClaim, StartTake, StartMove, StartRelease, Start, Continue, Acquire,
     Take, Drop, Refuse, Route, RefuseCharge, Charge, OpenLedger, OpenFails, WriteManifest,
     WriteTask, WriteFails, EnterAccepts, EnterFails, EnterBreaks, Assign, Commit, ClaimFails,
     Restore, Record, RecordFails, Finish, Crash, At, files
<1> QED
  BY <1>1, <1>2

LEMMA PreparesUnseen ==
    ASSUME PlanInv, NEW p \in Proc, Step(p), cmd[p] # None,
           \/ Acquire(p) \/ Refuse(p) \/ Route(p) \/ RefuseCharge(p) \/ Charge(p)
           \/ OpenLedger(p) \/ OpenFails(p)
    PROVE  View' = View /\ UNCHANGED ledger
<1> DEFINE t == cmd[p].ticket
<1>1. /\ t \in Ticket /\ StateTyped /\ CommandTyped(cmd[p])
      /\ cmd[p].pc \in {"lock", "check", "charge", "open"}
  BY DEF PlanInv, Process, CommandTyped, Acquire, Refuse, Route, RefuseCharge, Charge,
         OpenLedger, OpenFails, At
<1>2. UNCHANGED <<plan, ledger>>
  BY DEF Acquire, Refuse, Route, RefuseCharge, Charge, OpenLedger, OpenFails, files
<1>3. \A q \in Proc \ {p} : cmd'[q] = cmd[q]
  BY <1>1, OthersStay DEF StateTyped
<1>4. cmd'[p] = None \/ cmd'[p].pc \in {"lock", "check", "take", "drop", "charge", "open", "write"}
  <2>1. CASE Acquire(p) \/ Route(p)
    <3>1. Acquire(p) => cmd'[p].pc \in {"lock", FirstStep(cmd[p].kind)}
      BY AcquireIs
    <3>2. FirstStep(cmd[p].kind) \in {"check", "take", "drop"}
      BY <1>1 DEF FirstStep, CommandTyped, Kinds
    <3>3. Route(p) => cmd'[p].pc = "charge"
      BY <1>1 DEF Route, StateTyped, CommandTyped, Fields
    <3> QED
      BY <2>1, <3>1, <3>2, <3>3
  <2>2. CASE Refuse(p) \/ RefuseCharge(p) \/ OpenFails(p)
    BY <1>1, <2>2, ReturnIs DEF Refuse, RefuseCharge, OpenFails
  <2>3. CASE Charge(p)
    <3>1. PICK pc \in {"open", "write"} : Goto(p, pc)
      BY <2>3 DEF Charge
    <3> QED
      BY <1>1, <3>1, GotoIs DEF StateTyped
  <2>4. CASE OpenLedger(p)
    BY <2>4, OpenLedgerIs DEF OnwardBy
  <2> QED
    BY <2>1, <2>2, <2>3, <2>4
<1>5. /\ ~Hidden(cmd[p], t) /\ ~Shut(cmd[p], t)
      /\ ~Hidden(cmd'[p], t) /\ ~Shut(cmd'[p], t)
  BY <1>1, <1>4 DEF Hidden, Shut
<1>6. \A q \in Proc : /\ Hidden(cmd'[q], t) <=> Hidden(cmd[q], t)
                      /\ Shut(cmd'[q], t) <=> Shut(cmd[q], t)
                      /\ Hidden(cmd[q], t) => cmd'[q].before = cmd[q].before
  BY <1>3, <1>5
<1>7. Seen(plan', cmd', t) = Seen(plan, cmd, t)
  BY <1>2, <1>6, SeenTheSame
<1>8. View' = [View EXCEPT ![t] = View[t]]
  BY <1>1, <1>7, ViewAfter
<1> QED
  BY <1>2, <1>8, ViewIsSeen

\* What is seen of a ticket of a command that has its locks, before and after.
LEMMA SeenAtWork ==
    ASSUME PlanInv, NEW p \in Proc, Step(p), cmd[p] # None, cmd[p].pc # "lock"
    PROVE  LET c == cmd[p]
               d == cmd'[p]
               t == c.ticket
           IN  /\ t \in Ticket
               /\ Hidden(c, t) => View[t] = [state |-> c.before.headings[t].state,
                                             owner |-> c.before.headings[t].assignee]
               /\ Shut(c, t) => View[t] = [state |-> plan[t].state, owner |-> None]
               /\ ~Hidden(c, t) /\ ~Shut(c, t) =>
                    View[t] = [state |-> plan[t].state, owner |-> plan[t].assignee]
               /\ Hidden(d, t) => View' = [View EXCEPT ![t] = [state |-> d.before.headings[t].state,
                                                               owner |-> d.before.headings[t].assignee]]
               /\ Shut(d, t) => View' = [View EXCEPT ![t] = [state |-> plan'[t].state, owner |-> None]]
               /\ ~Hidden(d, t) /\ ~Shut(d, t) =>
                    View' = [View EXCEPT ![t] = [state |-> plan'[t].state,
                                                 owner |-> plan'[t].assignee]]
<1> DEFINE t == cmd[p].ticket
<1>1. StateTyped /\ CommandTyped(cmd[p]) /\ t \in Ticket
  BY DEF PlanInv, Process, CommandTyped
<1>2. \A q \in Proc \ {p} : cmd'[q] = cmd[q]
  BY <1>1, OthersStay DEF StateTyped
<1>3. \A q \in Proc \ {p} : /\ ~Hidden(cmd[q], t) /\ ~Shut(cmd[q], t)
                            /\ ~Hidden(cmd'[q], t) /\ ~Shut(cmd'[q], t)
  BY <1>2, OthersAreElsewhere
<1>4. View[t] = Seen(plan, cmd, t) /\ View' = [View EXCEPT ![t] = Seen(plan', cmd', t)]
  BY <1>1, ViewAfter
<1> HIDE DEF t
<1>5. Hidden(cmd[p], t) => View[t] = [state |-> cmd[p].before.headings[t].state,
                                      owner |-> cmd[p].before.headings[t].assignee]
  BY <1>3, <1>4, SeenAsItWas
<1>6. Shut(cmd[p], t) => View[t] = [state |-> plan[t].state, owner |-> None]
  BY <1>3, <1>4, SeenClosed
<1>7. ~Hidden(cmd[p], t) /\ ~Shut(cmd[p], t) =>
        View[t] = [state |-> plan[t].state, owner |-> plan[t].assignee]
  BY <1>3, <1>4, SeenAsItIs
<1>8. Hidden(cmd'[p], t) =>
        Seen(plan', cmd', t) = [state |-> cmd'[p].before.headings[t].state,
                                owner |-> cmd'[p].before.headings[t].assignee]
  <2> DEFINE d == cmd'
             h == plan'
  <2>1. \A q \in Proc \ {p} : ~Hidden(d[q], t) /\ ~Shut(d[q], t)
    BY <1>3
  <2> HIDE DEF d, h
  <2>2. Hidden(d[p], t) => Seen(h, d, t) = [state |-> d[p].before.headings[t].state,
                                            owner |-> d[p].before.headings[t].assignee]
    BY <2>1, SeenAsItWas
  <2> QED
    BY <2>2 DEF d, h
<1>9. Shut(cmd'[p], t) => Seen(plan', cmd', t) = [state |-> plan'[t].state, owner |-> None]
  BY <1>3, SeenClosed
<1>10. ~Hidden(cmd'[p], t) /\ ~Shut(cmd'[p], t) =>
         Seen(plan', cmd', t) = [state |-> plan'[t].state, owner |-> plan'[t].assignee]
  BY <1>3, SeenAsItIs
<1> QED
  BY <1>1, <1>4, <1>5, <1>6, <1>7, <1>8, <1>9, <1>10 DEF t

\* The first write hides behind what the command found, and what follows it
\* stays there.
LEMMA WritesUnseen ==
    ASSUME NoneIsNoCommand, PlanInv, NEW p \in Proc, Step(p), cmd[p] # None,
           \/ WriteManifest(p) \/ WriteTask(p) \/ EnterAccepts(p) \/ EnterFails(p)
           \/ Assign(p) \/ ClaimFails(p)
    PROVE  View' = View
<1> DEFINE c == cmd[p]
           t == c.ticket
<1>1. /\ c.pc \in {"write", "place", "enter", "assign", "commit"} /\ c.pc # "lock"
      /\ StateTyped /\ CommandTyped(c) /\ FilesStand(p)
  BY DEF PlanInv, Process, WriteManifest, WriteTask, EnterAccepts, EnterFails, Assign, ClaimFails, At
<1>2. PICK pc \in {"place", "enter", "assign", "commit", "restore", "record"} :
        OnwardBy(p, pc) /\ (pc = "place" => UNCHANGED plan /\ c.pc = "write")
  <2>1. CASE EnterFails(p)
    BY <2>1, EnterFailsIs
  <2>2. CASE WriteManifest(p) \/ WriteTask(p) \/ EnterAccepts(p) \/ Assign(p) \/ ClaimFails(p)
    <3>1. PICK pc \in {"place", "enter", "assign", "commit", "restore", "record"} :
            Goto(p, pc) /\ (pc = "place" => UNCHANGED plan /\ c.pc = "write")
      BY <2>2 DEF WriteManifest, WriteTask, EnterAccepts, Assign, ClaimFails, Written, Entered, At
    <3> QED
      BY <3>1, GotoIsOnward
  <2> QED
    BY <2>1, <2>2
<1>3. /\ cmd'[p].pc = pc /\ cmd'[p] # None /\ cmd'[p].ticket = t /\ cmd'[p].before = c.before
  BY <1>2 DEF OnwardBy, SameMind, NoneIsNoCommand
<1>4. /\ ~Shut(c, t) /\ ~Shut(cmd'[p], t)
      /\ Hidden(c, t) <=> c.pc \notin {"write", "place"}
      /\ Hidden(cmd'[p], t) <=> pc # "place"
  BY <1>1, <1>3 DEF Hidden, Shut
<1>5. t \in InFile(t)
  BY <1>1, FileParts DEF CommandTyped
<1>6. c.pc \in {"write", "place"} => plan[t] = c.before.headings[t]
  BY <1>1, <1>5 DEF FilesStand, HeadingsAre
<1>7. t \in Ticket /\ View' = [View EXCEPT ![t] = View[t]]
  <2>1. CASE pc = "place"
    <3>1. ~Hidden(c, t) /\ ~Shut(c, t) /\ ~Hidden(cmd'[p], t) /\ ~Shut(cmd'[p], t)
      BY <1>2, <1>4, <2>1
    <3>2. t \in Ticket /\ View[t] = [state |-> plan[t].state, owner |-> plan[t].assignee]
      BY <1>1, <3>1, SeenAtWork
    <3>3. View' = [View EXCEPT ![t] = [state |-> plan'[t].state, owner |-> plan'[t].assignee]]
      BY <1>1, <3>1, SeenAtWork
    <3> QED
      BY <1>2, <2>1, <3>2, <3>3
  <2>2. CASE pc # "place"
    <3> DEFINE found == [state |-> c.before.headings[t].state,
                         owner |-> c.before.headings[t].assignee]
    <3>1. t \in Ticket /\ View[t] = found
      BY <1>1, <1>4, <1>6, SeenAtWork
    <3>2. View' = [View EXCEPT ![t] = found]
      BY <1>1, <1>3, <1>4, <2>2, SeenAtWork
    <3> QED
      BY <3>1, <3>2
  <2> QED
    BY <2>1, <2>2
<1> QED
  BY <1>7, ViewIsSeen

\* What a failed command puts back is what was seen all along.
LEMMA RestoresUnseen ==
    ASSUME Faults \subseteq {"claim"}, PlanInv, NEW p \in Proc, Step(p), cmd[p] # None, Restore(p)
    PROVE  View' = View
<1> DEFINE c == cmd[p]
           t == c.ticket
<1>1. c.pc = "restore" /\ StateTyped /\ CommandTyped(c)
  BY DEF PlanInv, Process, Restore, At
<1>2. plan' = Overlay(plan, c.before.headings)
  BY DEF Restore, RestoreFiles
<1>3. cmd'[p] = None \/ cmd'[p].pc = "lock"
  <2>1. Return(p) \/ cmd' = [cmd EXCEPT ![p] =
          [c EXCEPT !.kind = "move", !.to = Recovery, !.pc = "lock", !.want = Locks("move", c.ticket),
                    !.before = None, !.mark = 0, !.retry = FALSE]]
    BY DEF Restore
  <2>2. CASE Return(p)
    BY <1>1, <2>2 DEF Return, StateTyped
  <2>3. CASE cmd' = [cmd EXCEPT ![p] =
          [c EXCEPT !.kind = "move", !.to = Recovery, !.pc = "lock", !.want = Locks("move", c.ticket),
                    !.before = None, !.mark = 0, !.retry = FALSE]]
    BY <1>1, <2>3 DEF StateTyped, CommandTyped, Fields
  <2> QED
    BY <2>1, <2>2, <2>3
<1>4. Hidden(c, t) /\ ~Hidden(cmd'[p], t) /\ ~Shut(cmd'[p], t)
  BY <1>1, <1>3 DEF Hidden, Shut
<1>5. t \in Ticket /\ t \in InFile(t) /\ c.before.headings \in [InFile(t) -> Heading]
  BY <1>1, FileParts DEF CommandTyped, ContentsOf
<1>6. plan'[t] = c.before.headings[t]
  BY <1>1, <1>2, <1>5 DEF Overlay, StateTyped
<1>7. View' = [View EXCEPT ![t] = View[t]]
  <2> DEFINE found == [state |-> c.before.headings[t].state,
                       owner |-> c.before.headings[t].assignee]
  <2>1. View[t] = found
    BY <1>1, <1>4, SeenAtWork
  <2>2. View' = [View EXCEPT ![t] = found]
    BY <1>1, <1>4, <1>6, SeenAtWork
  <2> QED
    BY <2>1, <2>2
<1> QED
  BY <1>5, <1>7, ViewIsSeen

-----------------------------------------------------------------------------
(* The history is what the ledger has of whole lines.                      *)

LEMMA HistoryStays ==
    ASSUME PlanInv, MarkInv, NEW p \in Proc, Step(p), StateTyped',
           \A n \in DOMAIN ledger' : ledger'[n] \in Line => n \in DOMAIN ledger /\ ledger[n] \in Line
    PROVE  History' = History
<1> DEFINE X == Line \cup {Fragment, Garbled}
<1>1. ledger \in Seq(X) /\ ledger' \in Seq(X)
  BY DEF PlanInv, StateTyped
<1>2. \A n \in DOMAIN ledger : ledger[n] \in Line => n \in DOMAIN ledger' /\ ledger'[n] = ledger[n]
  BY LinesStay
<1>3. Places(ledger, Line) = Places(ledger', Line)
  BY <1>2 DEF Places
<1>4. \A n \in Places(ledger, Line) : ledger[n] = ledger'[n]
  BY <1>2 DEF Places
<1> HIDE DEF X
<1>5. Kept(ledger, Line) = Kept(ledger', Line)
  BY <1>1, <1>3, <1>4, KeptFromPlaces
<1> QED
  BY <1>5 DEF History

\* A line that was cut short is none of the history's.
LEMMA FragmentsUnread ==
    ASSUME PlanInv, MarkInv, NEW p \in Proc, Step(p), StateTyped',
           ledger' = Extend(ledger, Fragment)
    PROVE  History' = History
<1> DEFINE k == Len(ledger)
           m == Len(ledger')
<1>1. /\ ledger \in Seq(Line \cup {Fragment, Garbled})
      /\ ledger' \in Seq(Line \cup {Fragment, Garbled})
      /\ Fragment \notin Line
  BY PlanAssumption DEF PlanInv, StateTyped, Line
<1>2. k \in Nat /\ DOMAIN ledger = 1..k /\ m \in Nat /\ DOMAIN ledger' = 1..m
  BY <1>1
<1>3. \/ m = k + 1 /\ ledger'[k + 1] = Fragment /\ \A n \in 1..k : ledger'[n] = ledger[n]
      \/ /\ k > 0 /\ m = k /\ ledger'[k] \notin Line
         /\ \A n \in 1..(k - 1) : ledger'[n] = ledger[n]
  BY <1>1, ExtendIs
<1> HIDE DEF k, m
<1>4. ASSUME NEW n \in DOMAIN ledger', ledger'[n] \in Line
      PROVE  n \in DOMAIN ledger /\ ledger[n] \in Line
  <2>1. Fragment \notin Line
    BY <1>1
  <2>2. n \in 1..m
    BY <1>2
  <2>3. CASE m = k + 1 /\ ledger'[k + 1] = Fragment /\ \A i \in 1..k : ledger'[i] = ledger[i]
    <3>1. n # k + 1
      BY <1>4, <2>1, <2>3
    <3>2. n \in 1..k
      BY <1>2, <2>2, <2>3, <3>1
    <3> QED
      BY <1>2, <1>4, <2>3, <3>2
  <2>4. CASE m = k /\ ledger'[k] \notin Line /\ \A i \in 1..(k - 1) : ledger'[i] = ledger[i]
    <3>1. n # k
      BY <1>4, <2>4
    <3>2. n \in 1..k /\ n \in 1..(k - 1)
      BY <1>2, <2>2, <2>4, <3>1
    <3> QED
      BY <1>2, <1>4, <2>4, <3>2
  <2> QED
    BY <1>3, <2>3, <2>4
<1> QED
  BY <1>4, HistoryStays

\* Nor is anything of what a claim cuts off.
LEMMA CutUnread ==
    ASSUME PlanInv, MarkInv, NEW p \in Proc, Step(p), StateTyped', NEW m \in Nat, m <= Len(ledger),
           ledger' = SubSeq(ledger, 1, m)
    PROVE  History' = History
<1>1. ledger \in Seq(Line \cup {Fragment, Garbled})
  BY DEF PlanInv, StateTyped
<1>2. /\ ledger' \in Seq(Line \cup {Fragment, Garbled}) /\ Len(ledger') = m
      /\ \A n \in 1..m : ledger'[n] = ledger[n]
  BY <1>1, CutIs
<1>3. DOMAIN ledger' = 1..m /\ 1..m \subseteq DOMAIN ledger
  BY <1>1, <1>2
<1> QED
  BY <1>2, <1>3, HistoryStays

LEMMA HistoryGrows ==
    ASSUME StateTyped, \A n \in DOMAIN ledger : ledger[n] \in Line,
           NEW entry \in Line, ledger' = Extend(ledger, entry), StateTyped'
    PROVE  History' = Append(History, entry)
<1> DEFINE X == Line \cup {Fragment, Garbled}
           k == Len(ledger)
<1>1. ledger \in Seq(X) /\ ledger' \in Seq(X) /\ k \in Nat
  BY DEF StateTyped
<1>2. /\ DOMAIN ledger' = (DOMAIN ledger) \cup {k + 1}
      /\ ledger'[k + 1] = entry
      /\ \A n \in DOMAIN ledger : ledger'[n] = ledger[n] /\ n # k + 1
  BY LinesOnly
<1>3. k + 1 \in 1..Len(ledger') /\ DOMAIN ledger = 1..k
  BY <1>1, <1>2
<1>4. Places(ledger', Line) = Places(ledger, Line) \cup {k + 1}
  BY <1>2 DEF Places
<1>5. \A n \in Places(ledger, Line) : n < k + 1 /\ ledger'[n] = ledger[n]
  BY <1>1, <1>2, <1>3 DEF Places
<1> HIDE DEF X, k
<1>6. Kept(ledger', Line) = Append(Kept(ledger, Line), ledger'[k + 1])
  BY <1>1, <1>2, <1>3, <1>4, <1>5, KeptGrows
<1> QED
  BY <1>2, <1>6 DEF History

\* Whoever appends a line finds nothing but lines.
LEMMA OnlyLinesThere ==
    ASSUME PlanInv, CountInv, NEW p \in Proc, Says(p)
    PROVE  \A n \in DOMAIN ledger : ledger[n] \in Line
<1> SUFFICES ASSUME NEW n \in DOMAIN ledger, ledger[n] \notin Line PROVE FALSE
  OBVIOUS
<1>1. cmd[p].pc \in {"commit", "record"} /\ holder[Ledger] \in {p, None}
  BY DEF Says
<1>2. PICK q \in Proc : cmd[q] # None /\ cmd[q].pc = "restore" /\ holder[Ledger] = q
  BY WhoseFragment
<1> QED
  BY <1>1, <1>2, NoneAssumption

-----------------------------------------------------------------------------
(* The steps that show.                                                    *)

LEMMA TakeIsATake ==
    ASSUME PlanInv, NEW p \in Proc, Step(p), cmd[p] # None, Take(p), UNCHANGED History
    PROVE  Abstract!Next \/ UNCHANGED <<View, History>>
<1> DEFINE c == cmd[p]
           t == c.ticket
<1>1. c.pc = "take" /\ c.pc # "lock" /\ StateTyped /\ t \in Ticket
  BY DEF PlanInv, Process, CommandTyped, Take, At
<1>2. cmd'[p] = None
  BY <1>1, ReturnIs DEF Take
<1>3. ~Hidden(c, t) /\ ~Shut(c, t) /\ ~Hidden(cmd'[p], t) /\ ~Shut(cmd'[p], t)
  BY <1>1, <1>2 DEF Hidden, Shut
<1>4. View[t] = [state |-> plan[t].state, owner |-> plan[t].assignee]
  BY <1>1, <1>3, SeenAtWork
<1>5. View' = [View EXCEPT ![t] = [state |-> plan'[t].state, owner |-> plan'[t].assignee]]
  BY <1>1, <1>3, SeenAtWork
<1>6. CASE plan' = plan
  <2>1. View' = [View EXCEPT ![t] = View[t]]
    BY <1>4, <1>5, <1>6
  <2> QED
    BY <2>1, ViewIsSeen
<1>7. CASE plan' = [plan EXCEPT ![t].assignee = p] /\ Claimable(t)
  <2>1. plan[t].assignee = None /\ plan[t].state \notin Terminal
    BY <1>7 DEF Claimable, Ready, Ends
  <2>2. plan'[t].state = plan[t].state /\ plan'[t].assignee = p
    BY <1>1, <1>7, OwnerChanges
  <2>3. View' = [View EXCEPT ![t].owner = p]
    <3>1. View' = [View EXCEPT ![t] = [state |-> plan[t].state, owner |-> p]]
      BY <1>5, <2>2
    <3>2. [View EXCEPT ![t].owner = p] = [View EXCEPT ![t] = [View[t] EXCEPT !.owner = p]]
      OBVIOUS
    <3>3. [View[t] EXCEPT !.owner = p] = [state |-> plan[t].state, owner |-> p]
      BY <1>4
    <3> QED
      BY <3>1, <3>2, <3>3
  <2>4. Abstract!Take(t, p)
    <3>1. View[t].owner = None /\ View[t].state \notin Terminal
      BY <1>4, <2>1
    <3> QED
      BY <2>3, <3>1 DEF Abstract!Take
  <2> QED
    BY <1>1, <2>4 DEF Abstract!Next
<1> QED
  BY <1>6, <1>7 DEF Take

LEMMA DropIsADrop ==
    ASSUME PlanInv, NEW p \in Proc, Step(p), cmd[p] # None, Drop(p), UNCHANGED History
    PROVE  Abstract!Next \/ UNCHANGED <<View, History>>
<1> DEFINE c == cmd[p]
           t == c.ticket
<1>1. c.pc = "drop" /\ c.pc # "lock" /\ StateTyped /\ t \in Ticket
  BY DEF PlanInv, Process, CommandTyped, Drop, At
<1>2. cmd'[p] = None
  BY <1>1, ReturnIs DEF Drop
<1>3. ~Hidden(c, t) /\ ~Shut(c, t) /\ ~Hidden(cmd'[p], t) /\ ~Shut(cmd'[p], t)
  BY <1>1, <1>2 DEF Hidden, Shut
<1>4. View[t] = [state |-> plan[t].state, owner |-> plan[t].assignee]
  BY <1>1, <1>3, SeenAtWork
<1>5. View' = [View EXCEPT ![t] = [state |-> plan'[t].state, owner |-> plan'[t].assignee]]
  BY <1>1, <1>3, SeenAtWork
<1>6. plan'[t].state = plan[t].state /\ plan'[t].assignee = None
  BY <1>1, OwnerChanges DEF Drop
<1>7. CASE plan[t].assignee = None
  <2>1. View' = [View EXCEPT ![t] = View[t]]
    BY <1>4, <1>5, <1>6, <1>7
  <2> QED
    BY <2>1, ViewIsSeen
<1>8. CASE plan[t].assignee # None
  <2>1. View' = [View EXCEPT ![t].owner = None]
    <3>1. View' = [View EXCEPT ![t] = [state |-> plan[t].state, owner |-> None]]
      BY <1>5, <1>6
    <3>2. [View EXCEPT ![t].owner = None] = [View EXCEPT ![t] = [View[t] EXCEPT !.owner = None]]
      OBVIOUS
    <3>3. [View[t] EXCEPT !.owner = None] = [state |-> plan[t].state, owner |-> None]
      BY <1>4
    <3> QED
      BY <3>1, <3>2, <3>3
  <2>2. Abstract!Drop(t)
    BY <1>4, <1>8, <2>1 DEF Abstract!Drop
  <2> QED
    BY <1>1, <2>2 DEF Abstract!Next
<1> QED
  BY <1>7, <1>8

\* The owner of an ended ticket goes with the move that ended it.
LEMMA FinishesUnseen ==
    ASSUME PlanInv, NEW p \in Proc, Step(p), cmd[p] # None, Finish(p)
    PROVE  View' = View
<1> DEFINE c == cmd[p]
           t == c.ticket
<1>1. c.pc = "finish" /\ c.pc # "lock" /\ StateTyped /\ t \in Ticket
  BY DEF PlanInv, Process, CommandTyped, Finish, At
<1>2. cmd'[p] = None
  BY <1>1, ReturnIs DEF Finish
<1>3. /\ ~Hidden(c, t) /\ (Shut(c, t) <=> Ends(c.to))
      /\ ~Hidden(cmd'[p], t) /\ ~Shut(cmd'[p], t)
  BY <1>1, <1>2 DEF Hidden, Shut
<1>4. View' = [View EXCEPT ![t] = [state |-> plan'[t].state, owner |-> plan'[t].assignee]]
  BY <1>1, <1>3, SeenAtWork
<1>5. View[t] = [state |-> plan'[t].state, owner |-> plan'[t].assignee]
  <2>1. CASE Ends(c.to)
    <3>1. plan' = [plan EXCEPT ![t].assignee = None, ![t].link = TRUE]
      BY <2>1 DEF Finish
    <3>2. plan'[t].state = plan[t].state /\ plan'[t].assignee = None
      BY <1>1, <3>1, OwnerChanges
    <3>3. View[t] = [state |-> plan[t].state, owner |-> None]
      BY <1>1, <1>3, <2>1, SeenAtWork
    <3> QED
      BY <3>2, <3>3
  <2>2. CASE ~Ends(c.to)
    <3>1. View[t] = [state |-> plan[t].state, owner |-> plan[t].assignee]
      BY <1>1, <1>3, <2>2, SeenAtWork
    <3> QED
      BY <2>2, <3>1 DEF Finish
  <2> QED
    BY <2>1, <2>2
<1>6. View' = [View EXCEPT ![t] = View[t]]
  BY <1>4, <1>5
<1> QED
  BY <1>6, ViewIsSeen

LEMMA CommitIsAClaim ==
    ASSUME PlanInv, NEW p \in Proc, Step(p), cmd[p] # None, Commit(p),
           History' = Append(History, LineOf(cmd[p]))
    PROVE  Abstract!Next
<1> DEFINE c == cmd[p]
           t == c.ticket
<1>1. c.pc = "commit" /\ c.pc # "lock" /\ c.pc \in Bound /\ StateTyped
  BY DEF PlanInv, Commit, At, Bound, Pcs
<1>2. CommandTyped(c) /\ FilesStand(p) /\ Admitted(c) /\ t \in Ticket /\ c.to \in State
  BY <1>1 DEF PlanInv, Process, CommandTyped
<1>3. cmd'[p] = None /\ plan' = plan
  BY <1>1, ReturnIs DEF Commit
<1>4. Hidden(c, t) /\ ~Hidden(cmd'[p], t) /\ ~Shut(cmd'[p], t)
  BY <1>1, <1>3 DEF Hidden, Shut
<1>5. /\ <<c.from, c.to>> \in Edges /\ c.to \notin Terminal
      /\ c.before.headings[t].state = c.from /\ c.before.headings[t].assignee = None
  BY <1>1, <1>2 DEF Admitted, CommandTyped, Ends
<1>6. View[t] = [state |-> c.from, owner |-> None]
  BY <1>1, <1>4, <1>5, SeenAtWork
<1>7. plan'[t].state = c.to /\ plan'[t].assignee = p
  <2>1. plan[t] = AssignedHeadings(p)[t]
    BY <1>1, <1>2, FileParts DEF FilesStand, HeadingsAre
  <2> QED
    BY <1>1, <1>2, <1>3, <2>1, AssignedIs
<1>8. View' = [View EXCEPT ![t] = [state |-> c.to, owner |-> p]]
  <2>1. View' = [View EXCEPT ![t] = [state |-> plan'[t].state, owner |-> plan'[t].assignee]]
    BY <1>1, <1>4, SeenAtWork
  <2> QED
    BY <1>7, <2>1
<1>9. Abstract!Claim(t, c.to, p)
  BY <1>5, <1>6, <1>8 DEF Abstract!Claim, Abstract!Record, LineOf
<1> QED
  BY <1>2, <1>9 DEF Abstract!Next

LEMMA RecordIsAMove ==
    ASSUME NoneIsNoCommand, PlanInv, NEW p \in Proc, Step(p), cmd[p] # None, Record(p),
           History' = Append(History, LineOf(cmd[p]))
    PROVE  Abstract!Next
<1> DEFINE c == cmd[p]
           t == c.ticket
           owner == c.before.headings[t].assignee
<1>1. c.pc = "record" /\ c.pc # "lock" /\ c.pc \in Bound /\ StateTyped
  BY DEF PlanInv, Record, At, Bound, Pcs
<1>2. CommandTyped(c) /\ FilesStand(p) /\ Admitted(c) /\ t \in Ticket /\ c.to \in State
  BY <1>1 DEF PlanInv, Process, CommandTyped
<1>3. plan' = plan /\ ((cmd'[p] = None /\ ~Ends(c.to)) \/ OnwardBy(p, "finish"))
  <2>1. CASE c.message \/ Ends(c.to)
    BY <2>1, GotoIsOnward DEF Record
  <2>2. CASE ~(c.message \/ Ends(c.to))
    BY <1>1, <2>2, ReturnIs DEF Record
  <2> QED
    BY <2>1, <2>2
<1>4. Hidden(c, t) /\ ~Hidden(cmd'[p], t) /\ (Shut(cmd'[p], t) <=> Ends(c.to))
  BY <1>1, <1>3 DEF Hidden, Shut, OnwardBy, SameMind, NoneIsNoCommand
<1>5. <<c.from, c.to>> \in Edges /\ c.before.headings[t].state = c.from
  BY <1>1, <1>2 DEF Admitted
<1>6. View[t] = [state |-> c.from, owner |-> owner]
  BY <1>1, <1>4, <1>5, SeenAtWork
<1>7. plan'[t].state = c.to /\ plan'[t].assignee = owner
  <2>1. plan[t] = MovedHeadings(c)[t]
    BY <1>1, <1>2, FileParts DEF FilesStand, HeadingsAre
  <2> QED
    BY <1>1, <1>2, <1>3, <2>1, MovedIs
<1>8. View' = [View EXCEPT ![t] = [state |-> c.to,
                                   owner |-> IF c.to \in Terminal THEN None ELSE owner]]
  <2>1. CASE Ends(c.to)
    BY <1>1, <1>4, <1>7, <2>1, SeenAtWork DEF Ends
  <2>2. CASE ~Ends(c.to)
    BY <1>1, <1>4, <1>7, <2>2, SeenAtWork DEF Ends
  <2> QED
    BY <2>1, <2>2
<1>9. Abstract!Move(t, c.to)
  <2> HIDE DEF owner
  <2> QED
    BY <1>5, <1>6, <1>8 DEF Abstract!Move, Abstract!Record, LineOf
<1> QED
  BY <1>2, <1>9 DEF Abstract!Next

LEMMA StepsAreMoves ==
    ASSUME Faults \subseteq {"claim"}, NoneIsNoCommand, PlanInv, MarkInv, CountInv,
           NEW p \in Proc, Step(p)
    PROVE  Abstract!Next \/ UNCHANGED <<View, History>>
<1> DEFINE c == cmd[p]
<1>1. StateTyped /\ StateTyped'
  BY PlanKept DEF PlanInv
<1>2. UNCHANGED ledger => History' = History
  BY DEF History
<1>3. CASE c = None
  BY <1>2, <1>3, BeginsUnseen
<1>4. CASE c # None
  <2>1. CASE \/ Acquire(p) \/ Refuse(p) \/ Route(p) \/ RefuseCharge(p) \/ Charge(p)
             \/ OpenLedger(p) \/ OpenFails(p)
    BY <1>2, <1>4, <2>1, PreparesUnseen
  <2>2. CASE \/ WriteManifest(p) \/ WriteTask(p) \/ EnterAccepts(p) \/ EnterFails(p)
             \/ Assign(p) \/ ClaimFails(p)
    <3>1. View' = View
      BY <1>4, <2>2, WritesUnseen
    <3>2. ledger' = ledger \/ ledger' = Extend(ledger, Fragment)
      BY <2>2 DEF WriteManifest, WriteTask, EnterAccepts, EnterFails, Assign, ClaimFails, files
    <3>3. History' = History
      BY <1>1, <1>2, <3>2, FragmentsUnread
    <3> QED
      BY <3>1, <3>3
  <2>3. CASE Commit(p) \/ Record(p)
    <3>1. Says(p)
      BY <2>3, CommitsSay
    <3>2. \A n \in DOMAIN ledger : ledger[n] \in Line
      BY <3>1, OnlyLinesThere
    <3>3. LineOf(c) \in Line
      BY <1>4, ItsLine DEF PlanInv, Process
    <3>4. ledger' = Extend(ledger, LineOf(c))
      BY <3>1 DEF Says
    <3>5. History' = Append(History, LineOf(c))
      BY <1>1, <3>2, <3>3, <3>4, HistoryGrows
    <3> QED
      BY <1>4, <2>3, <3>5, CommitIsAClaim, RecordIsAMove
  <2>4. CASE Restore(p)
    <3>1. View' = View
      BY <1>4, <2>4, RestoresUnseen
    <3>2. c.pc = "restore" /\ (ledger' = ledger \/ (c.kind = "claim" /\ ledger' = SubSeq(ledger, 1, c.mark)))
      <4>1. PICK failed \in SUBSET Surfaces(c) : c.pc = "restore" /\ RestoreFiles(c, failed)
        BY <2>4 DEF Restore, At
      <4> QED
        BY <4>1 DEF RestoreFiles
    <3>3. c.kind = "claim" => c.mark \in Nat /\ c.mark <= Len(ledger)
      BY <1>4, <3>2 DEF MarkInv, PlanInv, Process, CommandTyped, Bound, Pcs
    <3>4. History' = History
      BY <1>1, <1>2, <3>2, <3>3, CutUnread
    <3> QED
      BY <3>1, <3>4
  <2>5. CASE Take(p) \/ Drop(p) \/ Finish(p)
    <3>1. History' = History
      BY <1>2, <2>5 DEF Take, Drop, Finish
    <3> QED
      BY <1>4, <2>5, <3>1, TakeIsATake, DropIsADrop, FinishesUnseen
  <2> QED
    BY <1>4, <2>1, <2>2, <2>3, <2>4, <2>5, WithoutFaults
<1> QED
  BY <1>3, <1>4

LEMMA NothingToSeeAtFirst ==
    ASSUME Init
    PROVE  Abstract!Init
<1>1. \A p \in Proc, t \in Ticket : ~Hidden(cmd[p], t) /\ ~Shut(cmd[p], t)
  BY DEF Init, Hidden, Shut
<1>2. \A t \in Ticket : plan[t].state = Initial /\ plan[t].assignee = None
  BY DEF Init
<1>3. \A t \in Ticket : Seen(plan, cmd, t) = [state |-> Initial, owner |-> None]
  BY <1>1, <1>2, SeenAsItIs
<1>4. View = [t \in Ticket |-> [state |-> Initial, owner |-> None]]
  BY <1>3, ViewIsSeen
<1>5. History = <<>>
  <2>1. ledger = <<>> /\ ledger \in Seq(Line)
    BY DEF Init
  <2>2. Places(ledger, Line) = {}
    BY <2>1 DEF Places
  <2>3. Kept(ledger, Line) \in Seq(Line \cap Line) /\ Len(Kept(ledger, Line)) = 0
    BY <2>1, <2>2, KeptType, FS_EmptySet
  <2> QED
    BY <2>3 DEF History
<1> QED
  BY <1>4, <1>5 DEF Abstract!Init

\* Where nothing fails but callbacks and claims, each command is one whole move,
\* claim or release or nothing at all, and the history says the moves in their
\* order: what a command writes before its line, a callback that refuses and a
\* claim that is taken back included (claim_transaction.rs).
THEOREM CommandsAreAtomic ==
    ASSUME Faults \subseteq {"claim"}, NoneIsNoCommand
    PROVE  TransitionSpec => AtomicMoves
<1>1. Init => Abstract!Init
  BY NothingToSeeAtFirst
<1>2. PlanInv /\ MarkInv /\ CountInv /\ [Next]_vars => [Abstract!Next]_<<View, History>>
  <2> SUFFICES ASSUME PlanInv, MarkInv, CountInv, [Next]_vars
               PROVE  Abstract!Next \/ UNCHANGED <<View, History>>
    OBVIOUS
  <2>1. CASE UNCHANGED vars
    <3>1. UNCHANGED <<plan, ledger, cmd>>
      BY <2>1 DEF vars, files
    <3>2. View' = View /\ History' = History
      BY <3>1, ViewIsSeen DEF History
    <3> QED
      BY <3>2
  <2>2. CASE \E p \in Proc : Step(p)
    BY <2>2, StepsAreMoves
  <2> QED
    BY <2>1, <2>2 DEF Next, Rest, Step
<1> QED
  BY <1>1, <1>2, PlanInvariant, CountInvariant, PTL DEF TransitionSpec, AtomicMoves, Abstract!MovesSpec

=============================================================================
