---------------------------- MODULE BudgetVisits ----------------------------
(* How runs use the account: which calls `rhei run` makes around one       *)
(* spawned agent, what it remembers between them, and what a crash, a      *)
(* worker of the pool or another run does in between                       *)
(* (rhei-cli/src/cli/budget_{runtime,settle,travel}.rs and the sequential  *)
(* and pooled spawn paths).                                                *)
(*                                                                         *)
(* A run is a process.  It holds the lock of its execution root from       *)
(* launch to death; its claims live in its memory and die with it.  An     *)
(* item is one resolved invocation of a ticket: the items of one ticket    *)
(* are the arms of a fanout, admitted one by one, and share one claim.     *)
(* The account's lock is held across an admission, whose receipts are      *)
(* appended one at a time; every other use of the account is one step.     *)
EXTENDS BudgetLedger, Sequences

CONSTANTS
    Run, Item,
    RootOf,         \* run -> its execution root
    TicketOf,       \* item -> its ticket
    Pooled,         \* the runs that use the worker pool
    SpendReserve,   \* the worst case every neural start reserves
    AppendsMayFail  \* whether the account may be unreachable for a while

ASSUME RunsAssumption ==
    /\ RootOf \in [Run -> Root] /\ TicketOf \in [Item -> Ticket]
    /\ Pooled \subseteq Run
    /\ SpendReserve \in (Reserves \cap Amounts) \ {0}
    /\ AppendsMayFail \in BOOLEAN

\* Nothing a run remembers of a visit is the absent value.
ASSUME ClaimAssumption ==
    None \notin [travel : Reservation \cup {None}, arms : Seq(Reservation), started : BOOLEAN,
                landed : Seq(Amounts)]

VARIABLES
    alive,          \* run -> "new", "live" or "gone"
    claims,         \* run -> ticket -> the claim in its map, or None
    stage,          \* run -> item -> where the item's visit is
    arm,            \* run -> item -> the reservation it was admitted on
    account,        \* the run inside an admission's transaction, or None
    spawned,        \* the reservations whose process was really created
    cost            \* reservation -> what its process was measured to cost

runVars == <<alive, claims, stage, arm, account, spawned, cost>>
vars == <<ledgerVars, runVars>>

Live(run) == alive[run] = "live"

\* The lock of an execution root is held by the live run of that root alone.
RunIsGone(root) == \A run \in Run : Live(run) => RootOf[run] # root

\* The thread that admits, spawns and settles does one thing at a time.
Busy(run) ==
    \E i \in Item : stage[run][i] \in {"weighing", "admitted", "confirmed", "routed"}

\* A sequential run waits for its invocation; a pooled one starts others.
MayStart(run) ==
    /\ Live(run)
    /\ ~Busy(run)
    /\ run \notin Pooled => \A i \in Item : stage[run][i] \notin {"starting", "running", "exited"}

Advance(run, i, from, to) ==
    /\ Live(run)
    /\ stage[run][i] = from
    /\ stage' = [stage EXCEPT ![run][i] = to]

Claim(run, i) == claims[run][TicketOf[i]]

Keep(run, i, claim) == claims' = [claims EXCEPT ![run][TicketOf[i]] = claim]

\* The receipts, of some to be written, that really reach the journal.
Written(set) == IF AppendsMayFail THEN SUBSET set ELSE {set}

ClaimArms(claim) == {claim.arms[n] : n \in DOMAIN claim.arms}

-----------------------------------------------------------------------------
(* The runs themselves.                                                    *)

VisitsInit ==
    /\ LedgerInit
    /\ alive = [run \in Run |-> "new"]
    /\ claims = [run \in Run |-> [t \in Ticket |-> None]]
    /\ stage = [run \in Run |-> [i \in Item |-> "idle"]]
    /\ arm = [run \in Run |-> [i \in Item |-> None]]
    /\ account = None
    /\ spawned = {}
    /\ cost = [r \in Reservation |-> None]

Launch(run) ==
    /\ alive[run] = "new"
    /\ RunIsGone(RootOf[run])
    /\ alive' = [alive EXCEPT ![run] = "live"]
    /\ UNCHANGED <<ledgerVars, claims, stage, arm, account, spawned, cost>>

\* A run ends: it finished, returned an error out of any step, or crashed.
\* Its locks are free and its memory is gone; what it appended stays.
Stop(run) ==
    /\ Live(run)
    /\ alive' = [alive EXCEPT ![run] = "gone"]
    /\ claims' = [claims EXCEPT ![run] = [t \in Ticket |-> None]]
    /\ stage' = [stage EXCEPT ![run] = [i \in Item |-> "idle"]]
    /\ arm' = [arm EXCEPT ![run] = [i \in Item |-> None]]
    /\ account' = IF account = run THEN None ELSE account
    /\ UNCHANGED <<ledgerVars, spawned, cost>>

-----------------------------------------------------------------------------
(* Admission: one transaction under the account's lock.                    *)

\* Open the account and install the ticket's identity.
OpenAdmission(run, i) ==
    /\ MayStart(run)
    /\ account = None
    /\ Writable
    /\ Advance(run, i, "idle", "weighing")
    /\ account' = run
    /\ installed' = installed \cup {TicketOf[i]}
    /\ UNCHANGED <<clock, contract, reservations, travel, highestDay, currency, readOnly,
                   alive, claims, arm, spawned, cost>>

\* (Mutant) Whatever has not started is taken for abandoned.
AllUnstarted == {r \in Unreleased : ~Started(r)}

\* Reservations no process can have started on.
Abandoned == {r \in Unreleased : ~Started(r) /\ RunIsGone(reservations[r].root)}

ReleaseAbandoned(run) ==
    /\ account = run
    /\ \E r \in Abandoned : AppendReleaseUnstarted(r)
    /\ UNCHANGED <<clock, runVars>>

\* The ticket's one travel unit goes to the arm that finds no claim yet.
TakesTravel(run, i) == Claim(run, i) = None

AdmissionRequest(run, i) ==
    [ticket |-> TicketOf[i], root |-> RootOf[run], parent |-> None, envelope |-> 1,
     reserve |-> SpendReserve, currency |-> CHOOSE c \in Currency : TRUE,
     travel |-> TakesTravel(run, i)]

\* The claim an admission starts, or the one it adds an arm to.
ExtendedClaim(run, i, r) ==
    IF Claim(run, i) = None
    THEN [travel |-> r, arms |-> <<r>>, started |-> FALSE, landed |-> <<>>]
    ELSE [Claim(run, i) EXCEPT !.arms = Append(@, r)]

\* Nothing abandoned is left: weigh the arm, then admit or refuse it.
Weigh(run, i) ==
    /\ account = run
    /\ Abandoned = {}
    /\ account' = None
    /\ Reservation \ Known # {}
    /\ \E bounds \in Bounds :
         LET request == AdmissionRequest(run, i)
             r == CHOOSE fresh \in Reservation \ Known : TRUE
         IN  \/ /\ Admissible(request, {r}, bounds)
                /\ AppendReserve(request, {r}, r)
                /\ Keep(run, i, ExtendedClaim(run, i, r))
                /\ arm' = [arm EXCEPT ![run][i] = r]
                /\ Advance(run, i, "weighing", "admitted")
             \/ /\ ~Admissible(request, {r}, bounds)
                /\ Advance(run, i, "weighing", "refused")
                /\ UNCHANGED <<ledger, claims, arm>>
    /\ UNCHANGED <<clock, alive, spawned, cost>>

-----------------------------------------------------------------------------
(* The visit an admission paid for.                                        *)

\* (Mutant) The start is remembered and never written down.
StartNothing(set) == UNCHANGED ledger

\* Start receipts; the replay takes none for a released reservation.
StartArms(set) ==
    /\ reservations' = [r \in Known |->
         IF r \in set /\ ~reservations[r].released
         THEN [reservations[r] EXCEPT !.started = TRUE] ELSE reservations[r]]
    /\ UNCHANGED <<contract, travel, installed, highestDay, currency, readOnly>>

\* Both starts, the ambiguous one and the one that confirms it: the claim
\* remembers it, and every arm of the claim is given a receipt.
NoteStart(run, i) ==
    IF Claim(run, i) = None THEN UNCHANGED <<ledger, claims>>
    ELSE /\ account = None
         /\ Keep(run, i, [Claim(run, i) EXCEPT !.started = TRUE])
         /\ \E set \in Written(ClaimArms(Claim(run, i))) : StartArms(set)

\* (Mutant) A settle that does not look at what the records said.
AlwaysTheReserve(landed, n) == SpendReserve

\* What the n-th arm is settled at: the n-th record that landed, else the
\* reserve.
SettledAmount(landed, n) == IF n \in DOMAIN landed THEN landed[n] ELSE SpendReserve

Settled(claim, r) ==
    IF reservations[r].released \/ reservations[r].spend # None THEN reservations[r].spend
    ELSE SettledAmount(claim.landed, CHOOSE n \in DOMAIN claim.arms : claim.arms[n] = r)

\* The receipts that end a claim: money and the travel unit still held where
\* it started, everything back where it did not.
SettleClaim(claim, set) ==
    /\ reservations' = [r \in Known |->
         LET rec == reservations[r]
         IN  IF r \notin set THEN rec
             ELSE IF claim.started
                  THEN [rec EXCEPT !.spend = Settled(claim, r),
                                   !.travelHeld = @ /\ (r # claim.travel \/ rec.applied)]
             ELSE IF rec.started THEN rec
             ELSE [rec EXCEPT !.released = TRUE, !.travelHeld = FALSE]]
    /\ UNCHANGED <<contract, travel, installed, highestDay, currency, readOnly>>

\* (Mutant) The claim is forgotten and nothing is written.
ForgetVisit(run, i) == Keep(run, i, None) /\ UNCHANGED ledger

\* The claim leaves the map first, whatever can be written afterwards.
EndVisit(run, i) ==
    IF Claim(run, i) = None THEN UNCHANGED <<ledger, claims>>
    ELSE /\ account = None
         /\ Keep(run, i, None)
         /\ \E set \in Written(ClaimArms(Claim(run, i))) : SettleClaim(Claim(run, i), set)

\* The prompt cannot be composed and the run goes on: a sequential run ends
\* the visit, the pool's spawn path only reports it.
Unpromptable(run, i) ==
    /\ Advance(run, i, "admitted", "stalled")
    /\ IF run \in Pooled THEN UNCHANGED <<ledger, claims>> ELSE EndVisit(run, i)
    /\ UNCHANGED <<clock, alive, arm, account, spawned, cost>>

BeginStart(run, i) ==
    /\ Advance(run, i, "admitted", "starting")
    /\ NoteStart(run, i)
    /\ UNCHANGED <<clock, alive, arm, account, spawned, cost>>

Spawn(run, i) ==
    /\ Advance(run, i, "starting", "running")
    /\ spawned' = spawned \cup {arm[run][i]}
    /\ UNCHANGED <<ledgerVars, alive, claims, arm, account, cost>>

\* No process came to be: the pool stalls the ticket and settles nothing.
SpawnFails(run, i) ==
    /\ Advance(run, i, "starting", IF run \in Pooled THEN "stalled" ELSE "exited")
    /\ UNCHANGED <<ledgerVars, alive, claims, arm, account, spawned, cost>>

\* The process ends, on whichever thread waited for it; a record that could
\* be extracted lands in the claim of the ticket, if there is one.
Exit(run, i) ==
    /\ Advance(run, i, "running", "exited")
    /\ \E amount \in Amounts \cup {None} :
         /\ cost' = [cost EXCEPT ![arm[run][i]] = amount]
         /\ IF amount = None \/ Claim(run, i) = None THEN UNCHANGED claims
            ELSE Keep(run, i, [Claim(run, i) EXCEPT !.landed = Append(@, amount)])
    /\ UNCHANGED <<ledgerVars, alive, arm, account, spawned>>

ConfirmStart(run, i) ==
    /\ ~Busy(run)
    /\ Advance(run, i, "exited", "confirmed")
    /\ NoteStart(run, i)
    /\ UNCHANGED <<clock, alive, arm, account, spawned, cost>>

\* The completion selects no edge.
SelectNoEdge(run, i) ==
    /\ Advance(run, i, "confirmed", "routed")
    /\ UNCHANGED <<ledgerVars, alive, claims, arm, account, spawned, cost>>

HeldUnit(run, i) == IF Claim(run, i) = None THEN None ELSE Claim(run, i).travel

\* The unit an edge is about to consume leaves the claim before the charge.
TakeUnit(run, i) ==
    IF Claim(run, i) = None THEN UNCHANGED claims
    ELSE Keep(run, i, [Claim(run, i) EXCEPT !.travel = None])

\* Whether the replay takes the charge of an edge.
TakesEdge(t, unit, bounds) ==
    IF unit = None THEN TravelExposure(t) + 1 <= bounds.transition
    ELSE reservations[unit].travelHeld /\ ~reservations[unit].released

\* Charge the edge the completion selected; a charge that is refused or
\* fails leaves the ticket where it is, and the claim without its unit.
ApplyEdge(run, i) ==
    /\ Advance(run, i, "confirmed", "routed")
    /\ account = None
    /\ TakeUnit(run, i)
    /\ \E bounds \in Bounds :
         LET t == TicketOf[i]
             unit == HeldUnit(run, i)
         IN  \/ /\ TakesEdge(t, unit, bounds)
                /\ IF unit = None THEN AppendStandaloneEdge(t, bounds)
                                  ELSE AppendReservedEdge(t, unit)
             \/ /\ AppendsMayFail \/ ~TakesEdge(t, unit, bounds)
                /\ UNCHANGED ledger
    /\ UNCHANGED <<clock, alive, arm, account, spawned, cost>>

Settle(run, i) ==
    /\ Advance(run, i, "routed", "done")
    /\ EndVisit(run, i)
    /\ UNCHANGED <<clock, alive, arm, account, spawned, cost>>

VisitsNext ==
    \E run \in Run :
        \/ Launch(run) \/ Stop(run) \/ ReleaseAbandoned(run)
        \/ \E i \in Item :
             \/ OpenAdmission(run, i) \/ Weigh(run, i) \/ Unpromptable(run, i)
             \/ BeginStart(run, i) \/ Spawn(run, i) \/ SpawnFails(run, i)
             \/ Exit(run, i) \/ ConfirmStart(run, i)
             \/ SelectNoEdge(run, i) \/ ApplyEdge(run, i) \/ Settle(run, i)

VisitsSpec == VisitsInit /\ [][VisitsNext]_vars

-----------------------------------------------------------------------------
(* Properties.                                                             *)

ClaimRecord ==
    [travel : Known \cup {None}, arms : Seq(Known), started : BOOLEAN, landed : Seq(Amounts)]

Stages ==
    {"idle", "weighing", "refused", "admitted", "stalled", "starting", "running",
     "exited", "confirmed", "routed", "done"}

\* The account keeps its type under the calls runs make, and a run's memory
\* names only reservations that are on the chain.
VisitsTypeOK ==
    /\ LedgerTypeOK
    /\ alive \in [Run -> {"new", "live", "gone"}]
    /\ \A run \in Run, t \in Ticket : claims[run][t] \in ClaimRecord \cup {None}
    /\ stage \in [Run -> [Item -> Stages]]
    /\ arm \in [Run -> [Item -> Known \cup {None}]]
    /\ account \in Run \cup {None}
    /\ spawned \subseteq Known
    /\ cost \in [Reservation -> Amounts \cup {None}]

\* What a live run still claims is never given back by another run's
\* recovery, whose evidence is the execution-root lock alone.
LiveClaimsAreOutstanding ==
    \A run \in Run, t \in Ticket :
      Live(run) /\ claims[run][t] # None =>
        \A r \in ClaimArms(claims[run][t]) : ~reservations[r].released

\* Every process that was ever created is a consumed invocation, whichever
\* crash, recovery and restart followed: nothing refunds it.
ProcessesStayConsumed ==
    \A r \in spawned : Started(r) /\ ~reservations[r].released

\* What the records say of one process.
Owed(r) == IF cost[r] = None THEN SpendReserve ELSE cost[r]

\* A visit that is over charges its arm what its own process was measured to
\* cost, and the reserve where nothing was measured.
SettledAtOwnCost ==
    \A run \in Run, i \in Item :
      stage[run][i] = "done" /\ arm[run][i] \in spawned =>
        reservations[arm[run][i]].spend = Owed(arm[run][i])

\* A visit of a live run that stalled before any process existed has given
\* its units back.
StalledVisitsLeakNothing ==
    \A run \in Run, i \in Item :
      stage[run][i] = "stalled" => reservations[arm[run][i]].released

\* No admission is refused while a dead run holds a unit it never started.
DeadClaimsRefuseNobody ==
    [][\A run \in Run, i \in Item :
         stage[run][i] # "refused" /\ stage'[run][i] = "refused" =>
           \A r \in Unreleased :
             Started(r) \/ \E q \in Run : Live(q) /\ \E j \in Item : arm[q][j] = r]_vars

=============================================================================
