---------------------------- MODULE BudgetLedger ----------------------------
(***************************************************************************)
(* The project's budget account as its journal's replay derives it         *)
(* (rhei-core/src/budget): reservations, applied travel, the contract, the *)
(* account's currency and its highest day.                                 *)
(*                                                                         *)
(* One action is one transaction of one caller: the account is opened      *)
(* under its exclusive lock, the whole chain is replayed, the checks run   *)
(* against the replayed state and at most one receipt is appended.  The    *)
(* callers are unconstrained here: any of them may make any call in any    *)
(* order, at any clock reading, under any bounds the settings can resolve  *)
(* to.  Module BudgetVisits says which calls a run makes.                  *)
(***************************************************************************)
EXTENDS Integers, FiniteSets, FiniteSetsExt

CONSTANTS
    Reservation,    \* reservation ids (fresh uuids in the code)
    Ticket,         \* ticket identities
    Root,           \* execution roots
    Currency,       \* currencies a price book may report in
    Bounds,         \* what the settings may resolve to, clamped by the caller
    Allowances,     \* allowances `budget init` and `budget adjust` may grant
    Envelopes,      \* descendant envelopes an arm may be admitted with
    Reserves,       \* worst cases an admission may reserve, in micro-units
    Amounts,        \* amounts a settle may carry
    Days,           \* day keys
    None            \* an absent optional value

ASSUME DaysAssumption == Days \subseteq Nat /\ Days # {}

ASSUME BoundsAssumption ==
    Bounds \subseteq [transition : Nat, perDay : Nat, spendPerDay : Nat]

ASSUME AllowancesAssumption == Allowances \subseteq Nat \ {0}

ASSUME EnvelopesAssumption == Envelopes \subseteq Nat

ASSUME MoneyAssumption == Reserves \subseteq Nat /\ Amounts \subseteq Nat

ASSUME NoneAssumption == None \notin Nat \cup Reservation \cup Currency

VARIABLES
    clock,          \* the day the machine's clock reads; it may go backwards
    contract,       \* None is the window contract, a number the allowance
    reservations,   \* reservation id -> its record, for the ids on the chain
    travel,         \* ticket -> edges applied over the life of the chain
    installed,      \* tickets with an installed identity binding
    highestDay,     \* the highest day key a receipt has carried, 0 for none
    currency,       \* the account's one currency
    readOnly        \* the chain holds a receipt kind this build does not know

ledger == <<contract, reservations, travel, installed, highestDay, currency, readOnly>>
ledgerVars == <<clock, ledger>>

ReservationRecord ==
    [ticket : Ticket, root : Root,
     parent : Reservation \cup {None}, envelope : Envelopes,
     window : Days, started : BOOLEAN, released : BOOLEAN,
     travelHeld : BOOLEAN, applied : BOOLEAN,
     reserve : Reserves, spend : Amounts \cup {None}]

-----------------------------------------------------------------------------
(* What the replay derives.                                                *)

Known == DOMAIN reservations

Unreleased == {r \in Known : ~reservations[r].released}

Started(r) == reservations[r].started

\* Invocations stamped with one day, released ones left out.
OnDay(day) == {r \in Unreleased : reservations[r].window = day}

\* (Mutant) The window's count whatever the contract.
InvocationExposureOfTheDay(day) == Cardinality(OnDay(day))

\* consumed + outstanding under the active contract.
InvocationExposure(day) ==
    IF contract = None THEN Cardinality(OnDay(day)) ELSE Cardinality(Unreleased)

Drawn(parent) == {r \in Unreleased : reservations[r].parent = parent}

HeldTravel(t) ==
    {r \in Unreleased : reservations[r].travelHeld /\ reservations[r].ticket = t}

\* (Mutant) Held units forgotten.
AppliedTravelAlone(t) == travel[t]

TravelExposure(t) == travel[t] + Cardinality(HeldTravel(t))

\* A settle where there is one, the reserved worst case where there is none,
\* and nothing where no worst case was reserved.
Charge(r) ==
    IF reservations[r].reserve = 0 THEN 0
    ELSE IF reservations[r].spend = None THEN reservations[r].reserve
    ELSE reservations[r].spend

SpendExposure(day) == MapThenSumSet(Charge, OnDay(day))

\* The day capacity is drawn against: never below the highest one recorded.
EffectiveDay == IF highestDay > clock THEN highestDay ELSE clock

-----------------------------------------------------------------------------
(* The effect of each receipt on the replayed state.                       *)

\* A receipt that carries an amount fixes the account's currency.
FixCurrency(c) == currency \in {None, c} /\ currency' = c

\* (Mutant) The ancestor's own start is not required.
AncestorMayBeUnstarted(parent, count) ==
    \/ parent = None
    \/ /\ parent \in Known
       /\ ~reservations[parent].released
       /\ reservations[parent].envelope > 0
       /\ Cardinality(Drawn(parent)) + count <= reservations[parent].envelope

\* The ancestor an admission may be placed under, None for an unparented one.
AncestorUsable(parent, count) ==
    \/ parent = None
    \/ /\ parent \in Known
       /\ ~reservations[parent].released
       /\ Started(parent)
       /\ reservations[parent].envelope > 0
       /\ Cardinality(Drawn(parent)) + count <= reservations[parent].envelope

\* The record one arm of an admission appends.
Arm(request, carriesTravel) ==
    [ticket |-> request.ticket, root |-> request.root,
     parent |-> request.parent, envelope |-> request.envelope,
     window |-> EffectiveDay, started |-> FALSE, released |-> FALSE,
     travelHeld |-> carriesTravel, applied |-> FALSE,
     reserve |-> request.reserve, spend |-> None]

\* (Mutant) A fanout is checked as one invocation.
AdmissibleAsOneArm(request, arms, bounds) ==
    /\ request.ticket \in installed
    /\ arms # {}
    /\ AncestorUsable(request.parent, Cardinality(arms))
    /\ request.reserve > 0 => currency \in {None, request.currency}
    /\ request.travel => TravelExposure(request.ticket) + 1 <= bounds.transition
    /\ InvocationExposure(EffectiveDay) + 1
         <= (IF contract = None THEN bounds.perDay ELSE contract)
    /\ SpendExposure(EffectiveDay) + request.reserve <= bounds.spendPerDay
    /\ arms \cap Known = {}

\* The checks of one admission against the bounds in force.
Admissible(request, arms, bounds) ==
    /\ request.ticket \in installed
    /\ arms # {}
    /\ AncestorUsable(request.parent, Cardinality(arms))
    /\ request.reserve > 0 => currency \in {None, request.currency}
    /\ request.travel => TravelExposure(request.ticket) + 1 <= bounds.transition
    /\ InvocationExposure(EffectiveDay) + Cardinality(arms)
         <= (IF contract = None THEN bounds.perDay ELSE contract)
    /\ SpendExposure(EffectiveDay) + request.reserve * Cardinality(arms)
         <= bounds.spendPerDay
    /\ arms \cap Known = {}

\* One receipt carries every arm; the first one alone carries the travel unit.
AppendReserve(request, arms, first) ==
    /\ reservations' =
         [r \in Known \cup arms |->
            IF r \in arms THEN Arm(request, request.travel /\ r = first)
                          ELSE reservations[r]]
    /\ highestDay' = EffectiveDay
    /\ currency' = IF request.reserve > 0 THEN request.currency ELSE currency
    /\ UNCHANGED <<contract, travel, installed, readOnly>>

Update(r, rec) == reservations' = [reservations EXCEPT ![r] = rec]

AppendStart(r) ==
    /\ r \in Known
    /\ ~reservations[r].released
    /\ Update(r, [reservations[r] EXCEPT !.started = TRUE])
    /\ UNCHANGED <<contract, travel, installed, highestDay, currency, readOnly>>

\* (Mutant) A started invocation can be released.
AppendReleaseAny(r) ==
    /\ r \in Known
    /\ Update(r, [reservations[r] EXCEPT !.released = TRUE, !.travelHeld = FALSE])
    /\ UNCHANGED <<contract, travel, installed, highestDay, currency, readOnly>>

AppendReleaseUnstarted(r) ==
    /\ r \in Known
    /\ ~Started(r)
    /\ Update(r, [reservations[r] EXCEPT !.released = TRUE, !.travelHeld = FALSE])
    /\ UNCHANGED <<contract, travel, installed, highestDay, currency, readOnly>>

AppendReleaseTravel(r) ==
    /\ r \in Known
    /\ ~reservations[r].applied
    /\ Update(r, [reservations[r] EXCEPT !.travelHeld = FALSE])
    /\ UNCHANGED <<contract, travel, installed, highestDay, currency, readOnly>>

\* An applied edge converts the unit its reservation holds ...
AppendReservedEdge(t, r) ==
    /\ r \in Known
    /\ reservations[r].travelHeld
    /\ ~reservations[r].released
    /\ ~reservations[r].applied
    /\ reservations[r].ticket = t
    /\ Update(r, [reservations[r] EXCEPT !.travelHeld = FALSE, !.applied = TRUE])
    /\ travel' = [travel EXCEPT ![t] = @ + 1]
    /\ UNCHANGED <<contract, installed, highestDay, currency, readOnly>>

\* ... or, without a reservation, is checked against the bound on its own.
AppendStandaloneEdge(t, bounds) ==
    /\ TravelExposure(t) + 1 <= bounds.transition
    /\ travel' = [travel EXCEPT ![t] = @ + 1]
    /\ UNCHANGED <<contract, reservations, installed, highestDay, currency, readOnly>>

AppendSpend(r, amount, c) ==
    /\ r \in Known
    /\ reservations[r].spend = None
    /\ ~reservations[r].released
    /\ FixCurrency(c)
    /\ Update(r, [reservations[r] EXCEPT !.spend = amount])
    /\ UNCHANGED <<contract, travel, installed, highestDay, readOnly>>

-----------------------------------------------------------------------------
(* The account's operations.                                               *)

LedgerInit ==
    /\ clock \in Days
    /\ contract = None
    /\ reservations = [r \in {} |-> None]
    /\ travel = [t \in Ticket |-> 0]
    /\ installed = {}
    /\ highestDay = 0
    /\ currency = None
    /\ readOnly = FALSE

\* The clock is outside the account and may be set to anything.
SetClock(day) == clock' = day /\ UNCHANGED ledger

Writable == ~readOnly

BindTicket(t) ==
    /\ Writable
    /\ installed' = installed \cup {t}
    /\ UNCHANGED <<clock, contract, reservations, travel, highestDay, currency, readOnly>>

Reserve(request, arms, first, bounds) ==
    /\ Writable
    /\ Admissible(request, arms, bounds)
    /\ AppendReserve(request, arms, first)
    /\ UNCHANGED clock

RecordStart(r) == Writable /\ AppendStart(r) /\ UNCHANGED clock

ReleaseUnstarted(r) == Writable /\ AppendReleaseUnstarted(r) /\ UNCHANGED clock

ReleaseTravel(r) == Writable /\ AppendReleaseTravel(r) /\ UNCHANGED clock

ChargeReserved(t, r) == Writable /\ AppendReservedEdge(t, r) /\ UNCHANGED clock

ChargeStandalone(t, bounds) ==
    Writable /\ AppendStandaloneEdge(t, bounds) /\ UNCHANGED clock

SettleSpend(r, amount, c) == Writable /\ AppendSpend(r, amount, c) /\ UNCHANGED clock

Adjust(allowance) ==
    /\ Writable
    /\ allowance > 0
    /\ Cardinality(Unreleased) <= allowance
    /\ contract' = allowance
    /\ UNCHANGED <<clock, reservations, travel, installed, highestDay, currency, readOnly>>

\* A newer build appends a kind this one cannot read.
NewerBuildAppends ==
    /\ readOnly' = TRUE
    /\ UNCHANGED <<clock, contract, reservations, travel, installed, highestDay, currency>>

Request ==
    [ticket : Ticket, root : Root, parent : Reservation \cup {None},
     envelope : Envelopes, reserve : Reserves, currency : Currency, travel : BOOLEAN]

LedgerNext ==
    \/ \E day \in Days : SetClock(day)
    \/ \E t \in Ticket : BindTicket(t)
    \/ \E request \in Request, arms \in SUBSET Reservation, bounds \in Bounds :
         IsFiniteSet(arms) /\ \E first \in arms : Reserve(request, arms, first, bounds)
    \/ \E r \in Reservation : RecordStart(r)
    \/ \E r \in Reservation : ReleaseUnstarted(r)
    \/ \E r \in Reservation : ReleaseTravel(r)
    \/ \E t \in Ticket, r \in Reservation : ChargeReserved(t, r)
    \/ \E t \in Ticket, bounds \in Bounds : ChargeStandalone(t, bounds)
    \/ \E r \in Reservation, amount \in Amounts, c \in Currency : SettleSpend(r, amount, c)
    \/ \E allowance \in Allowances : Adjust(allowance)
    \/ NewerBuildAppends

LedgerSpec == LedgerInit /\ [][LedgerNext]_ledgerVars

-----------------------------------------------------------------------------
(* Properties.                                                             *)

\* Every variable holds a value of the code's types.
LedgerTypeOK ==
    /\ clock \in Days
    /\ contract \in Allowances \cup {None}
    /\ Known \subseteq Reservation
    /\ IsFiniteSet(Known)
    /\ reservations \in [Known -> ReservationRecord]
    /\ travel \in [Ticket -> Nat]
    /\ installed \subseteq Ticket
    /\ highestDay \in Days \cup {0}
    /\ currency \in Currency \cup {None}
    /\ readOnly \in BOOLEAN

\* A lifetime allowance covers everything consumed or outstanding, whichever
\* contract the invocations were admitted under and however often the
\* allowance was lowered in between.
LifetimeNeverOverdrawn == contract # None => Cardinality(Unreleased) <= contract

\* Under the window contract no day ever carries more invocations than some
\* bound the settings resolved to: fanouts, clock jumps and releases included.
DayNeverOverdrawn ==
    contract = None =>
      \A day \in Days :
        OnDay(day) # {} => \E b \in Bounds : Cardinality(OnDay(day)) <= b.perDay

\* A ticket's applied and held edges never pass the largest travel bound,
\* though the standalone charge of one caller and the held units of another
\* are checked in different transactions.
TravelNeverOverdrawn ==
    \A t \in Ticket :
      TravelExposure(t) > 0 => \E b \in Bounds : TravelExposure(t) <= b.transition

\* Whatever hangs under an ancestor fits its envelope, and an ancestor with
\* descendants outstanding was started and has not been given back.
DescendantsWithinEnvelope ==
    \A p \in Known :
      Drawn(p) # {} =>
        /\ Started(p)
        /\ ~reservations[p].released
        /\ Cardinality(Drawn(p)) <= reservations[p].envelope

Consumed(day) == {r \in OnDay(day) : Started(r)}

\* A consumed invocation and an applied edge are never given back by any
\* later receipt: what a day has consumed only grows.
ConsumptionOnlyGrows ==
    [][/\ \A day \in Days : Consumed(day) \subseteq Consumed(day)'
       /\ \A t \in Ticket : travel[t] <= travel'[t]]_ledgerVars

\* A clock set back never reopens a day: a reservation is never dated before
\* one that is already on the chain.
DaysNeverReopen ==
    [][\A r \in Known' \ Known, q \in Known :
         reservations[q].window <= reservations'[r].window]_ledgerVars

\* The unit an edge consumed is no longer held, and every edge applied
\* through a reservation is in the ticket's applied count.
EdgesAreCountedOnce ==
    /\ \A r \in Known : ~(reservations[r].applied /\ reservations[r].travelHeld)
    /\ \A t \in Ticket :
         Cardinality({r \in Known : reservations[r].applied /\ reservations[r].ticket = t})
           <= travel[t]

\* A reservation's money is revised at most once, in the account's one
\* currency.
SettledOnce ==
    [][/\ \A r \in Known : reservations[r].spend # None =>
                             reservations'[r].spend = reservations[r].spend
       /\ currency # None => currency' = currency]_ledgerVars

=============================================================================
