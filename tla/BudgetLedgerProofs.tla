------------------------- MODULE BudgetLedgerProofs -------------------------
(* Theorems about the budget ledger, for every set of reservations, bounds,*)
(* allowances, amounts and days.                                           *)
EXTENDS BudgetLedger, FiniteSetTheorems, TLAPS

USE DaysAssumption, BoundsAssumption, AllowancesAssumption,
    EnvelopesAssumption, MoneyAssumption, NoneAssumption

-----------------------------------------------------------------------------
(* Typing.                                                                 *)

\* Capacity is always drawn against a day key.
LEMMA EffectiveDayTyped ==
    LedgerTypeOK => EffectiveDay \in Days /\ EffectiveDay >= highestDay
BY DEF LedgerTypeOK, EffectiveDay

\* An update of one reservation with a record keeps the map's type.
LEMMA UpdateTyped ==
    ASSUME LedgerTypeOK, NEW r \in Known, NEW rec \in ReservationRecord, Update(r, rec)
    PROVE  /\ reservations' \in [Known -> ReservationRecord]
           /\ Known' = Known
BY DEF LedgerTypeOK, Update, Known

\* Each of the record updates the receipts make is a record again.
LEMMA RecordUpdatesTyped ==
    ASSUME NEW rec \in ReservationRecord
    PROVE  /\ [rec EXCEPT !.started = TRUE] \in ReservationRecord
           /\ [rec EXCEPT !.released = TRUE, !.travelHeld = FALSE] \in ReservationRecord
           /\ [rec EXCEPT !.travelHeld = FALSE] \in ReservationRecord
           /\ [rec EXCEPT !.travelHeld = FALSE, !.applied = TRUE] \in ReservationRecord
           /\ \A amount \in Amounts : [rec EXCEPT !.spend = amount] \in ReservationRecord
BY DEF ReservationRecord

\* The replayed state keeps the types of the code's fields.
LEMMA LedgerTypePreserved == LedgerTypeOK /\ [LedgerNext]_ledgerVars => LedgerTypeOK'
<1> SUFFICES ASSUME LedgerTypeOK, [LedgerNext]_ledgerVars
             PROVE  LedgerTypeOK'
    OBVIOUS
<1> USE DEF LedgerTypeOK
<1>1. ASSUME NEW day \in Days, SetClock(day) PROVE LedgerTypeOK'
  BY <1>1 DEF SetClock, ledger, Known
<1>2. ASSUME NEW t \in Ticket, BindTicket(t) PROVE LedgerTypeOK'
  BY <1>2 DEF BindTicket, Known
<1>3. ASSUME NEW request \in Request, NEW arms \in SUBSET Reservation, IsFiniteSet(arms),
             NEW first \in arms, NEW bounds \in Bounds, Reserve(request, arms, first, bounds)
      PROVE  LedgerTypeOK'
  <2> DEFINE carries(r) == request.travel /\ r = first
  <2>1. AppendReserve(request, arms, first) /\ UNCHANGED clock
    BY <1>3 DEF Reserve
  <2>2. EffectiveDay \in Days
    BY EffectiveDayTyped
  <2>3. \A r \in arms : Arm(request, carries(r)) \in ReservationRecord
    BY <2>2 DEF Arm, Request, ReservationRecord
  <2>4. reservations' \in [Known \cup arms -> ReservationRecord] /\ Known' = Known \cup arms
    BY <2>1, <2>3 DEF AppendReserve, Known
  <2>5. IsFiniteSet(Known \cup arms)
    BY <1>3, FS_Union
  <2>6. currency' \in Currency \cup {None} /\ highestDay' \in Days
    BY <2>1, <2>2 DEF AppendReserve, Request
  <2>7. IsFiniteSet(Known')
    BY <2>4, <2>5
  <2>8. Known' \subseteq Reservation
    BY <2>4
  <2>9. reservations' \in [Known' -> ReservationRecord]
    BY <2>4
  <2> QED
    BY <2>1, <2>6, <2>7, <2>8, <2>9 DEF AppendReserve
<1>4. ASSUME NEW r \in Reservation, RecordStart(r) PROVE LedgerTypeOK'
  BY <1>4, UpdateTyped, RecordUpdatesTyped DEF RecordStart, AppendStart
<1>5. ASSUME NEW r \in Reservation, ReleaseUnstarted(r) PROVE LedgerTypeOK'
  BY <1>5, UpdateTyped, RecordUpdatesTyped DEF ReleaseUnstarted, AppendReleaseUnstarted
<1>6. ASSUME NEW r \in Reservation, ReleaseTravel(r) PROVE LedgerTypeOK'
  BY <1>6, UpdateTyped, RecordUpdatesTyped DEF ReleaseTravel, AppendReleaseTravel
<1>7. ASSUME NEW t \in Ticket, NEW r \in Reservation, ChargeReserved(t, r)
      PROVE  LedgerTypeOK'
  <2>1. reservations' \in [Known -> ReservationRecord] /\ Known' = Known
    BY <1>7, UpdateTyped, RecordUpdatesTyped DEF ChargeReserved, AppendReservedEdge
  <2>2. travel' \in [Ticket -> Nat]
    BY <1>7 DEF ChargeReserved, AppendReservedEdge
  <2> QED
    BY <1>7, <2>1, <2>2 DEF ChargeReserved, AppendReservedEdge
<1>8. ASSUME NEW t \in Ticket, NEW bounds \in Bounds, ChargeStandalone(t, bounds)
      PROVE  LedgerTypeOK'
  BY <1>8 DEF ChargeStandalone, AppendStandaloneEdge, Known
<1>9. ASSUME NEW r \in Reservation, NEW amount \in Amounts, NEW c \in Currency,
             SettleSpend(r, amount, c)
      PROVE  LedgerTypeOK'
  <2>1. reservations' \in [Known -> ReservationRecord] /\ Known' = Known
    BY <1>9, UpdateTyped, RecordUpdatesTyped DEF SettleSpend, AppendSpend
  <2>2. currency' \in Currency \cup {None}
    BY <1>9 DEF SettleSpend, AppendSpend, FixCurrency
  <2> QED
    BY <1>9, <2>1, <2>2 DEF SettleSpend, AppendSpend
<1>10. ASSUME NEW allowance \in Allowances, Adjust(allowance) PROVE LedgerTypeOK'
  BY <1>10 DEF Adjust, Known
<1>11. ASSUME NewerBuildAppends PROVE LedgerTypeOK'
  BY <1>11 DEF NewerBuildAppends, Known
<1>12. ASSUME UNCHANGED ledgerVars PROVE LedgerTypeOK'
  BY <1>12 DEF ledgerVars, ledger, Known
<1> QED
  BY <1>1, <1>2, <1>3, <1>4, <1>5, <1>6, <1>7, <1>8, <1>9, <1>10, <1>11, <1>12
     DEF LedgerNext

LEMMA LedgerInitTyped == LedgerInit => LedgerTypeOK
<1> SUFFICES ASSUME LedgerInit PROVE LedgerTypeOK
    OBVIOUS
<1>1. Known = {} /\ reservations \in [Known -> ReservationRecord]
  BY DEF LedgerInit, Known
<1>2. IsFiniteSet(Known)
  BY <1>1, FS_EmptySet
<1> QED
  BY <1>1, <1>2 DEF LedgerInit, LedgerTypeOK

\* Every variable always has the type of the field it stands for.
THEOREM LedgerTypeCorrect == LedgerSpec => []LedgerTypeOK
BY LedgerInitTyped, LedgerTypePreserved, PTL DEF LedgerSpec

-----------------------------------------------------------------------------
(* The shape of a step.  Two operations have a case of their own below:    *)
(* Reserve adds reservations and Adjust changes the contract.  Every other *)
(* one keeps what the limits are counted from, and can only lower it.      *)

\* What such a step keeps of one reservation's record.
KeepsExposure(old, new) ==
    /\ new.parent = old.parent
    /\ new.envelope = old.envelope
    /\ new.window = old.window
    /\ new.ticket = old.ticket
    /\ old.started => new.started
    /\ old.released => new.released
    /\ old.started /\ ~old.released => ~new.released

KeepsLedger ==
    /\ Known' = Known
    /\ \A q \in Known : KeepsExposure(reservations[q], reservations'[q])
    /\ UNCHANGED <<contract, highestDay>>

\* The record updates of the receipts keep its exposure.
LEMMA RecordUpdatesKeep ==
    ASSUME NEW rec \in ReservationRecord
    PROVE  /\ KeepsExposure(rec, [rec EXCEPT !.started = TRUE])
           /\ ~rec.started =>
                KeepsExposure(rec, [rec EXCEPT !.released = TRUE, !.travelHeld = FALSE])
           /\ KeepsExposure(rec, [rec EXCEPT !.travelHeld = FALSE])
           /\ KeepsExposure(rec, [rec EXCEPT !.travelHeld = FALSE, !.applied = TRUE])
           /\ \A amount : KeepsExposure(rec, [rec EXCEPT !.spend = amount])
BY DEF ReservationRecord, KeepsExposure

\* An update of one reservation that keeps its exposure keeps the ledger's.
LEMMA UpdateKeeps ==
    ASSUME LedgerTypeOK, NEW r \in Known, NEW rec, Update(r, rec),
           KeepsExposure(reservations[r], rec),
           UNCHANGED <<contract, highestDay>>
    PROVE  KeepsLedger
<1>1. reservations' = [reservations EXCEPT ![r] = rec] /\ Known' = Known
  BY DEF LedgerTypeOK, Update, Known
<1>2. \A q \in Known : KeepsExposure(reservations[q], reservations'[q])
  <2> TAKE q \in Known
  <2>1. CASE q = r
    BY <1>1, <2>1 DEF LedgerTypeOK
  <2>2. CASE q # r
    BY <1>1, <2>2 DEF LedgerTypeOK, KeepsExposure
  <2> QED
    BY <2>1, <2>2
<1> QED
  BY <1>1, <1>2 DEF KeepsLedger

\* Every step keeps the ledger, admits a group, or changes the contract.
LEMMA StepShape ==
    ASSUME LedgerTypeOK, [LedgerNext]_ledgerVars
    PROVE  \/ KeepsLedger
           \/ \E request \in Request, arms \in SUBSET Reservation, bounds \in Bounds :
                IsFiniteSet(arms) /\ \E first \in arms : Reserve(request, arms, first, bounds)
           \/ \E allowance \in Allowances : Adjust(allowance)
<1> USE DEF LedgerTypeOK
<1>1. ASSUME UNCHANGED <<reservations, contract, highestDay>> PROVE KeepsLedger
  BY <1>1 DEF KeepsLedger, KeepsExposure, Known
<1>2. ASSUME NEW day \in Days, SetClock(day) PROVE KeepsLedger
  BY <1>1, <1>2 DEF SetClock, ledger
<1>3. ASSUME NEW t \in Ticket, BindTicket(t) PROVE KeepsLedger
  BY <1>1, <1>3 DEF BindTicket
<1>4. ASSUME NEW r \in Reservation, RecordStart(r) PROVE KeepsLedger
  <2>1. r \in Known /\ reservations[r] \in ReservationRecord
    BY <1>4 DEF RecordStart, AppendStart
  <2> QED
    BY <1>4, <2>1, UpdateKeeps, RecordUpdatesKeep
       DEF RecordStart, AppendStart
<1>5. ASSUME NEW r \in Reservation, ReleaseUnstarted(r) PROVE KeepsLedger
  <2>1. r \in Known /\ reservations[r] \in ReservationRecord
    BY <1>5 DEF ReleaseUnstarted, AppendReleaseUnstarted
  <2> QED
    BY <1>5, <2>1, UpdateKeeps, RecordUpdatesKeep
       DEF ReleaseUnstarted, AppendReleaseUnstarted, Started
<1>6. ASSUME NEW r \in Reservation, ReleaseTravel(r) PROVE KeepsLedger
  <2>1. r \in Known /\ reservations[r] \in ReservationRecord
    BY <1>6 DEF ReleaseTravel, AppendReleaseTravel
  <2> QED
    BY <1>6, <2>1, UpdateKeeps, RecordUpdatesKeep
       DEF ReleaseTravel, AppendReleaseTravel
<1>7. ASSUME NEW t \in Ticket, NEW r \in Reservation, ChargeReserved(t, r) PROVE KeepsLedger
  <2>1. r \in Known /\ reservations[r] \in ReservationRecord
    BY <1>7 DEF ChargeReserved, AppendReservedEdge
  <2> QED
    BY <1>7, <2>1, UpdateKeeps, RecordUpdatesKeep
       DEF ChargeReserved, AppendReservedEdge
<1>8. ASSUME NEW t \in Ticket, NEW bounds \in Bounds, ChargeStandalone(t, bounds)
      PROVE  KeepsLedger
  BY <1>1, <1>8 DEF ChargeStandalone, AppendStandaloneEdge
<1>9. ASSUME NEW r \in Reservation, NEW amount \in Amounts, NEW c \in Currency,
             SettleSpend(r, amount, c)
      PROVE  KeepsLedger
  <2>1. r \in Known /\ reservations[r] \in ReservationRecord
    BY <1>9 DEF SettleSpend, AppendSpend
  <2> QED
    BY <1>9, <2>1, UpdateKeeps, RecordUpdatesKeep
       DEF SettleSpend, AppendSpend
<1>10. ASSUME NewerBuildAppends PROVE KeepsLedger
  BY <1>1, <1>10 DEF NewerBuildAppends
<1>11. ASSUME UNCHANGED ledgerVars PROVE KeepsLedger
  BY <1>1, <1>11 DEF ledgerVars, ledger
<1> QED
  BY <1>2, <1>3, <1>4, <1>5, <1>6, <1>7, <1>8, <1>9, <1>10, <1>11 DEF LedgerNext

-----------------------------------------------------------------------------
(* The limits.                                                             *)

\* No reservation is dated after the highest day on the chain.
WindowsRecorded == \A r \in Known : reservations[r].window <= highestDay

\* An ancestor is itself on the chain.
AncestorsRecorded == \A r \in Known : reservations[r].parent \in Known \cup {None}

\* The inductive invariant.  An admission is checked against the bounds it
\* was called with alone, so what earlier ones took has to be in it; the
\* parents have to be on the chain, or a fresh id could arrive with children.
LedgerInv ==
    /\ LedgerTypeOK
    /\ WindowsRecorded
    /\ AncestorsRecorded
    /\ LifetimeNeverOverdrawn
    /\ DayNeverOverdrawn
    /\ DescendantsWithinEnvelope

\* Cardinalities of disjoint finite sets add up.
LEMMA DisjointUnion ==
    ASSUME NEW S, NEW T, IsFiniteSet(S), IsFiniteSet(T), S \cap T = {}
    PROVE  IsFiniteSet(S \cup T) /\ Cardinality(S \cup T) = Cardinality(S) + Cardinality(T)
<1>1. Cardinality(S) \in Nat /\ Cardinality(T) \in Nat
  BY FS_CardinalityType
<1>2. Cardinality(S \cap T) = 0
  BY FS_EmptySet
<1> QED
  BY <1>1, <1>2, FS_Union

\* The sets the limits count are finite.
LEMMA CountedSetsFinite ==
    ASSUME LedgerTypeOK
    PROVE  /\ IsFiniteSet(Unreleased) /\ Cardinality(Unreleased) \in Nat
           /\ \A day : IsFiniteSet(OnDay(day)) /\ Cardinality(OnDay(day)) \in Nat
           /\ \A p : IsFiniteSet(Drawn(p)) /\ Cardinality(Drawn(p)) \in Nat
<1>1. IsFiniteSet(Unreleased)
  BY FS_Subset DEF LedgerTypeOK, Unreleased
<1>2. \A day : IsFiniteSet(OnDay(day))
  BY <1>1, FS_Subset DEF OnDay
<1>3. \A p : IsFiniteSet(Drawn(p))
  BY <1>1, FS_Subset DEF Drawn
<1> QED
  BY <1>1, <1>2, <1>3, FS_CardinalityType

\* A step that keeps the ledger lets no count grow.
LEMMA KeepShrinks ==
    ASSUME LedgerTypeOK, KeepsLedger
    PROVE  /\ Unreleased' \subseteq Unreleased
           /\ Cardinality(Unreleased') <= Cardinality(Unreleased)
           /\ \A day : /\ OnDay(day)' \subseteq OnDay(day)
                       /\ Cardinality(OnDay(day)') <= Cardinality(OnDay(day))
           /\ \A p : /\ Drawn(p)' \subseteq Drawn(p)
                     /\ Cardinality(Drawn(p)') <= Cardinality(Drawn(p))
<1>1. Unreleased' \subseteq Unreleased
  BY DEF KeepsLedger, KeepsExposure, Unreleased
<1>2. \A day : OnDay(day)' \subseteq OnDay(day)
  BY DEF KeepsLedger, KeepsExposure, OnDay, Unreleased
<1>3. \A p : Drawn(p)' \subseteq Drawn(p)
  BY DEF KeepsLedger, KeepsExposure, Drawn, Unreleased
<1> QED
  BY <1>1, <1>2, <1>3, CountedSetsFinite, FS_Subset

\* What an admission adds to each count: its arms, to the effective day and
\* to its ancestor alone.
AdmissionAdds(request, arms) ==
    /\ arms \cap Known = {}
    /\ Known' = Known \cup arms
    /\ \A r \in Known : reservations'[r] = reservations[r]
    /\ \A r \in arms : /\ reservations'[r].window = EffectiveDay
                      /\ reservations'[r].parent = request.parent
                      /\ ~reservations'[r].released
    /\ Unreleased' = Unreleased \cup arms
    /\ \A day : OnDay(day)' =
                 IF day = EffectiveDay THEN OnDay(day) \cup arms ELSE OnDay(day)
    /\ \A p : Drawn(p)' = IF p = request.parent THEN Drawn(p) \cup arms ELSE Drawn(p)

LEMMA ReserveAdds ==
    ASSUME LedgerTypeOK, NEW request \in Request, NEW arms \in SUBSET Reservation,
           NEW first \in arms, NEW bounds \in Bounds, Reserve(request, arms, first, bounds)
    PROVE  AdmissionAdds(request, arms)
<1>1. arms \cap Known = {}
  BY DEF Reserve, Admissible
<1>2. Known' = Known \cup arms
  BY DEF Reserve, AppendReserve, Known
<1>3. \A r \in Known : reservations'[r] = reservations[r]
  BY <1>1 DEF Reserve, AppendReserve
<1>4. \A r \in arms : /\ reservations'[r].window = EffectiveDay
                     /\ reservations'[r].parent = request.parent
                     /\ ~reservations'[r].released
  BY DEF Reserve, AppendReserve, Arm
<1>5. Unreleased' = Unreleased \cup arms
  BY <1>1, <1>2, <1>3, <1>4 DEF Unreleased
<1>6. \A day : OnDay(day)' =
               IF day = EffectiveDay THEN OnDay(day) \cup arms ELSE OnDay(day)
  BY <1>1, <1>3, <1>4, <1>5 DEF OnDay, Unreleased
<1>7. \A p : Drawn(p)' = IF p = request.parent THEN Drawn(p) \cup arms ELSE Drawn(p)
  BY <1>1, <1>3, <1>4, <1>5 DEF Drawn, Unreleased
<1> QED
  BY <1>1, <1>2, <1>3, <1>4, <1>5, <1>6, <1>7 DEF AdmissionAdds

\* Arms of an admission and what they are added to are disjoint.
LEMMA ArmsAreNew ==
    ASSUME LedgerTypeOK, NEW arms, arms \cap Known = {}
    PROVE  /\ arms \cap Unreleased = {}
           /\ \A day : arms \cap OnDay(day) = {}
           /\ \A p : arms \cap Drawn(p) = {}
BY DEF Unreleased, OnDay, Drawn

\* Steps that keep the ledger preserve the invariant.
LEMMA KeepPreserves == LedgerInv /\ LedgerTypeOK' /\ KeepsLedger => LedgerInv'
<1> SUFFICES ASSUME LedgerInv, LedgerTypeOK', KeepsLedger
             PROVE  LedgerInv'
    OBVIOUS
<1> USE DEF LedgerInv
<1>1. WindowsRecorded' /\ AncestorsRecorded'
  BY DEF WindowsRecorded, AncestorsRecorded, KeepsLedger, KeepsExposure
<1>2. LifetimeNeverOverdrawn'
  <2> SUFFICES ASSUME contract' # None
               PROVE  Cardinality(Unreleased') <= contract'
      BY DEF LifetimeNeverOverdrawn
  <2>1. contract' = contract /\ contract \in Nat
    BY DEF KeepsLedger, LedgerTypeOK
  <2>2. Cardinality(Unreleased') \in Nat /\ Cardinality(Unreleased) \in Nat
    BY CountedSetsFinite, KeepShrinks, FS_Subset, FS_CardinalityType
  <2> QED
    BY <2>1, <2>2, KeepShrinks DEF LifetimeNeverOverdrawn
<1>3. DayNeverOverdrawn'
  <2> SUFFICES ASSUME contract' = None, NEW day \in Days, OnDay(day)' # {}
               PROVE  \E b \in Bounds : Cardinality(OnDay(day)') <= b.perDay
      BY DEF DayNeverOverdrawn
  <2>1. contract = None /\ OnDay(day) # {}
    BY KeepShrinks DEF KeepsLedger
  <2>2. PICK b \in Bounds : Cardinality(OnDay(day)) <= b.perDay
    BY <2>1 DEF DayNeverOverdrawn
  <2>3. Cardinality(OnDay(day)') \in Nat /\ Cardinality(OnDay(day)) \in Nat /\ b.perDay \in Nat
    BY CountedSetsFinite, KeepShrinks, FS_Subset, FS_CardinalityType
  <2> QED
    BY <2>2, <2>3, KeepShrinks
<1>4. DescendantsWithinEnvelope'
  <2> SUFFICES ASSUME NEW p \in Known, Drawn(p)' # {}
               PROVE  /\ reservations'[p].started
                      /\ ~reservations'[p].released
                      /\ Cardinality(Drawn(p)') <= reservations'[p].envelope
      BY DEF DescendantsWithinEnvelope, Started, KeepsLedger
  <2>1. Drawn(p) # {} /\ Cardinality(Drawn(p)') <= Cardinality(Drawn(p))
    BY KeepShrinks
  <2>2. /\ reservations[p].started
        /\ ~reservations[p].released
        /\ Cardinality(Drawn(p)) <= reservations[p].envelope
    BY <2>1 DEF DescendantsWithinEnvelope, Started
  <2>3. Cardinality(Drawn(p)') \in Nat /\ Cardinality(Drawn(p)) \in Nat
    BY CountedSetsFinite, KeepShrinks, FS_Subset, FS_CardinalityType
  <2>4. reservations[p].envelope \in Nat
    BY DEF LedgerTypeOK, ReservationRecord
  <2> QED
    BY <2>1, <2>2, <2>3, <2>4 DEF KeepsLedger, KeepsExposure
<1> QED
  BY <1>1, <1>2, <1>3, <1>4

\* An admission preserves the invariant: each limit it is checked against
\* holds for everything already counted and its own arms.
LEMMA ReservePreserves ==
    ASSUME LedgerInv, LedgerTypeOK',
           NEW request \in Request, NEW arms \in SUBSET Reservation, IsFiniteSet(arms),
           NEW first \in arms, NEW bounds \in Bounds, Reserve(request, arms, first, bounds)
    PROVE  LedgerInv'
<1> USE DEF LedgerInv
<1>r. AdmissionAdds(request, arms)
  BY ReserveAdds
<1>0. /\ arms \cap Known = {} /\ Cardinality(arms) \in Nat /\ contract' = contract
      /\ highestDay' = EffectiveDay
  BY <1>r, FS_CardinalityType DEF Reserve, AppendReserve, AdmissionAdds
<1>1. WindowsRecorded'
  <2>1. EffectiveDay \in Nat /\ highestDay \in Nat /\ highestDay <= EffectiveDay
    BY DEF LedgerTypeOK, EffectiveDay
  <2>2. \A r \in Known : reservations[r].window \in Nat
    BY DEF LedgerTypeOK, ReservationRecord
  <2> QED
    BY <1>0, <2>1, <2>2, <1>r DEF WindowsRecorded, AdmissionAdds
<1>2. AncestorsRecorded'
  <2>1. request.parent \in Known \cup {None}
    BY DEF Reserve, Admissible, AncestorUsable
  <2> QED
    BY <2>1, <1>r DEF AncestorsRecorded, AdmissionAdds
<1>3. LifetimeNeverOverdrawn'
  <2> SUFFICES ASSUME contract # None
               PROVE  Cardinality(Unreleased') <= contract
      BY <1>0 DEF LifetimeNeverOverdrawn
  <2>1. Cardinality(Unreleased) + Cardinality(arms) <= contract
    BY DEF Reserve, Admissible, InvocationExposure
  <2>2. Cardinality(Unreleased \cup arms) = Cardinality(Unreleased) + Cardinality(arms)
    BY <1>0, CountedSetsFinite, ArmsAreNew, DisjointUnion
  <2> QED
    BY <2>1, <2>2, <1>r DEF AdmissionAdds
<1>4. DayNeverOverdrawn'
  <2> SUFFICES ASSUME contract = None, NEW day \in Days, OnDay(day)' # {}
               PROVE  \E b \in Bounds : Cardinality(OnDay(day)') <= b.perDay
      BY <1>0 DEF DayNeverOverdrawn
  <2>1. CASE day = EffectiveDay
    <3>1. Cardinality(OnDay(day)) + Cardinality(arms) <= bounds.perDay
      BY <2>1 DEF Reserve, Admissible, InvocationExposure
    <3>2. Cardinality(OnDay(day) \cup arms) = Cardinality(OnDay(day)) + Cardinality(arms)
      BY <1>0, CountedSetsFinite, ArmsAreNew, DisjointUnion
    <3> QED
      BY <2>1, <3>1, <3>2, <1>r DEF AdmissionAdds
  <2>2. CASE day # EffectiveDay
    BY <2>2, <1>r DEF DayNeverOverdrawn, AdmissionAdds
  <2> QED
    BY <2>1, <2>2
<1>5. DescendantsWithinEnvelope'
  <2> SUFFICES ASSUME NEW p \in Known \cup arms, Drawn(p)' # {}
               PROVE  /\ reservations'[p].started
                      /\ ~reservations'[p].released
                      /\ Cardinality(Drawn(p)') <= reservations'[p].envelope
      BY <1>r DEF DescendantsWithinEnvelope, Started, AdmissionAdds
  <2>1. p # None
    BY DEF LedgerTypeOK
  <2>2. CASE p = request.parent
    <3>1. /\ p \in Known
          /\ ~reservations[p].released
          /\ reservations[p].started
          /\ Cardinality(Drawn(p)) + Cardinality(arms) <= reservations[p].envelope
      BY <2>1, <2>2 DEF Reserve, Admissible, AncestorUsable, Started
    <3>2. Cardinality(Drawn(p) \cup arms) = Cardinality(Drawn(p)) + Cardinality(arms)
      BY <1>0, CountedSetsFinite, ArmsAreNew, DisjointUnion
    <3> QED
      BY <2>2, <3>1, <3>2, <1>r DEF AdmissionAdds
  <2>3. CASE p # request.parent
    <3>1. Drawn(p)' = Drawn(p) /\ Drawn(p) # {}
      BY <2>3, <1>r DEF AdmissionAdds
    <3>2. p \in Known
      BY <2>1, <3>1 DEF AncestorsRecorded, Drawn, Unreleased
    <3> QED
      BY <3>1, <3>2, <1>r DEF DescendantsWithinEnvelope, Started, AdmissionAdds
  <2> QED
    BY <2>2, <2>3
<1> QED
  BY <1>1, <1>2, <1>3, <1>4, <1>5

\* A new allowance covers what is already consumed or outstanding.
LEMMA AdjustPreserves ==
    ASSUME LedgerInv, LedgerTypeOK', NEW allowance \in Allowances, Adjust(allowance)
    PROVE  LedgerInv'
<1>1. UNCHANGED <<reservations, highestDay>> /\ contract' = allowance /\ allowance # None
  BY DEF Adjust
<1>2. Unreleased' = Unreleased /\ Known' = Known
  BY <1>1 DEF Unreleased, Known
<1>3. LifetimeNeverOverdrawn' /\ DayNeverOverdrawn'
  BY <1>1, <1>2 DEF LifetimeNeverOverdrawn, DayNeverOverdrawn, Adjust
<1>4. WindowsRecorded' /\ AncestorsRecorded' /\ DescendantsWithinEnvelope'
  BY <1>1, <1>2 DEF LedgerInv, WindowsRecorded, AncestorsRecorded,
                    DescendantsWithinEnvelope, Drawn, Started
<1> QED
  BY <1>3, <1>4 DEF LedgerInv

LEMMA LedgerInvInit == LedgerInit => LedgerInv
<1> SUFFICES ASSUME LedgerInit PROVE LedgerInv
    OBVIOUS
<1>1. Known = {} /\ contract = None
  BY DEF LedgerInit, Known
<1>2. \A day : OnDay(day) = {}
  BY <1>1 DEF OnDay, Unreleased
<1> QED
  BY <1>1, <1>2, LedgerInitTyped
     DEF LedgerInv, WindowsRecorded, AncestorsRecorded, LifetimeNeverOverdrawn,
         DayNeverOverdrawn, DescendantsWithinEnvelope

LEMMA LedgerInvPreserved == LedgerInv /\ [LedgerNext]_ledgerVars => LedgerInv'
BY LedgerTypePreserved, StepShape, KeepPreserves, ReservePreserves, AdjustPreserves
   DEF LedgerInv

LEMMA LedgerInvariant == LedgerSpec => []LedgerInv
BY LedgerInvInit, LedgerInvPreserved, PTL DEF LedgerSpec

\* A lifetime allowance covers everything consumed or outstanding.
THEOREM LifetimeIsSafe == LedgerSpec => []LifetimeNeverOverdrawn
<1>1. LedgerInv => LifetimeNeverOverdrawn
  BY DEF LedgerInv
<1> QED
  BY <1>1, LedgerInvariant, PTL

\* No day carries more invocations than some bound the settings resolved to.
THEOREM DayIsSafe == LedgerSpec => []DayNeverOverdrawn
<1>1. LedgerInv => DayNeverOverdrawn
  BY DEF LedgerInv
<1> QED
  BY <1>1, LedgerInvariant, PTL

\* What hangs under an ancestor fits its envelope, and the ancestor was
\* started and never given back.
THEOREM EnvelopeIsSafe == LedgerSpec => []DescendantsWithinEnvelope
<1>1. LedgerInv => DescendantsWithinEnvelope
  BY DEF LedgerInv
<1> QED
  BY <1>1, LedgerInvariant, PTL

-----------------------------------------------------------------------------
(* What no step may do.                                                    *)

\* An applied edge is never taken back.
LEMMA TravelGrows ==
    ASSUME LedgerTypeOK, [LedgerNext]_ledgerVars
    PROVE  \A t \in Ticket : travel[t] <= travel'[t]
<1>1. ASSUME UNCHANGED travel PROVE \A t \in Ticket : travel[t] <= travel'[t]
  BY <1>1 DEF LedgerTypeOK
<1>2. ASSUME NEW t \in Ticket, travel' = [travel EXCEPT ![t] = @ + 1]
      PROVE  \A u \in Ticket : travel[u] <= travel'[u]
  BY <1>2 DEF LedgerTypeOK
<1> QED
  BY <1>1, <1>2
     DEF LedgerNext, ledgerVars, ledger, SetClock, BindTicket, Reserve, AppendReserve,
         RecordStart, AppendStart, ReleaseUnstarted, AppendReleaseUnstarted,
         ReleaseTravel, AppendReleaseTravel, ChargeReserved, AppendReservedEdge,
         ChargeStandalone, AppendStandaloneEdge, SettleSpend, AppendSpend, Adjust,
         NewerBuildAppends

\* A started, unreleased reservation stays one, on its day.
LEMMA ConsumedGrows ==
    ASSUME LedgerTypeOK, [LedgerNext]_ledgerVars
    PROVE  \A day \in Days : Consumed(day) \subseteq Consumed(day)'
<1>1. CASE KeepsLedger
  BY <1>1 DEF KeepsLedger, KeepsExposure, Consumed, OnDay, Unreleased, Started
<1>2. ASSUME NEW request \in Request, NEW arms \in SUBSET Reservation, NEW first \in arms,
             NEW bounds \in Bounds, Reserve(request, arms, first, bounds)
      PROVE  \A day \in Days : Consumed(day) \subseteq Consumed(day)'
  <2>1. AdmissionAdds(request, arms)
    BY <1>2, ReserveAdds
  <2> QED
    BY <2>1 DEF AdmissionAdds, Consumed, OnDay, Unreleased, Started
<1>3. ASSUME NEW allowance \in Allowances, Adjust(allowance)
      PROVE  \A day \in Days : Consumed(day) \subseteq Consumed(day)'
  BY <1>3 DEF Adjust, Consumed, OnDay, Unreleased, Started, Known
<1> QED
  BY <1>1, <1>2, <1>3, StepShape

\* What a day has consumed and a ticket has travelled is never given back.
THEOREM ConsumptionIsKept == LedgerSpec => ConsumptionOnlyGrows
<1>1. LedgerTypeOK /\ [LedgerNext]_ledgerVars =>
        [/\ \A day \in Days : Consumed(day) \subseteq Consumed(day)'
         /\ \A t \in Ticket : travel[t] <= travel'[t]]_ledgerVars
  BY TravelGrows, ConsumedGrows
<1> QED
  BY <1>1, LedgerTypeCorrect, PTL DEF LedgerSpec, ConsumptionOnlyGrows

\* An admission is dated on or after every reservation on the chain.
LEMMA AdmissionsAreDatedLast ==
    ASSUME LedgerInv, [LedgerNext]_ledgerVars
    PROVE  \A r \in Known' \ Known, q \in Known :
             reservations[q].window <= reservations'[r].window
<1> USE DEF LedgerInv
<1>1. CASE KeepsLedger
  BY <1>1 DEF KeepsLedger
<1>2. ASSUME NEW request \in Request, NEW arms \in SUBSET Reservation, NEW first \in arms,
             NEW bounds \in Bounds, Reserve(request, arms, first, bounds),
             NEW r \in Known' \ Known, NEW q \in Known
      PROVE  reservations[q].window <= reservations'[r].window
  <2>1. AdmissionAdds(request, arms)
    BY <1>2, ReserveAdds
  <2>2. reservations'[r].window = EffectiveDay
    BY <2>1 DEF AdmissionAdds
  <2>3. reservations[q].window <= highestDay /\ reservations[q].window \in Nat
    BY DEF WindowsRecorded, LedgerTypeOK, ReservationRecord
  <2>4. EffectiveDay \in Nat /\ highestDay \in Nat /\ highestDay <= EffectiveDay
    BY DEF LedgerTypeOK, EffectiveDay
  <2> QED
    BY <2>2, <2>3, <2>4
<1>3. ASSUME NEW allowance \in Allowances, Adjust(allowance) PROVE Known' = Known
  BY <1>3 DEF Adjust, Known
<1> QED
  BY <1>1, <1>2, <1>3, StepShape

\* A clock set back never reopens a day.
THEOREM DaysStayClosed == LedgerSpec => DaysNeverReopen
<1>1. LedgerInv /\ [LedgerNext]_ledgerVars =>
        [\A r \in Known' \ Known, q \in Known :
           reservations[q].window <= reservations'[r].window]_ledgerVars
  BY AdmissionsAreDatedLast
<1> QED
  BY <1>1, LedgerInvariant, PTL DEF LedgerSpec, DaysNeverReopen

-----------------------------------------------------------------------------
(* Travel.  Three kinds of step change what a ticket's bound is weighed    *)
(* against: an admission, and the two ways an edge is charged.             *)

\* What every other step keeps of one reservation's travel unit.
KeepsUnit(old, new) ==
    /\ new.ticket = old.ticket
    /\ old.released => new.released
    /\ new.travelHeld => old.travelHeld
    /\ new.applied = old.applied

KeepsTravel ==
    /\ Known' = Known
    /\ \A q \in Known : KeepsUnit(reservations[q], reservations'[q])
    /\ UNCHANGED travel

\* An update of one reservation that keeps its unit keeps everybody's.
LEMMA UpdateKeepsTravel ==
    ASSUME LedgerTypeOK, NEW r \in Known, NEW rec, Update(r, rec),
           KeepsUnit(reservations[r], rec), UNCHANGED travel
    PROVE  KeepsTravel
<1>1. reservations' = [reservations EXCEPT ![r] = rec] /\ Known' = Known
  BY DEF LedgerTypeOK, Update, Known
<1>2. \A q \in Known : KeepsUnit(reservations[q], reservations'[q])
  <2> TAKE q \in Known
  <2>1. CASE q = r
    BY <1>1, <2>1 DEF LedgerTypeOK
  <2>2. CASE q # r
    BY <1>1, <2>2 DEF LedgerTypeOK, KeepsUnit
  <2> QED
    BY <2>1, <2>2
<1> QED
  BY <1>1, <1>2 DEF KeepsTravel

\* Every step keeps the units, admits a group, or charges an edge.
LEMMA TravelShape ==
    ASSUME LedgerTypeOK, [LedgerNext]_ledgerVars
    PROVE  \/ KeepsTravel
           \/ \E request \in Request, arms \in SUBSET Reservation, bounds \in Bounds :
                \E first \in arms : Reserve(request, arms, first, bounds)
           \/ \E t \in Ticket, r \in Reservation : ChargeReserved(t, r)
           \/ \E t \in Ticket, bounds \in Bounds : ChargeStandalone(t, bounds)
<1> USE DEF LedgerTypeOK
<1>1. ASSUME UNCHANGED <<reservations, travel>> PROVE KeepsTravel
  BY <1>1 DEF KeepsTravel, KeepsUnit, Known
<1>2. ASSUME NEW day \in Days, SetClock(day) PROVE KeepsTravel
  BY <1>1, <1>2 DEF SetClock, ledger
<1>3. ASSUME NEW t \in Ticket, BindTicket(t) PROVE KeepsTravel
  BY <1>1, <1>3 DEF BindTicket
<1>4. ASSUME NEW r \in Reservation, RecordStart(r) PROVE KeepsTravel
  <2>1. KeepsUnit(reservations[r], [reservations[r] EXCEPT !.started = TRUE]) /\ r \in Known
    BY <1>4 DEF RecordStart, AppendStart, KeepsUnit, ReservationRecord
  <2> QED
    BY <1>4, <2>1, UpdateKeepsTravel DEF RecordStart, AppendStart
<1>5. ASSUME NEW r \in Reservation, ReleaseUnstarted(r) PROVE KeepsTravel
  <2>1. /\ KeepsUnit(reservations[r],
                     [reservations[r] EXCEPT !.released = TRUE, !.travelHeld = FALSE])
        /\ r \in Known
    BY <1>5 DEF ReleaseUnstarted, AppendReleaseUnstarted, KeepsUnit, ReservationRecord
  <2> QED
    BY <1>5, <2>1, UpdateKeepsTravel DEF ReleaseUnstarted, AppendReleaseUnstarted
<1>6. ASSUME NEW r \in Reservation, ReleaseTravel(r) PROVE KeepsTravel
  <2>1. KeepsUnit(reservations[r], [reservations[r] EXCEPT !.travelHeld = FALSE]) /\ r \in Known
    BY <1>6 DEF ReleaseTravel, AppendReleaseTravel, KeepsUnit, ReservationRecord
  <2> QED
    BY <1>6, <2>1, UpdateKeepsTravel DEF ReleaseTravel, AppendReleaseTravel
<1>7. ASSUME NEW r \in Reservation, NEW amount \in Amounts, NEW c \in Currency,
             SettleSpend(r, amount, c)
      PROVE  KeepsTravel
  <2>1. KeepsUnit(reservations[r], [reservations[r] EXCEPT !.spend = amount]) /\ r \in Known
    BY <1>7 DEF SettleSpend, AppendSpend, KeepsUnit, ReservationRecord
  <2> QED
    BY <1>7, <2>1, UpdateKeepsTravel DEF SettleSpend, AppendSpend
<1>8. ASSUME NEW allowance \in Allowances, Adjust(allowance) PROVE KeepsTravel
  BY <1>1, <1>8 DEF Adjust
<1>9. ASSUME NewerBuildAppends PROVE KeepsTravel
  BY <1>1, <1>9 DEF NewerBuildAppends
<1>10. ASSUME UNCHANGED ledgerVars PROVE KeepsTravel
  BY <1>1, <1>10 DEF ledgerVars, ledger
<1> QED
  BY <1>2, <1>3, <1>4, <1>5, <1>6, <1>7, <1>8, <1>9, <1>10 DEF LedgerNext

\* The reservations an edge of the ticket was applied through.
AppliedThrough(t) == {r \in Known : reservations[r].applied /\ reservations[r].ticket = t}

LEMMA TravelSetsFinite ==
    ASSUME LedgerTypeOK
    PROVE  /\ \A t : IsFiniteSet(HeldTravel(t)) /\ Cardinality(HeldTravel(t)) \in Nat
           /\ \A t : IsFiniteSet(AppliedThrough(t)) /\ Cardinality(AppliedThrough(t)) \in Nat
           /\ \A t \in Ticket : travel[t] \in Nat /\ TravelExposure(t) \in Nat
<1>1. \A t : IsFiniteSet(HeldTravel(t))
  BY FS_Subset DEF LedgerTypeOK, HeldTravel, Unreleased
<1>2. \A t : IsFiniteSet(AppliedThrough(t))
  BY FS_Subset DEF LedgerTypeOK, AppliedThrough
<1>3. \A t : Cardinality(HeldTravel(t)) \in Nat /\ Cardinality(AppliedThrough(t)) \in Nat
  BY <1>1, <1>2, FS_CardinalityType
<1> QED
  BY <1>1, <1>2, <1>3 DEF LedgerTypeOK, TravelExposure

\* What charging a held unit does to the units and edges of each ticket: the
\* one set loses what the other gains.
LEMMA EdgeConverts ==
    ASSUME LedgerTypeOK, NEW t \in Ticket, NEW r \in Reservation, ChargeReserved(t, r)
    PROVE  /\ travel' = [travel EXCEPT ![t] = @ + 1]
           /\ r \in HeldTravel(t) /\ r \notin AppliedThrough(t)
           /\ \A u : HeldTravel(u)' = HeldTravel(u) \ {r}
           /\ AppliedThrough(t)' = AppliedThrough(t) \cup {r}
           /\ \A u : u # t => AppliedThrough(u)' = AppliedThrough(u)
<1>1. /\ r \in Known /\ reservations[r].ticket = t
      /\ reservations[r].travelHeld /\ ~reservations[r].released /\ ~reservations[r].applied
      /\ travel' = [travel EXCEPT ![t] = @ + 1]
  BY DEF ChargeReserved, AppendReservedEdge
<1>2. /\ Known' = Known
      /\ \A q \in Known \ {r} : reservations'[q] = reservations[q]
      /\ reservations'[r] = [reservations[r] EXCEPT !.travelHeld = FALSE, !.applied = TRUE]
  BY <1>1 DEF ChargeReserved, AppendReservedEdge, Update, LedgerTypeOK, Known
<1>3. /\ reservations[r] \in ReservationRecord
      /\ reservations'[r].ticket = t /\ reservations'[r].applied /\ ~reservations'[r].travelHeld
      /\ ~reservations'[r].released
  BY <1>1, <1>2 DEF LedgerTypeOK, ReservationRecord
<1>4. \A u : HeldTravel(u)' = HeldTravel(u) \ {r}
  BY <1>1, <1>2, <1>3 DEF HeldTravel, Unreleased
<1>5. /\ AppliedThrough(t)' = AppliedThrough(t) \cup {r}
      /\ \A u : u # t => AppliedThrough(u)' = AppliedThrough(u)
  <2>1. \A u : AppliedThrough(u)' =
          {q \in Known \ {r} : reservations[q].ticket = u /\ reservations[q].applied}
            \cup (IF u = t THEN {r} ELSE {})
    BY <1>1, <1>2, <1>3 DEF AppliedThrough
  <2>2. \A u : AppliedThrough(u) =
          {q \in Known \ {r} : reservations[q].ticket = u /\ reservations[q].applied}
    BY <1>1 DEF AppliedThrough
  <2> QED
    BY <2>1, <2>2
<1> QED
  BY <1>1, <1>4, <1>5 DEF HeldTravel, Unreleased, AppliedThrough

\* A step lets no ticket's exposure grow, or has checked what it grows to.
LEMMA ExposureChecked ==
    ASSUME LedgerTypeOK, LedgerTypeOK', [LedgerNext]_ledgerVars, NEW t \in Ticket
    PROVE  \/ TravelExposure(t)' <= TravelExposure(t)
           \/ \E b \in Bounds : TravelExposure(t)' <= b.transition
<1>0. /\ travel[t] \in Nat /\ travel'[t] \in Nat
      /\ IsFiniteSet(HeldTravel(t)) /\ Cardinality(HeldTravel(t)) \in Nat
      /\ TravelExposure(t) = travel[t] + Cardinality(HeldTravel(t))
      /\ TravelExposure(t)' = travel'[t] + Cardinality(HeldTravel(t)')
  BY TravelSetsFinite DEF LedgerTypeOK, TravelExposure
<1>1. CASE KeepsTravel
  <2>1. HeldTravel(t)' \subseteq HeldTravel(t) /\ travel'[t] = travel[t]
    BY <1>1 DEF KeepsTravel, KeepsUnit, HeldTravel, Unreleased
  <2>2. /\ Cardinality(HeldTravel(t)') <= Cardinality(HeldTravel(t))
        /\ Cardinality(HeldTravel(t)') \in Nat
    BY <1>0, <2>1, FS_Subset, FS_CardinalityType
  <2> QED
    BY <1>0, <2>1, <2>2
<1>2. ASSUME NEW request \in Request, NEW arms \in SUBSET Reservation, NEW bounds \in Bounds,
             NEW first \in arms, Reserve(request, arms, first, bounds)
      PROVE  \/ TravelExposure(t)' <= TravelExposure(t)
             \/ \E b \in Bounds : TravelExposure(t)' <= b.transition
  <2>1. AdmissionAdds(request, arms) /\ travel'[t] = travel[t]
    BY <1>2, ReserveAdds DEF Reserve, AppendReserve
  <2>2. \A r \in arms : /\ reservations'[r].travelHeld => request.travel /\ r = first
                       /\ reservations'[r].ticket = request.ticket
    BY <1>2 DEF Reserve, AppendReserve, Arm
  <2>3. CASE request.travel /\ request.ticket = t
    <3>1. TravelExposure(t) + 1 <= bounds.transition
      BY <1>2, <2>3 DEF Reserve, Admissible
    <3>2. HeldTravel(t)' \subseteq HeldTravel(t) \cup {first}
      BY <2>1, <2>2 DEF AdmissionAdds, HeldTravel, Unreleased
    <3>3. /\ IsFiniteSet(HeldTravel(t) \cup {first})
          /\ Cardinality(HeldTravel(t) \cup {first}) <= Cardinality(HeldTravel(t)) + 1
      <4>1. /\ IsFiniteSet(HeldTravel(t) \cup {first})
            /\ Cardinality(HeldTravel(t) \cup {first})
                 = IF first \in HeldTravel(t) THEN Cardinality(HeldTravel(t))
                   ELSE Cardinality(HeldTravel(t)) + 1
        BY <1>0, FS_AddElement
      <4> QED
        BY <1>0, <4>1
    <3>4. /\ Cardinality(HeldTravel(t)') <= Cardinality(HeldTravel(t) \cup {first})
          /\ Cardinality(HeldTravel(t)') \in Nat
          /\ Cardinality(HeldTravel(t) \cup {first}) \in Nat
      BY <3>2, <3>3, FS_Subset, FS_CardinalityType
    <3>5. bounds.transition \in Nat
      OBVIOUS
    <3> QED
      BY <1>0, <2>1, <3>1, <3>3, <3>4, <3>5
  <2>4. CASE ~(request.travel /\ request.ticket = t)
    <3>1. HeldTravel(t)' \subseteq HeldTravel(t)
      BY <2>1, <2>2, <2>4 DEF AdmissionAdds, HeldTravel, Unreleased
    <3>2. /\ Cardinality(HeldTravel(t)') <= Cardinality(HeldTravel(t))
          /\ Cardinality(HeldTravel(t)') \in Nat
      BY <1>0, <3>1, FS_Subset, FS_CardinalityType
    <3> QED
      BY <1>0, <2>1, <3>2
  <2> QED
    BY <2>3, <2>4
<1>3. ASSUME NEW u \in Ticket, NEW r \in Reservation, ChargeReserved(u, r)
      PROVE  TravelExposure(t)' <= TravelExposure(t)
  <2>1. /\ travel' = [travel EXCEPT ![u] = @ + 1]
        /\ r \in HeldTravel(u)
        /\ HeldTravel(t)' = HeldTravel(t) \ {r}
    BY <1>3, EdgeConverts
  <2>2. CASE t = u
    <3>1. Cardinality(HeldTravel(t)') = Cardinality(HeldTravel(t)) - 1
      BY <1>0, <2>1, <2>2, FS_RemoveElement
    <3>2. travel'[t] = travel[t] + 1
      BY <2>1, <2>2 DEF LedgerTypeOK
    <3> QED
      BY <1>0, <3>1, <3>2
  <2>3. CASE t # u
    <3>1. travel'[t] = travel[t]
      BY <2>1, <2>3 DEF LedgerTypeOK
    <3>2. /\ Cardinality(HeldTravel(t)') <= Cardinality(HeldTravel(t))
          /\ Cardinality(HeldTravel(t)') \in Nat
      BY <1>0, <2>1, FS_Subset, FS_CardinalityType
    <3> QED
      BY <1>0, <3>1, <3>2
  <2> QED
    BY <2>2, <2>3
<1>4. ASSUME NEW u \in Ticket, NEW bounds \in Bounds, ChargeStandalone(u, bounds)
      PROVE  \/ TravelExposure(t)' <= TravelExposure(t)
             \/ \E b \in Bounds : TravelExposure(t)' <= b.transition
  <2>1. /\ TravelExposure(u) + 1 <= bounds.transition
        /\ travel' = [travel EXCEPT ![u] = @ + 1]
        /\ HeldTravel(t)' = HeldTravel(t)
    BY <1>4 DEF ChargeStandalone, AppendStandaloneEdge, HeldTravel, Unreleased, Known
  <2>2. CASE t = u
    BY <1>0, <2>1, <2>2 DEF LedgerTypeOK
  <2>3. CASE t # u
    BY <1>0, <2>1, <2>3 DEF LedgerTypeOK
  <2> QED
    BY <2>2, <2>3
<1> QED
  BY <1>1, <1>2, <1>3, <1>4, TravelShape

\* A ticket's applied and held edges never pass the largest travel bound.
THEOREM TravelIsSafe == LedgerSpec => []TravelNeverOverdrawn
<1> DEFINE Inv == LedgerTypeOK /\ TravelNeverOverdrawn
<1>1. LedgerInit => Inv
  <2> SUFFICES ASSUME LedgerInit PROVE Inv
      OBVIOUS
  <2>1. \A t \in Ticket : travel[t] = 0 /\ HeldTravel(t) = {}
    BY DEF LedgerInit, HeldTravel, Unreleased, Known
  <2>0. Cardinality({}) = 0
    BY FS_EmptySet
  <2>2. ASSUME NEW t \in Ticket PROVE TravelExposure(t) = 0
    <3>1. travel[t] = 0 /\ HeldTravel(t) = {}
      BY <2>1
    <3>2. Cardinality(HeldTravel(t)) = 0
      BY <2>0, <3>1, Zenon
    <3> QED
      BY <3>1, <3>2 DEF TravelExposure
  <2>3. TravelNeverOverdrawn
    BY <2>2 DEF TravelNeverOverdrawn
  <2> QED
    BY <2>3, LedgerInitTyped
<1>2. Inv /\ [LedgerNext]_ledgerVars => Inv'
  <2> SUFFICES ASSUME Inv, [LedgerNext]_ledgerVars PROVE Inv'
      OBVIOUS
  <2>1. LedgerTypeOK'
    BY LedgerTypePreserved
  <2>2. ASSUME NEW t \in Ticket, TravelExposure(t)' > 0
        PROVE  \E b \in Bounds : TravelExposure(t)' <= b.transition
    <3>1. TravelExposure(t) \in Nat /\ TravelExposure(t)' \in Nat
      <4>1. TravelExposure(t) \in Nat
        BY TravelSetsFinite
      <4>2. IsFiniteSet(HeldTravel(t)')
        BY <2>1, FS_Subset DEF LedgerTypeOK, HeldTravel, Unreleased
      <4> QED
        BY <4>1, <4>2, <2>1, FS_CardinalityType DEF LedgerTypeOK, TravelExposure
    <3>2. CASE TravelExposure(t)' <= TravelExposure(t)
      <4>1. PICK b \in Bounds : TravelExposure(t) <= b.transition
        BY <2>2, <3>1, <3>2 DEF TravelNeverOverdrawn
      <4>2. b.transition \in Nat
        OBVIOUS
      <4> QED
        BY <3>1, <3>2, <4>1, <4>2
    <3> QED
      BY <2>1, <3>2, ExposureChecked
  <2> QED
    BY <2>1, <2>2 DEF TravelNeverOverdrawn
<1>3. Inv => TravelNeverOverdrawn
  OBVIOUS
<1> QED
  BY <1>1, <1>2, <1>3, PTL DEF LedgerSpec

\* What a step does to the edges applied through reservations: none is lost,
\* and each new one is in the ticket's applied count.
LEMMA AppliedEdgesMatch ==
    ASSUME LedgerTypeOK, LedgerTypeOK', EdgesAreCountedOnce, [LedgerNext]_ledgerVars
    PROVE  EdgesAreCountedOnce'
<1> DEFINE Exclusive == \A r \in Known : ~(reservations[r].applied /\ reservations[r].travelHeld)
<1>0. /\ Exclusive
      /\ \A t \in Ticket : /\ travel[t] \in Nat /\ travel'[t] \in Nat
                          /\ IsFiniteSet(AppliedThrough(t))
                          /\ Cardinality(AppliedThrough(t)) \in Nat
                          /\ Cardinality(AppliedThrough(t)) <= travel[t]
  BY TravelSetsFinite DEF EdgesAreCountedOnce, AppliedThrough, LedgerTypeOK
<1>1. SUFFICES /\ Exclusive'
               /\ \A t \in Ticket : Cardinality(AppliedThrough(t)') <= travel'[t]
  BY DEF EdgesAreCountedOnce, AppliedThrough
<1>2. CASE KeepsTravel
  <2>1. Exclusive'
    BY <1>0, <1>2 DEF KeepsTravel, KeepsUnit
  <2>2. \A t \in Ticket : AppliedThrough(t)' = AppliedThrough(t) /\ travel'[t] = travel[t]
    BY <1>2 DEF KeepsTravel, KeepsUnit, AppliedThrough
  <2> QED
    BY <1>0, <2>1, <2>2
<1>3. ASSUME NEW request \in Request, NEW arms \in SUBSET Reservation, NEW bounds \in Bounds,
             NEW first \in arms, Reserve(request, arms, first, bounds)
      PROVE  /\ Exclusive'
             /\ \A t \in Ticket : Cardinality(AppliedThrough(t)') <= travel'[t]
  <2>1. AdmissionAdds(request, arms) /\ travel' = travel
    BY <1>3, ReserveAdds DEF Reserve, AppendReserve
  <2>2. \A r \in arms : ~reservations'[r].applied
    BY <1>3 DEF Reserve, AppendReserve, Arm
  <2>3. Exclusive'
    BY <1>0, <2>1, <2>2 DEF AdmissionAdds
  <2>4. \A t \in Ticket : AppliedThrough(t)' = AppliedThrough(t)
    BY <2>1, <2>2 DEF AdmissionAdds, AppliedThrough
  <2> QED
    BY <1>0, <2>1, <2>3, <2>4
<1>4. ASSUME NEW u \in Ticket, NEW r \in Reservation, ChargeReserved(u, r)
      PROVE  /\ Exclusive'
             /\ \A t \in Ticket : Cardinality(AppliedThrough(t)') <= travel'[t]
  <2>1. /\ travel' = [travel EXCEPT ![u] = @ + 1]
        /\ r \notin AppliedThrough(u)
        /\ AppliedThrough(u)' = AppliedThrough(u) \cup {r}
        /\ \A t : t # u => AppliedThrough(t)' = AppliedThrough(t)
    BY <1>4, EdgeConverts
  <2>2. Exclusive'
    <3>0. /\ Known' = Known /\ r \in Known
          /\ reservations'[r] = [reservations[r] EXCEPT !.travelHeld = FALSE, !.applied = TRUE]
      BY <1>4 DEF ChargeReserved, AppendReservedEdge, Update, LedgerTypeOK, Known
    <3>1. ~reservations'[r].travelHeld
      BY <3>0 DEF LedgerTypeOK, ReservationRecord
    <3>2. \A q \in Known \ {r} : reservations'[q] = reservations[q]
      BY <1>4 DEF ChargeReserved, AppendReservedEdge, Update, LedgerTypeOK
    <3> QED
      BY <1>0, <3>0, <3>1, <3>2
  <2>3. ASSUME NEW t \in Ticket PROVE Cardinality(AppliedThrough(t)') <= travel'[t]
    <3>1. CASE t = u
      <4>1. Cardinality(AppliedThrough(u)') = Cardinality(AppliedThrough(u)) + 1
        BY <1>0, <2>1, FS_AddElement
      <4>2. travel'[u] = travel[u] + 1
        BY <2>1 DEF LedgerTypeOK
      <4> QED
        BY <1>0, <3>1, <4>1, <4>2
    <3>2. CASE t # u
      <4>1. travel'[t] = travel[t]
        BY <2>1, <3>2 DEF LedgerTypeOK
      <4> QED
        BY <1>0, <2>1, <3>2, <4>1
    <3> QED
      BY <3>1, <3>2
  <2> QED
    BY <2>2, <2>3
<1>5. ASSUME NEW u \in Ticket, NEW bounds \in Bounds, ChargeStandalone(u, bounds)
      PROVE  /\ Exclusive'
             /\ \A t \in Ticket : Cardinality(AppliedThrough(t)') <= travel'[t]
  <2>1. reservations' = reservations /\ travel' = [travel EXCEPT ![u] = @ + 1]
    BY <1>5 DEF ChargeStandalone, AppendStandaloneEdge
  <2>2. Exclusive' /\ \A t \in Ticket : AppliedThrough(t)' = AppliedThrough(t)
    BY <1>0, <2>1 DEF AppliedThrough, Known
  <2>3. \A t \in Ticket : travel[t] <= travel'[t]
    BY <2>1 DEF LedgerTypeOK
  <2> QED
    BY <1>0, <2>2, <2>3
<1> QED
  BY <1>2, <1>3, <1>4, <1>5, TravelShape

\* A charged edge's unit is no longer held, and every edge applied through a
\* reservation is in its ticket's applied count.
THEOREM EdgesCountedOnce == LedgerSpec => []EdgesAreCountedOnce
<1> DEFINE Inv == LedgerTypeOK /\ EdgesAreCountedOnce
<1>1. LedgerInit => Inv
  <2> SUFFICES ASSUME LedgerInit PROVE Inv
      OBVIOUS
  <2>1. Known = {} /\ \A t \in Ticket : travel[t] = 0
    BY DEF LedgerInit, Known
  <2>2. Cardinality({}) = 0
    BY FS_EmptySet
  <2>3. EdgesAreCountedOnce
    BY <2>1, <2>2 DEF EdgesAreCountedOnce
  <2> QED
    BY <2>3, LedgerInitTyped
<1>2. Inv /\ [LedgerNext]_ledgerVars => Inv'
  BY LedgerTypePreserved, AppliedEdgesMatch
<1>3. Inv => EdgesAreCountedOnce
  OBVIOUS
<1> QED
  BY <1>1, <1>2, <1>3, PTL DEF LedgerSpec

-----------------------------------------------------------------------------
(* Money.                                                                  *)

\* An update that keeps the record's settle keeps everybody's.
LEMMA UpdateKeepsSettles ==
    ASSUME LedgerTypeOK, NEW r \in Known, NEW rec, Update(r, rec),
           reservations[r].spend # None => rec.spend = reservations[r].spend
    PROVE  \A q \in Known : reservations[q].spend # None =>
                              reservations'[q].spend = reservations[q].spend
<1> TAKE q \in Known
<1>1. CASE q = r
  BY <1>1 DEF LedgerTypeOK, Update
<1>2. CASE q # r
  BY <1>2 DEF LedgerTypeOK, Update
<1> QED
  BY <1>1, <1>2

\* The action part: no step revises a settle or the account's currency.
LEMMA SettlesStay ==
    ASSUME LedgerTypeOK, [LedgerNext]_ledgerVars
    PROVE  /\ \A q \in Known : reservations[q].spend # None =>
                                 reservations'[q].spend = reservations[q].spend
           /\ currency # None => currency' = currency
<1> DEFINE Stay == /\ \A q \in Known : reservations[q].spend # None =>
                                         reservations'[q].spend = reservations[q].spend
                   /\ currency # None => currency' = currency
<1>1. ASSUME UNCHANGED <<reservations, currency>> PROVE Stay
  BY <1>1
<1>2. ASSUME NEW request \in Request, NEW arms \in SUBSET Reservation, NEW bounds \in Bounds,
             NEW first \in arms, Reserve(request, arms, first, bounds)
      PROVE  Stay
  <2>1. \A r \in Known : reservations'[r] = reservations[r]
    BY <1>2, ReserveAdds DEF AdmissionAdds
  <2>2. currency # None => currency' = currency
    BY <1>2 DEF Reserve, Admissible, AppendReserve
  <2> QED
    BY <2>1, <2>2
<1>3. ASSUME NEW r \in Known, NEW rec, Update(r, rec), UNCHANGED currency,
             rec.spend = reservations[r].spend
      PROVE  Stay
  BY <1>3, UpdateKeepsSettles
<1>4. ASSUME NEW r \in Reservation, RecordStart(r) PROVE Stay
  <2>1. [reservations[r] EXCEPT !.started = TRUE].spend = reservations[r].spend /\ r \in Known
    BY <1>4 DEF RecordStart, AppendStart, LedgerTypeOK, ReservationRecord
  <2> QED
    BY <1>3, <1>4, <2>1 DEF RecordStart, AppendStart
<1>5. ASSUME NEW r \in Reservation, ReleaseUnstarted(r) PROVE Stay
  <2>1. /\ [reservations[r] EXCEPT !.released = TRUE, !.travelHeld = FALSE].spend
             = reservations[r].spend
        /\ r \in Known
    BY <1>5 DEF ReleaseUnstarted, AppendReleaseUnstarted, LedgerTypeOK, ReservationRecord
  <2> QED
    BY <1>3, <1>5, <2>1 DEF ReleaseUnstarted, AppendReleaseUnstarted
<1>6. ASSUME NEW r \in Reservation, ReleaseTravel(r) PROVE Stay
  <2>1. /\ [reservations[r] EXCEPT !.travelHeld = FALSE].spend = reservations[r].spend
        /\ r \in Known
    BY <1>6 DEF ReleaseTravel, AppendReleaseTravel, LedgerTypeOK, ReservationRecord
  <2> QED
    BY <1>3, <1>6, <2>1 DEF ReleaseTravel, AppendReleaseTravel
<1>7. ASSUME NEW t \in Ticket, NEW r \in Reservation, ChargeReserved(t, r) PROVE Stay
  <2>1. /\ [reservations[r] EXCEPT !.travelHeld = FALSE, !.applied = TRUE].spend
             = reservations[r].spend
        /\ r \in Known
    BY <1>7 DEF ChargeReserved, AppendReservedEdge, LedgerTypeOK, ReservationRecord
  <2> QED
    BY <1>3, <1>7, <2>1 DEF ChargeReserved, AppendReservedEdge
<1>8. ASSUME NEW r \in Reservation, NEW amount \in Amounts, NEW c \in Currency,
             SettleSpend(r, amount, c)
      PROVE  Stay
  <2>1. r \in Known /\ reservations[r].spend = None /\ (currency # None => currency' = currency)
    BY <1>8 DEF SettleSpend, AppendSpend, FixCurrency
  <2> QED
    BY <1>8, <2>1, UpdateKeepsSettles DEF SettleSpend, AppendSpend
<1>9. ASSUME NEW day \in Days, SetClock(day) PROVE Stay
  BY <1>1, <1>9 DEF SetClock, ledger
<1>10. ASSUME NEW t \in Ticket, BindTicket(t) PROVE Stay
  BY <1>1, <1>10 DEF BindTicket
<1>11. ASSUME NEW t \in Ticket, NEW bounds \in Bounds, ChargeStandalone(t, bounds) PROVE Stay
  BY <1>1, <1>11 DEF ChargeStandalone, AppendStandaloneEdge
<1>12. ASSUME NEW allowance \in Allowances, Adjust(allowance) PROVE Stay
  BY <1>1, <1>12 DEF Adjust
<1>13. ASSUME NewerBuildAppends PROVE Stay
  BY <1>1, <1>13 DEF NewerBuildAppends
<1>14. ASSUME UNCHANGED ledgerVars PROVE Stay
  BY <1>1, <1>14 DEF ledgerVars, ledger
<1> QED
  BY <1>2, <1>4, <1>5, <1>6, <1>7, <1>8, <1>9, <1>10, <1>11, <1>12, <1>13, <1>14
     DEF LedgerNext

\* A reservation's money is revised at most once, in the account's one
\* currency.
THEOREM MoneySettlesOnce == LedgerSpec => SettledOnce
<1>1. LedgerTypeOK /\ [LedgerNext]_ledgerVars =>
        [/\ \A r \in Known : reservations[r].spend # None =>
                               reservations'[r].spend = reservations[r].spend
         /\ currency # None => currency' = currency]_ledgerVars
  BY SettlesStay
<1> QED
  BY <1>1, LedgerTypeCorrect, PTL DEF LedgerSpec, SettledOnce

=============================================================================
