-------------------------- MODULE BudgetVisitsProofs --------------------------
(* Theorems about the runs' use of the account, for any number of runs,    *)
(* roots, tickets and items.                                               *)
EXTENDS BudgetVisits, TLAPS

-----------------------------------------------------------------------------
(* Types, and what a claim says of the chain.                              *)

RecordFields ==
    {"ticket", "root", "parent", "envelope", "window", "started", "released", "travelHeld",
     "applied", "reserve", "spend"}

RecordsTyped == \A r \in Known : r \in Reservation /\ DOMAIN reservations[r] = RecordFields

Claims ==
    [travel : Reservation \cup {None}, arms : Seq(Reservation), started : BOOLEAN,
     landed : Seq(Amounts)]

MemoryTyped ==
    /\ alive \in [Run -> {"new", "live", "gone"}]
    /\ claims \in [Run -> [Ticket -> Claims \cup {None}]]
    /\ stage \in [Run -> [Item -> Stages]]
    /\ arm \in [Run -> [Item -> Reservation \cup {None}]]
    /\ spawned \subseteq Reservation
    /\ cost \in [Reservation -> Amounts \cup {None}]

\* The runs that are not at work, and the roots of those that are.
RunsApart ==
    /\ \A run \in Run : ~Live(run) =>
         /\ \A t \in Ticket : claims[run][t] = None
         /\ \A i \in Item : stage[run][i] = "idle" /\ arm[run][i] = None
    /\ \A run, q \in Run : Live(run) /\ Live(q) /\ RootOf[run] = RootOf[q] => run = q

\* An item that was admitted has a reservation on the chain.
ArmsStand ==
    \A run \in Run, i \in Item :
      IF stage[run][i] \in {"idle", "weighing", "refused"} THEN arm[run][i] = None
                                                         ELSE arm[run][i] \in Known

ClaimHolds(run, t) ==
    \A r \in ClaimArms(claims[run][t]) :
      /\ r \in Known /\ ~reservations[r].released
      /\ reservations[r].ticket = t /\ reservations[r].root = RootOf[run]

ClaimsInv ==
    /\ RecordsTyped /\ MemoryTyped /\ RunsApart /\ ArmsStand
    /\ \A run \in Run, t \in Ticket : claims[run][t] # None => ClaimHolds(run, t)

-----------------------------------------------------------------------------
(* What a step writes.                                                     *)

EndsClaim(run, t) == claims[run][t] # None /\ claims'[run][t] = None

\* What a step of a run does to the reservations that are on the chain.
Receipts(run) ==
    /\ Known \subseteq Known'
    /\ \A r \in Known :
         /\ DOMAIN reservations'[r] = RecordFields
         /\ reservations'[r].ticket = reservations[r].ticket
         /\ reservations'[r].root = reservations[r].root
         /\ reservations[r].started => reservations'[r].started
         /\ reservations[r].released => reservations'[r].released
         /\ reservations'[r].released /\ ~reservations[r].released =>
              /\ ~reservations[r].started
              /\ \/ RunIsGone(reservations[r].root)
                 \/ \E t \in Ticket : /\ EndsClaim(run, t) /\ ~claims[run][t].started
                                      /\ r \in ClaimArms(claims[run][t])
         /\ reservations'[r].started /\ ~reservations[r].started =>
              \E t \in Ticket : /\ claims[run][t] # None /\ claims'[run][t].started
                                /\ r \in ClaimArms(claims[run][t])
         /\ reservations'[r].spend # reservations[r].spend =>
              \E t \in Ticket : /\ EndsClaim(run, t) /\ claims[run][t].started
                                /\ r \in ClaimArms(claims[run][t])

\* What it does to the claims: nothing, an end, or the same arms.
ClaimsStay(run) ==
    /\ claims' \in [Run -> [Ticket -> Claims \cup {None}]]
    /\ \A q \in Run \ {run} : claims'[q] = claims[q]
    /\ \A t \in Ticket : claims'[run][t] # None =>
         claims[run][t] # None /\ claims'[run][t].arms = claims[run][t].arms

LEMMA TicketsOfItems ==
    ASSUME NEW i \in Item, NEW run \in Run
    PROVE  TicketOf[i] \in Ticket /\ RootOf[run] \in Root
BY RunsAssumption

LEMMA ClaimTyped ==
    ASSUME MemoryTyped, NEW run \in Run, NEW i \in Item
    PROVE  /\ Claim(run, i) \in Claims \cup {None}
           /\ Claim(run, i) = claims[run][TicketOf[i]] /\ TicketOf[i] \in Ticket
           /\ DOMAIN claims = Run /\ DOMAIN claims[run] = Ticket
BY TicketsOfItems DEF MemoryTyped, Claim

LEMMA KeepIs ==
    ASSUME MemoryTyped, NEW run \in Run, NEW i \in Item, NEW claim \in Claims \cup {None},
           Keep(run, i, claim)
    PROVE  /\ claims' \in [Run -> [Ticket -> Claims \cup {None}]]
           /\ \A q \in Run \ {run} : claims'[q] = claims[q]
           /\ \A t \in Ticket : claims'[run][t] = IF t = TicketOf[i] THEN claim ELSE claims[run][t]
BY TicketsOfItems DEF MemoryTyped, Keep

LEMMA QuietReceipts ==
    ASSUME RecordsTyped, NEW run \in Run, UNCHANGED reservations
    PROVE  Receipts(run)
BY DEF Receipts, RecordsTyped, Known

LEMMA QuietClaims ==
    ASSUME MemoryTyped, NEW run \in Run, UNCHANGED claims
    PROVE  ClaimsStay(run)
BY DEF ClaimsStay, MemoryTyped

LEMMA StartWrites ==
    ASSUME ClaimsInv, NEW run \in Run, NEW i \in Item, NoteStart(run, i)
    PROVE  /\ Receipts(run) /\ ClaimsStay(run) /\ Known' = Known
           /\ Claim(run, i) = None => UNCHANGED <<reservations, claims>>
           /\ Claim(run, i) # None =>
                /\ claims'[run][TicketOf[i]] = [Claim(run, i) EXCEPT !.started = TRUE]
                /\ \A t \in Ticket : t # TicketOf[i] => claims'[run][t] = claims[run][t]
           /\ ~AppendsMayFail /\ Claim(run, i) # None =>
                \A r \in ClaimArms(Claim(run, i)) : reservations'[r].started
<1>1. RecordsTyped /\ MemoryTyped
  BY DEF ClaimsInv
<1>2. CASE Claim(run, i) = None
  <2>1. UNCHANGED <<reservations, claims>>
    BY <1>2 DEF NoteStart, ledger
  <2> QED
    BY <1>1, <1>2, <2>1, QuietReceipts, QuietClaims DEF Known
<1>3. CASE Claim(run, i) # None
  <2> DEFINE t == TicketOf[i]
             claim == Claim(run, i)
             next == [claim EXCEPT !.started = TRUE]
  <2>1. PICK set \in Written(ClaimArms(claim)) : StartArms(set)
    BY <1>3 DEF NoteStart
  <2>2. Keep(run, i, next)
    BY <1>3 DEF NoteStart
  <2>3. claim \in Claims /\ claim = claims[run][t] /\ t \in Ticket
    BY <1>1, <1>3, ClaimTyped
  <2>4. /\ next \in Claims /\ next.arms = claim.arms /\ next.started = TRUE
        /\ next.landed = claim.landed /\ next.travel = claim.travel
    BY <2>3 DEF Claims
  <2> HIDE DEF next
  <2>5. /\ claims' \in [Run -> [Ticket -> Claims \cup {None}]]
        /\ \A q \in Run \ {run} : claims'[q] = claims[q]
        /\ \A u \in Ticket : claims'[run][u] = IF u = t THEN next ELSE claims[run][u]
    BY <1>1, <2>2, <2>4, KeepIs
  <2>6. set \subseteq ClaimArms(claim) /\ (~AppendsMayFail => set = ClaimArms(claim))
    BY DEF Written
  <2>7. reservations' = [r \in Known |->
          IF r \in set /\ ~reservations[r].released
          THEN [reservations[r] EXCEPT !.started = TRUE] ELSE reservations[r]]
    BY <2>1 DEF StartArms
  <2>8. Known' = Known
    BY <2>7 DEF Known
  <2>9. \A r \in Known :
          /\ DOMAIN reservations'[r] = RecordFields
          /\ reservations'[r].ticket = reservations[r].ticket
          /\ reservations'[r].root = reservations[r].root
          /\ reservations'[r].released = reservations[r].released
          /\ reservations'[r].spend = reservations[r].spend
          /\ r \in set /\ ~reservations[r].released => reservations'[r].started = TRUE
          /\ ~(r \in set /\ ~reservations[r].released) =>
               reservations'[r].started = reservations[r].started
    BY <1>1, <2>7 DEF RecordsTyped, RecordFields
  <2>10. Receipts(run)
    <3>1. \A r \in Known : reservations'[r].started /\ ~reservations[r].started =>
            r \in ClaimArms(claims[run][t]) /\ claims'[run][t].started
      BY <2>3, <2>4, <2>5, <2>6, <2>9
    <3> QED
      BY <1>3, <2>3, <2>8, <2>9, <3>1 DEF Receipts
  <2>11. ClaimsStay(run)
    BY <1>3, <2>3, <2>4, <2>5 DEF ClaimsStay
  <2>12. \A r \in ClaimArms(claim) : r \in Known /\ ~reservations[r].released
    BY <1>3, <2>3 DEF ClaimsInv, ClaimHolds
  <2> QED
    BY <1>3, <2>3, <2>5, <2>6, <2>8, <2>9, <2>10, <2>11, <2>12 DEF next
<1> QED
  BY <1>2, <1>3

LEMMA EndWrites ==
    ASSUME ClaimsInv, NEW run \in Run, NEW i \in Item, EndVisit(run, i)
    PROVE  /\ Receipts(run) /\ ClaimsStay(run) /\ Known' = Known
           /\ Claim(run, i) = None => UNCHANGED <<reservations, claims>>
           /\ Claim(run, i) # None =>
                /\ claims'[run][TicketOf[i]] = None
                /\ \A t \in Ticket : t # TicketOf[i] => claims'[run][t] = claims[run][t]
           /\ \A r \in Known : r \notin ClaimArms(Claim(run, i)) => reservations'[r] = reservations[r]
           /\ \A r \in Known : reservations'[r].started = reservations[r].started
           /\ ~AppendsMayFail /\ Claim(run, i) # None =>
                \A r \in ClaimArms(Claim(run, i)) :
                  /\ Claim(run, i).started => reservations'[r].spend = Settled(Claim(run, i), r)
                  /\ ~Claim(run, i).started /\ ~reservations[r].started => reservations'[r].released
<1>1. RecordsTyped /\ MemoryTyped
  BY DEF ClaimsInv
<1>2. CASE Claim(run, i) = None
  <2>1. UNCHANGED <<reservations, claims>>
    BY <1>2 DEF EndVisit, ledger
  <2> QED
    BY <1>1, <1>2, <2>1, QuietReceipts, QuietClaims DEF Known
<1>3. CASE Claim(run, i) # None
  <2> DEFINE t == TicketOf[i]
             claim == Claim(run, i)
  <2>1. PICK set \in Written(ClaimArms(claim)) : SettleClaim(claim, set)
    BY <1>3 DEF EndVisit
  <2>2. Keep(run, i, None)
    BY <1>3 DEF EndVisit
  <2>3. claim \in Claims /\ claim = claims[run][t] /\ t \in Ticket
    BY <1>1, <1>3, ClaimTyped
  <2>4. /\ claims' \in [Run -> [Ticket -> Claims \cup {None}]]
        /\ \A q \in Run \ {run} : claims'[q] = claims[q]
        /\ \A u \in Ticket : claims'[run][u] = IF u = t THEN None ELSE claims[run][u]
    BY <1>1, <2>2, KeepIs
  <2>5. set \subseteq ClaimArms(claim) /\ (~AppendsMayFail => set = ClaimArms(claim))
    BY DEF Written
  <2>6. reservations' = [r \in Known |->
         IF r \notin set THEN reservations[r]
         ELSE IF claim.started
              THEN [reservations[r] EXCEPT !.spend = Settled(claim, r),
                             !.travelHeld = @ /\ (r # claim.travel \/ reservations[r].applied)]
         ELSE IF reservations[r].started THEN reservations[r]
         ELSE [reservations[r] EXCEPT !.released = TRUE, !.travelHeld = FALSE]]
    BY <2>1 DEF SettleClaim
  <2>7. Known' = Known
    BY <2>6 DEF Known
  <2>8. ASSUME NEW r \in Known
        PROVE  /\ DOMAIN reservations'[r] = RecordFields
               /\ reservations'[r].ticket = reservations[r].ticket
               /\ reservations'[r].root = reservations[r].root
               /\ reservations'[r].started = reservations[r].started
               /\ r \notin set => reservations'[r] = reservations[r]
               /\ r \in set /\ claim.started =>
                    /\ reservations'[r].spend = Settled(claim, r)
                    /\ reservations'[r].released = reservations[r].released
               /\ ~claim.started => reservations'[r].spend = reservations[r].spend
               /\ r \in set /\ ~claim.started /\ ~reservations[r].started =>
                    reservations'[r].released = TRUE
               /\ r \in set /\ ~claim.started /\ reservations[r].started =>
                    reservations'[r] = reservations[r]
    <3> DEFINE rec == reservations[r]
               amount == Settled(claim, r)
               held == rec.travelHeld /\ (r # claim.travel \/ rec.applied)
    <3>1. DOMAIN rec = RecordFields
      BY <1>1 DEF RecordsTyped
    <3>2. reservations'[r] =
            IF r \notin set THEN rec
            ELSE IF claim.started THEN [rec EXCEPT !.spend = amount, !.travelHeld = held]
            ELSE IF rec.started THEN rec
            ELSE [rec EXCEPT !.released = TRUE, !.travelHeld = FALSE]
      BY <2>6
    <3> HIDE DEF amount, held
    <3>3. CASE r \notin set
      BY <3>1, <3>2, <3>3
    <3>4. CASE r \in set /\ claim.started
      <4>1. reservations'[r] = [rec EXCEPT !.spend = amount, !.travelHeld = held]
        BY <3>2, <3>4
      <4> QED
        BY <3>1, <3>4, <4>1 DEF RecordFields, amount
    <3>5. CASE r \in set /\ ~claim.started
      <4>1. reservations'[r] =
              IF rec.started THEN rec ELSE [rec EXCEPT !.released = TRUE, !.travelHeld = FALSE]
        BY <3>2, <3>5
      <4> QED
        BY <3>1, <3>5, <4>1 DEF RecordFields
    <3> QED
      BY <3>3, <3>4, <3>5
  <2>9. Receipts(run)
    <3>1. EndsClaim(run, t)
      BY <1>3, <2>3, <2>4 DEF EndsClaim
    <3> QED
      BY <2>3, <2>5, <2>7, <2>8, <3>1 DEF Receipts
  <2>10. ClaimsStay(run)
    BY <1>3, <2>3, <2>4 DEF ClaimsStay
  <2>11. \A r \in ClaimArms(claim) : r \in Known
    BY <1>3, <2>3 DEF ClaimsInv, ClaimHolds
  <2> QED
    BY <1>3, <2>3, <2>4, <2>5, <2>7, <2>8, <2>9, <2>10, <2>11
<1> QED
  BY <1>2, <1>3

\* The edge takes the travel unit out of the claim.
LEMMA EdgeWrites ==
    ASSUME ClaimsInv, NEW run \in Run, NEW i \in Item, ApplyEdge(run, i)
    PROVE  /\ Receipts(run) /\ ClaimsStay(run) /\ Known' = Known
           /\ \A r \in Known : /\ reservations'[r].started = reservations[r].started
                               /\ reservations'[r].released = reservations[r].released
                               /\ reservations'[r].spend = reservations[r].spend
           /\ \A t \in Ticket : /\ claims'[run][t] = None <=> claims[run][t] = None
                                /\ claims'[run][t] # None =>
                                     /\ claims'[run][t].started = claims[run][t].started
                                     /\ claims'[run][t].landed = claims[run][t].landed
<1> DEFINE t == TicketOf[i]
           claim == Claim(run, i)
<1>1. RecordsTyped /\ MemoryTyped
  BY DEF ClaimsInv
<1>2. claim \in Claims \cup {None} /\ claim = claims[run][t] /\ t \in Ticket
  BY <1>1, ClaimTyped
<1>3. /\ ClaimsStay(run)
      /\ \A u \in Ticket : /\ claims'[run][u] = None <=> claims[run][u] = None
                           /\ claims'[run][u] # None =>
                                /\ claims'[run][u].started = claims[run][u].started
                                /\ claims'[run][u].landed = claims[run][u].landed
  <2>1. CASE claim = None
    <3>1. UNCHANGED claims
      BY <2>1 DEF ApplyEdge, TakeUnit
    <3> QED
      BY <1>1, <3>1, QuietClaims
  <2>2. CASE claim # None
    <3> DEFINE next == [claim EXCEPT !.travel = None]
    <3>1. Keep(run, i, next)
      BY <2>2 DEF ApplyEdge, TakeUnit
    <3>2. /\ next \in Claims /\ next.arms = claim.arms /\ next.started = claim.started
          /\ next.landed = claim.landed /\ next # None
      BY <1>2, <2>2, ClaimAssumption DEF Claims
    <3> HIDE DEF next
    <3>3. /\ claims' \in [Run -> [Ticket -> Claims \cup {None}]]
          /\ \A q \in Run \ {run} : claims'[q] = claims[q]
          /\ \A u \in Ticket : claims'[run][u] = IF u = t THEN next ELSE claims[run][u]
      BY <1>1, <3>1, <3>2, KeepIs
    <3> QED
      BY <1>2, <2>2, <3>2, <3>3 DEF ClaimsStay
  <2> QED
    BY <2>1, <2>2
<1>4. \/ UNCHANGED reservations
      \/ \E r \in Known : reservations' =
           [reservations EXCEPT ![r] = [reservations[r] EXCEPT !.travelHeld = FALSE, !.applied = TRUE]]
  BY DEF ApplyEdge, AppendStandaloneEdge, AppendReservedEdge, Update, ledger
<1>5. /\ Known' = Known
      /\ \A r \in Known : /\ DOMAIN reservations'[r] = RecordFields
                          /\ reservations'[r].ticket = reservations[r].ticket
                          /\ reservations'[r].root = reservations[r].root
                          /\ reservations'[r].started = reservations[r].started
                          /\ reservations'[r].released = reservations[r].released
                          /\ reservations'[r].spend = reservations[r].spend
  <2>1. CASE UNCHANGED reservations
    BY <1>1, <2>1 DEF RecordsTyped, Known
  <2>2. CASE reservations' # reservations
    <3>1. PICK q \in Known : reservations' =
            [reservations EXCEPT ![q] = [reservations[q] EXCEPT !.travelHeld = FALSE, !.applied = TRUE]]
      BY <1>4, <2>2
    <3> QED
      BY <1>1, <3>1 DEF RecordsTyped, Known, RecordFields
  <2> QED
    BY <1>4, <2>1, <2>2
<1>6. Receipts(run)
  BY <1>5 DEF Receipts
<1> QED
  BY <1>3, <1>5, <1>6

LEMMA ReleaseWrites ==
    ASSUME ClaimsInv, NEW run \in Run, ReleaseAbandoned(run)
    PROVE  /\ Receipts(run) /\ ClaimsStay(run) /\ Known' = Known
           /\ \A r \in Known : /\ reservations'[r].started = reservations[r].started
                               /\ reservations'[r].spend = reservations[r].spend
<1>1. RecordsTyped /\ MemoryTyped
  BY DEF ClaimsInv
<1>2. PICK q \in Abandoned : AppendReleaseUnstarted(q)
  BY DEF ReleaseAbandoned
<1>3. /\ reservations' = [reservations EXCEPT ![q] =
            [reservations[q] EXCEPT !.released = TRUE, !.travelHeld = FALSE]]
      /\ q \in Known /\ ~reservations[q].started /\ RunIsGone(reservations[q].root)
  BY <1>2 DEF AppendReleaseUnstarted, Update, Abandoned, Started
<1>4. /\ Known' = Known
      /\ \A r \in Known : /\ DOMAIN reservations'[r] = RecordFields
                          /\ reservations'[r].ticket = reservations[r].ticket
                          /\ reservations'[r].root = reservations[r].root
                          /\ reservations'[r].started = reservations[r].started
                          /\ reservations'[r].spend = reservations[r].spend
                          /\ r # q => reservations'[r].released = reservations[r].released
                          /\ r = q => reservations'[r].released = TRUE
  BY <1>1, <1>3 DEF RecordsTyped, Known, RecordFields
<1>5. Receipts(run)
  <2>1. ASSUME NEW r \in Known, reservations'[r].released, ~reservations[r].released
        PROVE  ~reservations[r].started /\ RunIsGone(reservations[r].root)
    BY <1>3, <1>4, <2>1
  <2>2. /\ Known \subseteq Known'
        /\ \A r \in Known : reservations[r].released => reservations'[r].released
    BY <1>4
  <2> QED
    BY <1>4, <2>1, <2>2 DEF Receipts
<1>6. UNCHANGED claims
  BY DEF ReleaseAbandoned, runVars
<1> QED
  BY <1>1, <1>4, <1>5, <1>6, QuietClaims

\* A record that lands.
LEMMA ExitWrites ==
    ASSUME ClaimsInv, NEW run \in Run, NEW i \in Item, Exit(run, i)
    PROVE  /\ UNCHANGED reservations /\ ClaimsStay(run)
           /\ \A t \in Ticket : t # TicketOf[i] => claims'[run][t] = claims[run][t]
           /\ Claim(run, i) = None => UNCHANGED claims
           /\ \E amount \in Amounts \cup {None} :
                /\ cost' = [cost EXCEPT ![arm[run][i]] = amount]
                /\ Claim(run, i) # None =>
                     /\ claims'[run][TicketOf[i]] # None
                     /\ claims'[run][TicketOf[i]].started = Claim(run, i).started
                     /\ claims'[run][TicketOf[i]].landed =
                          IF amount = None THEN Claim(run, i).landed
                          ELSE Append(Claim(run, i).landed, amount)
<1> DEFINE t == TicketOf[i]
           claim == Claim(run, i)
<1>1. RecordsTyped /\ MemoryTyped
  BY DEF ClaimsInv
<1>2. claim \in Claims \cup {None} /\ claim = claims[run][t] /\ t \in Ticket
  BY <1>1, ClaimTyped
<1>3. UNCHANGED reservations
  BY DEF Exit, ledgerVars, ledger
<1>4. PICK amount \in Amounts \cup {None} :
        /\ cost' = [cost EXCEPT ![arm[run][i]] = amount]
        /\ IF amount = None \/ claim = None THEN UNCHANGED claims
           ELSE Keep(run, i, [claim EXCEPT !.landed = Append(@, amount)])
  BY DEF Exit
<1>5. CASE amount = None \/ claim = None
  <2>1. UNCHANGED claims
    BY <1>4, <1>5
  <2> QED
    BY <1>1, <1>2, <1>3, <1>4, <1>5, <2>1, QuietClaims
<1>6. CASE amount # None /\ claim # None
  <2> DEFINE landed == Append(claim.landed, amount)
             next == [claim EXCEPT !.landed = landed]
  <2>1. claim \in Claims /\ claim.landed \in Seq(Amounts) /\ landed \in Seq(Amounts)
    BY <1>2, <1>6 DEF Claims
  <2>2. Keep(run, i, next)
    BY <1>4, <1>6
  <2> HIDE DEF landed
  <2>3. /\ next \in Claims /\ next.arms = claim.arms /\ next.started = claim.started
        /\ next.landed = landed /\ next # None
    BY <2>1, ClaimAssumption DEF Claims
  <2> HIDE DEF next
  <2>4. /\ claims' \in [Run -> [Ticket -> Claims \cup {None}]]
        /\ \A q \in Run \ {run} : claims'[q] = claims[q]
        /\ \A u \in Ticket : claims'[run][u] = IF u = t THEN next ELSE claims[run][u]
    BY <1>1, <2>2, <2>3, KeepIs
  <2>5. ClaimsStay(run)
    BY <1>2, <1>6, <2>3, <2>4 DEF ClaimsStay
  <2> QED
    BY <1>2, <1>3, <1>4, <1>6, <2>3, <2>4, <2>5 DEF landed
<1> QED
  BY <1>5, <1>6

-----------------------------------------------------------------------------
(* An admission.                                                           *)

\* What a run knows after an arm was admitted on a fresh reservation.
Admits(run, i, r) ==
    /\ Known' = Known \cup {r}
    /\ \A q \in Known : reservations'[q] = reservations[q]
    /\ DOMAIN reservations'[r] = RecordFields
    /\ reservations'[r].ticket = TicketOf[i] /\ reservations'[r].root = RootOf[run]
    /\ ~reservations'[r].started /\ ~reservations'[r].released /\ reservations'[r].spend = None
    /\ claims' \in [Run -> [Ticket -> Claims \cup {None}]]
    /\ \A q \in Run \ {run} : claims'[q] = claims[q]
    /\ \A t \in Ticket : t # TicketOf[i] => claims'[run][t] = claims[run][t]
    /\ claims'[run][TicketOf[i]] # None
    /\ r \in ClaimArms(claims'[run][TicketOf[i]])
    /\ \A q \in ClaimArms(claims'[run][TicketOf[i]]) :
         q # r => Claim(run, i) # None /\ q \in ClaimArms(Claim(run, i))
    /\ Claim(run, i) = None =>
         claims'[run][TicketOf[i]] = [travel |-> r, arms |-> <<r>>, started |-> FALSE, landed |-> <<>>]
    /\ arm' = [arm EXCEPT ![run][i] = r]
    /\ Advance(run, i, "weighing", "admitted")

LEMMA OneMoreArm ==
    ASSUME NEW claim \in Claims, NEW r \in Reservation
    PROVE  LET next == [claim EXCEPT !.arms = Append(@, r)]
           IN  next \in Claims /\ r \in ClaimArms(next) /\ ClaimArms(next) = ClaimArms(claim) \cup {r}
<1> DEFINE arms == Append(claim.arms, r)
           next == [claim EXCEPT !.arms = arms]
<1>1. claim.arms \in Seq(Reservation)
  BY DEF Claims
<1>2. /\ arms \in Seq(Reservation) /\ DOMAIN arms = 1..(Len(claim.arms) + 1)
      /\ DOMAIN claim.arms = 1..Len(claim.arms) /\ Len(claim.arms) \in Nat
      /\ arms[Len(claim.arms) + 1] = r
      /\ \A n \in 1..Len(claim.arms) : arms[n] = claim.arms[n]
  BY <1>1
<1> HIDE DEF arms
<1>3. next \in Claims /\ next.arms = arms
  BY <1>2 DEF Claims
<1>4. DOMAIN arms = (DOMAIN claim.arms) \cup {Len(claim.arms) + 1}
  BY <1>2
<1>5. ClaimArms(next) = {arms[n] : n \in DOMAIN arms}
  BY <1>3 DEF ClaimArms
<1>6. {arms[n] : n \in DOMAIN arms} = ClaimArms(claim) \cup {r}
  BY <1>2, <1>4 DEF ClaimArms
<1> QED
  BY <1>3, <1>5, <1>6 DEF arms

LEMMA OneArm ==
    ASSUME NEW r \in Reservation
    PROVE  LET next == [travel |-> r, arms |-> <<r>>, started |-> FALSE, landed |-> <<>>]
           IN  next \in Claims /\ next.arms = <<r>> /\ next.landed = <<>> /\ next.started = FALSE
               /\ ClaimArms(next) = {r}
<1> DEFINE next == [travel |-> r, arms |-> <<r>>, started |-> FALSE, landed |-> <<>>]
<1>1. <<r>> \in Seq(Reservation) /\ <<>> \in Seq(Amounts) /\ DOMAIN <<r>> = {1} /\ <<r>>[1] = r
  OBVIOUS
<1>2. next \in Claims /\ next.arms = <<r>> /\ next.landed = <<>> /\ next.started = FALSE
  BY <1>1 DEF Claims
<1> HIDE DEF next
<1>3. ClaimArms(next) = {r}
  BY <1>1, <1>2 DEF ClaimArms
<1> QED
  BY <1>2, <1>3 DEF next

LEMMA WeighIs ==
    ASSUME ClaimsInv, NEW run \in Run, NEW i \in Item, Weigh(run, i)
    PROVE  /\ UNCHANGED <<alive, spawned, cost>>
           /\ \/ /\ Advance(run, i, "weighing", "refused")
                 /\ UNCHANGED <<reservations, claims, arm>>
              \/ \E r \in Reservation \ Known : Admits(run, i, r)
<1>1. RecordsTyped /\ MemoryTyped
  BY DEF ClaimsInv
<1> DEFINE t == TicketOf[i]
           claim == Claim(run, i)
           request == AdmissionRequest(run, i)
           r == CHOOSE fresh \in Reservation \ Known : TRUE
<1>2. r \in Reservation \ Known
  BY DEF Weigh
<1> HIDE DEF r
<1>3. \/ /\ AppendReserve(request, {r}, r)
         /\ Keep(run, i, ExtendedClaim(run, i, r))
         /\ arm' = [arm EXCEPT ![run][i] = r]
         /\ Advance(run, i, "weighing", "admitted")
      \/ /\ Advance(run, i, "weighing", "refused")
         /\ UNCHANGED <<reservations, claims, arm>>
  BY DEF Weigh, ledger, r
<1>4. ASSUME AppendReserve(request, {r}, r), Keep(run, i, ExtendedClaim(run, i, r)),
             arm' = [arm EXCEPT ![run][i] = r], Advance(run, i, "weighing", "admitted")
      PROVE  Admits(run, i, r)
  <2>1. reservations' =
          [q \in Known \cup {r} |-> IF q \in {r} THEN Arm(request, request.travel /\ q = r)
                                                 ELSE reservations[q]]
    BY <1>4 DEF AppendReserve
  <2>2. /\ Known' = Known \cup {r} /\ \A q \in Known : reservations'[q] = reservations[q]
        /\ reservations'[r] = Arm(request, request.travel /\ r = r)
    BY <1>2, <2>1 DEF Known
  <2>3. /\ DOMAIN Arm(request, request.travel /\ r = r) = RecordFields
        /\ reservations'[r].ticket = t /\ reservations'[r].root = RootOf[run]
        /\ ~reservations'[r].started /\ ~reservations'[r].released /\ reservations'[r].spend = None
    BY <2>2 DEF Arm, AdmissionRequest, RecordFields
  <2> DEFINE next == ExtendedClaim(run, i, r)
  <2>4. claim \in Claims \cup {None} /\ claim = claims[run][t] /\ t \in Ticket
    BY <1>1, ClaimTyped
  <2>5. /\ next \in Claims /\ r \in ClaimArms(next)
        /\ \A q \in ClaimArms(next) : q # r => claim # None /\ q \in ClaimArms(claim)
        /\ claim = None => next = [travel |-> r, arms |-> <<r>>, started |-> FALSE, landed |-> <<>>]
    <3>1. CASE claim = None
      <4>1. next = [travel |-> r, arms |-> <<r>>, started |-> FALSE, landed |-> <<>>]
        BY <3>1 DEF ExtendedClaim
      <4> HIDE DEF next
      <4>2. next \in Claims /\ ClaimArms(next) = {r}
        BY <1>2, <4>1, OneArm
      <4> QED
        BY <3>1, <4>1, <4>2
    <3>2. CASE claim # None
      <4>1. claim \in Claims /\ next = [claim EXCEPT !.arms = Append(@, r)]
        BY <2>4, <3>2 DEF ExtendedClaim
      <4> HIDE DEF next
      <4>2. next \in Claims /\ r \in ClaimArms(next) /\ ClaimArms(next) = ClaimArms(claim) \cup {r}
        BY <1>2, <4>1, OneMoreArm
      <4> QED
        BY <3>2, <4>2
    <3> QED
      BY <3>1, <3>2
  <2>6. next # None
    BY <2>5, ClaimAssumption DEF Claims
  <2> HIDE DEF next
  <2>7. /\ claims' \in [Run -> [Ticket -> Claims \cup {None}]]
        /\ \A q \in Run \ {run} : claims'[q] = claims[q]
        /\ \A u \in Ticket : claims'[run][u] = IF u = t THEN next ELSE claims[run][u]
    BY <1>1, <1>4, <2>5, KeepIs DEF next
  <2> QED
    BY <1>4, <2>2, <2>3, <2>4, <2>5, <2>6, <2>7 DEF Admits
<1>5. UNCHANGED <<alive, spawned, cost>>
  BY DEF Weigh
<1> QED
  BY <1>2, <1>3, <1>4, <1>5

-----------------------------------------------------------------------------
(* Every step of a run.                                                    *)

VisitStep(run) ==
    \/ Launch(run) \/ Stop(run) \/ ReleaseAbandoned(run)
    \/ \E i \in Item :
         \/ OpenAdmission(run, i) \/ Weigh(run, i) \/ Unpromptable(run, i)
         \/ BeginStart(run, i) \/ Spawn(run, i) \/ SpawnFails(run, i)
         \/ Exit(run, i) \/ ConfirmStart(run, i)
         \/ SelectNoEdge(run, i) \/ ApplyEdge(run, i) \/ Settle(run, i)

LEMMA WritesOfSteps ==
    ASSUME ClaimsInv, NEW run \in Run, VisitStep(run)
    PROVE  \/ Receipts(run) /\ ClaimsStay(run) /\ Known' = Known
           \/ \E i \in Item, r \in Reservation \ Known : Weigh(run, i) /\ Admits(run, i, r)
<1>1. RecordsTyped /\ MemoryTyped
  BY DEF ClaimsInv
<1>2. CASE Launch(run) \/ Stop(run) \/ \E i \in Item : \/ OpenAdmission(run, i) \/ Spawn(run, i)
                                                      \/ SpawnFails(run, i) \/ SelectNoEdge(run, i)
  <2>1. UNCHANGED reservations
    BY <1>2 DEF Launch, Stop, OpenAdmission, Spawn, SpawnFails, SelectNoEdge, ledgerVars, ledger
  <2>2. ClaimsStay(run)
    <3>1. CASE UNCHANGED claims
      BY <1>1, <3>1, QuietClaims
    <3>2. CASE Stop(run)
      <4>1. claims' = [claims EXCEPT ![run] = [t \in Ticket |-> None]]
        BY <3>2 DEF Stop
      <4> QED
        BY <1>1, <4>1 DEF ClaimsStay, MemoryTyped
    <3> QED
      BY <1>2, <3>1, <3>2 DEF Launch, OpenAdmission, Spawn, SpawnFails, SelectNoEdge
  <2> QED
    BY <1>1, <2>1, <2>2, QuietReceipts DEF Known
<1>3. CASE ReleaseAbandoned(run)
  BY <1>3, ReleaseWrites
<1>4. ASSUME NEW i \in Item, Unpromptable(run, i) \/ Settle(run, i)
      PROVE  Receipts(run) /\ ClaimsStay(run) /\ Known' = Known
  <2>1. EndVisit(run, i) \/ UNCHANGED <<reservations, claims>>
    BY <1>4 DEF Unpromptable, Settle, ledger
  <2> QED
    BY <1>1, <2>1, EndWrites, QuietReceipts, QuietClaims DEF Known
<1>5. ASSUME NEW i \in Item, BeginStart(run, i) \/ ConfirmStart(run, i)
      PROVE  Receipts(run) /\ ClaimsStay(run) /\ Known' = Known
  BY <1>5, StartWrites DEF BeginStart, ConfirmStart
<1>6. ASSUME NEW i \in Item, Exit(run, i)
      PROVE  Receipts(run) /\ ClaimsStay(run) /\ Known' = Known
  BY <1>1, <1>6, ExitWrites, QuietReceipts DEF Known
<1>7. ASSUME NEW i \in Item, ApplyEdge(run, i)
      PROVE  Receipts(run) /\ ClaimsStay(run) /\ Known' = Known
  BY <1>7, EdgeWrites
<1>8. ASSUME NEW i \in Item, Weigh(run, i)
      PROVE  \/ Receipts(run) /\ ClaimsStay(run) /\ Known' = Known
             \/ \E r \in Reservation \ Known : Admits(run, i, r)
  BY <1>1, <1>8, WeighIs, QuietReceipts, QuietClaims DEF Known
<1> QED
  BY <1>2, <1>3, <1>4, <1>5, <1>6, <1>7, <1>8 DEF VisitStep

\* Where an item goes from where.
Turns ==
    {<<"idle", "weighing">>, <<"weighing", "admitted">>, <<"weighing", "refused">>,
     <<"admitted", "stalled">>, <<"admitted", "starting">>, <<"starting", "running">>,
     <<"starting", "stalled">>, <<"starting", "exited">>, <<"running", "exited">>,
     <<"exited", "confirmed">>, <<"confirmed", "routed">>, <<"routed", "done">>}

\* What is done on the way.
Deed(run, i, from, to) ==
    /\ from = "idle" => MayStart(run)
    /\ from = "exited" => ~Busy(run)
    /\ to = "starting" \/ from = "exited" => NoteStart(run, i)
    /\ from = "running" => Exit(run, i)
    /\ from = "confirmed" => ApplyEdge(run, i) \/ UNCHANGED <<reservations, claims>>
    /\ from = "routed" \/ (from = "admitted" /\ to = "stalled" /\ run \notin Pooled) =>
         EndVisit(run, i)
    /\ from = "starting" /\ to = "stalled" => run \in Pooled
    /\ \/ from \in {"idle", "starting"} \/ to = "refused"
       \/ from = "admitted" /\ to = "stalled" /\ run \in Pooled
       => UNCHANGED <<reservations, claims>>

\* One item of a run goes one step on.
Turn(run, i, from, to) ==
    /\ <<from, to>> \in Turns /\ Advance(run, i, from, to) /\ UNCHANGED alive
    /\ Deed(run, i, from, to)
    /\ IF to = "admitted" THEN \E r \in Reservation \ Known : Admits(run, i, r) ELSE UNCHANGED arm
    /\ spawned' = IF to = "running" THEN spawned \cup {arm[run][i]} ELSE spawned
    /\ IF from = "running" THEN \E amount \in Amounts \cup {None} : cost' = [cost EXCEPT ![arm[run][i]] = amount]
                           ELSE UNCHANGED cost

LEMMA TurnsOfSteps ==
    ASSUME ClaimsInv, NEW run \in Run, VisitStep(run)
    PROVE  \/ Launch(run) \/ Stop(run)
           \/ ReleaseAbandoned(run) /\ UNCHANGED runVars
           \/ \E i \in Item, from, to \in Stages : Turn(run, i, from, to)
<1>1. ReleaseAbandoned(run) => UNCHANGED runVars
  BY DEF ReleaseAbandoned
<1>2. ASSUME NEW i \in Item, NEW from, NEW to, <<from, to>> \in Turns
      PROVE  from \in Stages /\ to \in Stages
  BY <1>2 DEF Turns, Stages
<1>3. ASSUME NEW i \in Item, OpenAdmission(run, i)
      PROVE  \E from, to \in Stages : Turn(run, i, from, to)
  <2>1. Turn(run, i, "idle", "weighing")
    BY <1>3 DEF OpenAdmission, Turn, Turns, Deed, ledgerVars, ledger
  <2> QED
    BY <1>2, <2>1 DEF Turn
<1>4. ASSUME NEW i \in Item, Weigh(run, i)
      PROVE  \E from, to \in Stages : Turn(run, i, from, to)
  <2>1. UNCHANGED <<alive, spawned, cost>>
    BY <1>4, WeighIs
  <2>2. Turn(run, i, "weighing", "refused") \/ Turn(run, i, "weighing", "admitted")
    <3>1. CASE Advance(run, i, "weighing", "refused") /\ UNCHANGED <<reservations, claims, arm>>
      BY <2>1, <3>1 DEF Turn, Turns, Deed
    <3>2. CASE \E r \in Reservation \ Known : Admits(run, i, r)
      BY <2>1, <3>2 DEF Turn, Turns, Deed, Admits
    <3> QED
      BY <1>4, <3>1, <3>2, WeighIs
  <2> QED
    BY <1>2, <2>2 DEF Turn
<1>5. ASSUME NEW i \in Item, Unpromptable(run, i)
      PROVE  \E from, to \in Stages : Turn(run, i, from, to)
  <2>1. Turn(run, i, "admitted", "stalled")
    BY <1>5 DEF Unpromptable, Turn, Turns, Deed, ledgerVars, ledger
  <2> QED
    BY <1>2, <2>1 DEF Turn
<1>6. ASSUME NEW i \in Item, BeginStart(run, i)
      PROVE  \E from, to \in Stages : Turn(run, i, from, to)
  <2>1. Turn(run, i, "admitted", "starting")
    BY <1>6 DEF BeginStart, Turn, Turns, Deed, ledgerVars, ledger
  <2> QED
    BY <1>2, <2>1 DEF Turn
<1>7. ASSUME NEW i \in Item, Spawn(run, i)
      PROVE  \E from, to \in Stages : Turn(run, i, from, to)
  <2>1. Turn(run, i, "starting", "running")
    BY <1>7 DEF Spawn, Turn, Turns, Deed, ledgerVars, ledger
  <2> QED
    BY <1>2, <2>1 DEF Turn
<1>8. ASSUME NEW i \in Item, SpawnFails(run, i)
      PROVE  \E from, to \in Stages : Turn(run, i, from, to)
  <2>1. Turn(run, i, "starting", "stalled") \/ Turn(run, i, "starting", "exited")
    BY <1>8 DEF SpawnFails, Turn, Turns, Deed, ledgerVars, ledger
  <2> QED
    BY <1>2, <2>1 DEF Turn
<1>9. ASSUME NEW i \in Item, Exit(run, i)
       PROVE  \E from, to \in Stages : Turn(run, i, from, to)
  <2>1. Turn(run, i, "running", "exited")
    BY <1>9 DEF Exit, Turn, Turns, Deed, ledgerVars, ledger
  <2> QED
    BY <1>2, <2>1 DEF Turn
<1>10. ASSUME NEW i \in Item, ConfirmStart(run, i)
       PROVE  \E from, to \in Stages : Turn(run, i, from, to)
  <2>1. Turn(run, i, "exited", "confirmed")
    BY <1>10 DEF ConfirmStart, Turn, Turns, Deed, ledgerVars, ledger
  <2> QED
    BY <1>2, <2>1 DEF Turn
<1>11. ASSUME NEW i \in Item, SelectNoEdge(run, i) \/ ApplyEdge(run, i)
       PROVE  \E from, to \in Stages : Turn(run, i, from, to)
  <2>1. Turn(run, i, "confirmed", "routed")
    BY <1>11 DEF SelectNoEdge, ApplyEdge, Turn, Turns, Deed, ledgerVars, ledger
  <2> QED
    BY <1>2, <2>1 DEF Turn
<1>12. ASSUME NEW i \in Item, Settle(run, i)
       PROVE  \E from, to \in Stages : Turn(run, i, from, to)
  <2>1. Turn(run, i, "routed", "done")
    BY <1>12 DEF Settle, Turn, Turns, Deed, ledgerVars, ledger
  <2> QED
    BY <1>2, <2>1 DEF Turn
<1> QED
  BY <1>1, <1>3, <1>4, <1>5, <1>6, <1>7, <1>8, <1>9, <1>10, <1>11, <1>12 DEF VisitStep

\* A turn of one item leaves the other items where they are.
LEMMA TurnIs ==
    ASSUME MemoryTyped, NEW run \in Run, NEW i \in Item, NEW from \in Stages, NEW to \in Stages,
           Turn(run, i, from, to)
    PROVE  /\ Live(run) /\ Live(run)' /\ stage[run][i] = from /\ stage'[run][i] = to
           /\ stage' \in [Run -> [Item -> Stages]]
           /\ arm' \in [Run -> [Item -> Reservation \cup {None}]]
           /\ \A q \in Run \ {run} : stage'[q] = stage[q] /\ arm'[q] = arm[q]
           /\ \A j \in Item \ {i} : stage'[run][j] = stage[run][j] /\ arm'[run][j] = arm[run][j]
           /\ to # "admitted" => arm'[run][i] = arm[run][i]
<1>1. stage' = [stage EXCEPT ![run][i] = to] /\ Live(run) /\ stage[run][i] = from /\ Live(run)'
  BY DEF Turn, Advance, Live
<1>2. arm' = arm \/ (to = "admitted" /\ \E r \in Reservation : arm' = [arm EXCEPT ![run][i] = r])
  BY DEF Turn, Admits
<1>3. /\ stage' \in [Run -> [Item -> Stages]]
      /\ \A q \in Run \ {run} : stage'[q] = stage[q]
      /\ \A j \in Item \ {i} : stage'[run][j] = stage[run][j]
      /\ stage'[run][i] = to
  BY <1>1 DEF MemoryTyped
<1>4. /\ arm' \in [Run -> [Item -> Reservation \cup {None}]]
      /\ \A q \in Run \ {run} : arm'[q] = arm[q]
      /\ \A j \in Item \ {i} : arm'[run][j] = arm[run][j]
      /\ to # "admitted" => arm'[run][i] = arm[run][i]
  <2>1. CASE arm' = arm
    BY <2>1 DEF MemoryTyped
  <2>2. CASE to = "admitted" /\ \E r \in Reservation : arm' = [arm EXCEPT ![run][i] = r]
    <3>1. PICK r \in Reservation : arm' = [arm EXCEPT ![run][i] = r]
      BY <2>2
    <3> QED
      BY <2>2, <3>1 DEF MemoryTyped
  <2> QED
    BY <1>2, <2>1, <2>2
<1> QED
  BY <1>1, <1>3, <1>4

-----------------------------------------------------------------------------
(* What is claimed is outstanding.                                         *)

LEMMA RecordsStayTyped ==
    ASSUME ClaimsInv, NEW run \in Run, VisitStep(run)
    PROVE  RecordsTyped' /\ Known \subseteq Known'
<1>1. CASE Receipts(run) /\ Known' = Known
  BY <1>1 DEF Receipts, RecordsTyped, ClaimsInv
<1>2. ASSUME NEW i \in Item, NEW r \in Reservation \ Known, Admits(run, i, r)
      PROVE  RecordsTyped' /\ Known \subseteq Known'
  BY <1>2 DEF Admits, RecordsTyped, ClaimsInv
<1> QED
  BY <1>1, <1>2, WritesOfSteps

LEMMA MemoryStaysTyped ==
    ASSUME ClaimsInv, NEW run \in Run, VisitStep(run)
    PROVE  MemoryTyped' /\ ArmsStand'
<1>1. MemoryTyped /\ ArmsStand /\ Known \subseteq Reservation
  BY DEF ClaimsInv, RecordsTyped
<1>2. claims' \in [Run -> [Ticket -> Claims \cup {None}]]
  BY WritesOfSteps DEF ClaimsStay, Admits
<1>3. Known \subseteq Known'
  BY RecordsStayTyped
<1>4. CASE Launch(run) \/ (ReleaseAbandoned(run) /\ UNCHANGED runVars)
  <2>1. UNCHANGED <<stage, arm, spawned, cost>> /\ alive' \in [Run -> {"new", "live", "gone"}]
    BY <1>1, <1>4 DEF Launch, runVars, MemoryTyped
  <2> QED
    BY <1>1, <1>2, <1>3, <2>1 DEF MemoryTyped, ArmsStand
<1>5. CASE Stop(run)
  <2>1. /\ alive' \in [Run -> {"new", "live", "gone"}]
        /\ stage' \in [Run -> [Item -> Stages]] /\ arm' \in [Run -> [Item -> Reservation \cup {None}]]
        /\ UNCHANGED <<spawned, cost>>
        /\ \A q \in Run \ {run} : stage'[q] = stage[q] /\ arm'[q] = arm[q]
        /\ \A i \in Item : stage'[run][i] = "idle" /\ arm'[run][i] = None
    <3>1. [i \in Item |-> "idle"] \in [Item -> Stages]
      BY DEF Stages
    <3> QED
      BY <1>1, <1>5, <3>1 DEF Stop, MemoryTyped
  <2>2. ArmsStand'
    BY <1>1, <1>3, <2>1 DEF ArmsStand
  <2> QED
    BY <1>1, <1>2, <2>1, <2>2 DEF MemoryTyped
<1>6. ASSUME NEW i \in Item, NEW from \in Stages, NEW to \in Stages, Turn(run, i, from, to)
      PROVE  MemoryTyped' /\ ArmsStand'
  <2>1. /\ stage[run][i] = from /\ stage'[run][i] = to
        /\ stage' \in [Run -> [Item -> Stages]] /\ arm' \in [Run -> [Item -> Reservation \cup {None}]]
        /\ \A q \in Run \ {run} : stage'[q] = stage[q] /\ arm'[q] = arm[q]
        /\ \A j \in Item \ {i} : stage'[run][j] = stage[run][j] /\ arm'[run][j] = arm[run][j]
        /\ to # "admitted" => arm'[run][i] = arm[run][i]
    BY <1>1, <1>6, TurnIs
  <2>2. ArmsStand'
    <3> SUFFICES ASSUME NEW q \in Run, NEW j \in Item
                 PROVE  IF stage'[q][j] \in {"idle", "weighing", "refused"} THEN arm'[q][j] = None
                                                                         ELSE arm'[q][j] \in Known'
      BY DEF ArmsStand
    <3>1. CASE q # run \/ j # i
      BY <1>1, <1>3, <2>1, <3>1 DEF ArmsStand
    <3>2. CASE q = run /\ j = i /\ to # "admitted"
      <4>1. to \in {"idle", "weighing", "refused"} <=> from \in {"idle", "weighing", "refused"}
        BY <1>6, <3>2 DEF Turn, Turns
      <4> QED
        BY <1>1, <1>3, <2>1, <3>2, <4>1 DEF ArmsStand
    <3>3. CASE q = run /\ j = i /\ to = "admitted"
      <4>1. PICK r \in Reservation : Admits(run, i, r)
        BY <1>6, <3>3 DEF Turn
      <4>2. arm'[run][i] = r /\ r \in Known'
        BY <1>1, <4>1 DEF Admits, MemoryTyped
      <4> QED
        BY <2>1, <3>3, <4>2
    <3> QED
      BY <3>1, <3>2, <3>3
  <2>3. alive' = alive
    BY <1>6 DEF Turn
  <2>4. spawned' \subseteq Reservation
    <3>1. to = "running" => arm[run][i] \in Known
      BY <1>1, <1>6, <2>1 DEF Turn, Turns, ArmsStand
    <3> QED
      BY <1>1, <1>6, <3>1 DEF Turn, MemoryTyped
  <2>5. cost' \in [Reservation -> Amounts \cup {None}]
    BY <1>1, <1>6 DEF Turn, MemoryTyped
  <2> QED
    BY <1>1, <1>2, <2>1, <2>2, <2>3, <2>4, <2>5 DEF MemoryTyped
<1> QED
  BY <1>4, <1>5, <1>6, TurnsOfSteps

LEMMA RunsStayApart ==
    ASSUME ClaimsInv, NEW run \in Run, VisitStep(run)
    PROVE  RunsApart'
<1>1. MemoryTyped /\ RunsApart
  BY DEF ClaimsInv
<1>2. \A q \in Run \ {run} : claims'[q] = claims[q]
  BY WritesOfSteps DEF ClaimsStay, Admits
<1>3. CASE Launch(run)
  BY <1>1, <1>3 DEF Launch, RunsApart, Live, RunIsGone, MemoryTyped
<1>4. CASE Stop(run)
  BY <1>1, <1>4 DEF Stop, RunsApart, Live, MemoryTyped
<1>5. CASE ReleaseAbandoned(run) /\ UNCHANGED runVars
  BY <1>1, <1>5 DEF RunsApart, Live, runVars
<1>6. ASSUME NEW i \in Item, NEW from \in Stages, NEW to \in Stages, Turn(run, i, from, to)
      PROVE  RunsApart'
  <2>1. alive' = alive /\ Live(run) /\ \A q \in Run \ {run} : stage'[q] = stage[q] /\ arm'[q] = arm[q]
    BY <1>1, <1>6, TurnIs DEF Turn
  <2> QED
    BY <1>1, <1>2, <2>1 DEF RunsApart, Live
<1> QED
  BY <1>3, <1>4, <1>5, <1>6, TurnsOfSteps

\* A release hits a reservation of a root nobody runs, or of the claim that is
\* ended by it.
LEMMA ClaimsStayHeld ==
    ASSUME ClaimsInv, NEW run \in Run, VisitStep(run)
    PROVE  \A q \in Run, t \in Ticket : claims'[q][t] # None => ClaimHolds(q, t)'
<1> SUFFICES ASSUME NEW q \in Run, NEW t \in Ticket, claims'[q][t] # None
             PROVE  ClaimHolds(q, t)'
  OBVIOUS
<1>1. CASE Receipts(run) /\ ClaimsStay(run)
  <2>1. claims[q][t] # None /\ ClaimArms(claims[q][t])' = ClaimArms(claims[q][t])
    BY <1>1 DEF ClaimsStay, ClaimArms
  <2>2. ClaimHolds(q, t) /\ Live(q)
    BY <2>1 DEF ClaimsInv, RunsApart
  <2>3. ASSUME NEW r \in ClaimArms(claims[q][t])
        PROVE  ~reservations'[r].released
    <3>1. /\ r \in Known /\ ~reservations[r].released
          /\ reservations[r].ticket = t /\ reservations[r].root = RootOf[q]
      BY <2>2, <2>3 DEF ClaimHolds
    <3>2. ~RunIsGone(reservations[r].root)
      BY <2>2, <3>1 DEF RunIsGone
    <3>3. ASSUME NEW u \in Ticket, EndsClaim(run, u), r \in ClaimArms(claims[run][u])
          PROVE  FALSE
      <4>1. reservations[r].ticket = u /\ reservations[r].root = RootOf[run] /\ Live(run)
        BY <3>3 DEF EndsClaim, ClaimsInv, ClaimHolds, RunsApart
      <4>2. u = t /\ q = run
        BY <2>2, <3>1, <4>1 DEF ClaimsInv, RunsApart
      <4> QED
        BY <3>3, <4>2 DEF EndsClaim
    <3> QED
      BY <1>1, <3>1, <3>2, <3>3 DEF Receipts
  <2> QED
    BY <1>1, <2>1, <2>2, <2>3 DEF ClaimHolds, Receipts
<1>2. ASSUME NEW i \in Item, NEW r \in Reservation \ Known, Admits(run, i, r)
      PROVE  ClaimHolds(q, t)'
  <2>1. \A s \in Known : s \in Known' /\ reservations'[s] = reservations[s]
    BY <1>2 DEF Admits
  <2>2. CASE q # run \/ t # TicketOf[i]
    <3>1. claims'[q][t] = claims[q][t]
      BY <1>2, <2>2 DEF Admits
    <3>2. ClaimHolds(q, t)
      BY <3>1 DEF ClaimsInv
    <3> QED
      BY <2>1, <3>1, <3>2 DEF ClaimHolds
  <2>3. CASE q = run /\ t = TicketOf[i]
    <3> SUFFICES ASSUME NEW s \in ClaimArms(claims'[run][t])
                 PROVE  /\ s \in Known' /\ ~reservations'[s].released
                        /\ reservations'[s].ticket = t /\ reservations'[s].root = RootOf[run]
      BY <2>3 DEF ClaimHolds
    <3>1. CASE s = r
      BY <1>2, <2>3, <3>1 DEF Admits
    <3>2. CASE s # r
      <4>1. claims[run][t] # None /\ s \in ClaimArms(claims[run][t])
        BY <1>2, <2>3, <3>2 DEF Admits, Claim
      <4> QED
        BY <2>1, <4>1 DEF ClaimsInv, ClaimHolds
    <3> QED
      BY <3>1, <3>2
  <2> QED
    BY <2>2, <2>3
<1> QED
  BY <1>1, <1>2, WritesOfSteps

LEMMA ClaimsKept ==
    ASSUME ClaimsInv, [VisitsNext]_vars
    PROVE  ClaimsInv'
<1>1. CASE UNCHANGED vars
  <2>1. UNCHANGED <<reservations, alive, claims, stage, arm, spawned, cost>>
    BY <1>1 DEF vars, runVars, ledgerVars, ledger
  <2> QED
    BY <2>1 DEF ClaimsInv, RecordsTyped, MemoryTyped, RunsApart, ArmsStand, ClaimHolds, Known, Live, ClaimArms
<1>2. ASSUME NEW run \in Run, VisitStep(run)
      PROVE  ClaimsInv'
  BY <1>2, RecordsStayTyped, MemoryStaysTyped, RunsStayApart, ClaimsStayHeld DEF ClaimsInv
<1> QED
  BY <1>1, <1>2 DEF VisitsNext, VisitStep

LEMMA ClaimsAtFirst == VisitsInit => ClaimsInv
<1> SUFFICES ASSUME VisitsInit PROVE ClaimsInv
  OBVIOUS
<1>1. Known = {}
  BY DEF VisitsInit, LedgerInit, Known
<1> QED
  BY <1>1 DEF VisitsInit, ClaimsInv, RecordsTyped, MemoryTyped, RunsApart, ArmsStand, Live, Stages

LEMMA ClaimsInvariant == VisitsSpec => []ClaimsInv
BY ClaimsAtFirst, ClaimsKept, PTL DEF VisitsSpec

\* What a live run claims is on the chain and not given back, whatever other
\* runs recover and whichever of their receipts are lost: the recovery asks
\* for the lock of the root, and one run holds that.
THEOREM ClaimsStayOutstanding == VisitsSpec => []LiveClaimsAreOutstanding
<1>1. ClaimsInv => LiveClaimsAreOutstanding
  BY DEF ClaimsInv, ClaimHolds, LiveClaimsAreOutstanding
<1> QED
  BY <1>1, ClaimsInvariant, PTL

-----------------------------------------------------------------------------
(* A process is a consumed invocation, where every receipt is written.     *)

BusyStages == {"weighing", "admitted", "confirmed", "routed"}

Consumes(r) == r \in Known /\ reservations[r].started /\ ~reservations[r].released

ConsumedInv ==
    /\ \A run \in Run : \A i, j \in Item :
         stage[run][i] \in BusyStages /\ stage[run][j] \in BusyStages => i = j
    /\ \A run \in Run, i \in Item : stage[run][i] = "admitted" =>
         Claim(run, i) # None /\ arm[run][i] \in ClaimArms(Claim(run, i))
    /\ \A run \in Run, i \in Item : stage[run][i] \in {"starting", "running"} => Consumes(arm[run][i])
    /\ \A r \in spawned : Consumes(r)

LEMMA ConsumedStays ==
    ASSUME ClaimsInv, NEW run \in Run, VisitStep(run), NEW r, Consumes(r)
    PROVE  Consumes(r)'
<1>1. CASE Receipts(run)
  BY <1>1 DEF Receipts, Consumes
<1>2. ASSUME NEW i \in Item, NEW q \in Reservation \ Known, Admits(run, i, q)
      PROVE  Consumes(r)'
  BY <1>2 DEF Admits, Consumes
<1> QED
  BY <1>1, <1>2, WritesOfSteps

\* A turn that does not start from a busy stage.
LEMMA OneBusyItem ==
    ASSUME ClaimsInv, ConsumedInv, NEW run \in Run, NEW i \in Item,
           NEW from \in Stages, NEW to \in Stages, Turn(run, i, from, to),
           NEW j \in Item \ {i}, stage[run][j] \in BusyStages
    PROVE  /\ from \in {"starting", "running"} /\ to \notin BusyStages
           /\ \A t \in Ticket : claims[run][t] # None => claims'[run][t] # None
<1>1. stage[run][i] = from
  BY TurnIs DEF ClaimsInv
<1>2. Busy(run)
  BY DEF Busy, BusyStages
<1>3. from \in {"starting", "running"} /\ to \notin BusyStages
  BY <1>1, <1>2 DEF Turn, Turns, Deed, MayStart, ConsumedInv, BusyStages
<1>4. CASE from = "starting"
  BY <1>3, <1>4 DEF Turn, Deed
<1>5. CASE from = "running"
  <2>1. Exit(run, i)
    BY <1>5 DEF Turn, Deed
  <2>2. /\ \A t \in Ticket : t # TicketOf[i] => claims'[run][t] = claims[run][t]
        /\ Claim(run, i) = None => UNCHANGED claims
        /\ Claim(run, i) # None => claims'[run][TicketOf[i]] # None
    BY <2>1, ExitWrites
  <2>3. \A t \in Ticket : claims[run][t] # None => claims'[run][t] # None
    BY <2>2 DEF Claim
  <2> QED
    BY <1>3, <2>3
<1> QED
  BY <1>3, <1>4, <1>5

LEMMA ConsumedKept ==
    ASSUME ~AppendsMayFail, ClaimsInv, ConsumedInv, NEW run \in Run, VisitStep(run)
    PROVE  ConsumedInv'
<1>1. \A r : Consumes(r) => Consumes(r)'
  BY ConsumedStays
<1>2. \A q \in Run \ {run} : claims'[q] = claims[q]
  BY WritesOfSteps DEF ClaimsStay, Admits
<1>3. MemoryTyped /\ RunsApart
  BY DEF ClaimsInv
<1>4. CASE Launch(run) \/ (ReleaseAbandoned(run) /\ UNCHANGED runVars)
  <2>1. UNCHANGED <<claims, stage, arm, spawned>>
    BY <1>4 DEF Launch, runVars
  <2> QED
    BY <1>1, <2>1 DEF ConsumedInv, Claim, ClaimArms
<1>5. CASE Stop(run)
  <2>1. /\ \A q \in Run \ {run} : stage'[q] = stage[q] /\ arm'[q] = arm[q]
        /\ \A i \in Item : stage'[run][i] = "idle"
        /\ UNCHANGED spawned
    BY <1>3, <1>5 DEF Stop, MemoryTyped
  <2> QED
    BY <1>1, <1>2, <2>1 DEF ConsumedInv, Claim, ClaimArms, BusyStages
<1>6. ASSUME NEW i \in Item, NEW from \in Stages, NEW to \in Stages, Turn(run, i, from, to)
      PROVE  ConsumedInv'
  <2>1. /\ stage[run][i] = from /\ stage'[run][i] = to
        /\ \A q \in Run \ {run} : stage'[q] = stage[q] /\ arm'[q] = arm[q]
        /\ \A j \in Item \ {i} : stage'[run][j] = stage[run][j] /\ arm'[run][j] = arm[run][j]
        /\ to # "admitted" => arm'[run][i] = arm[run][i]
    BY <1>3, <1>6, TurnIs
  <2>2. ASSUME NEW q \in Run, NEW j \in Item, NEW k \in Item,
               stage'[q][j] \in BusyStages, stage'[q][k] \in BusyStages
        PROVE  j = k
    <3>1. CASE q # run
      BY <2>1, <2>2, <3>1 DEF ConsumedInv
    <3>2. CASE q = run
      <4>1. \A l \in Item \ {i} : stage[run][l] \in BusyStages => to \notin BusyStages
        BY <1>6, OneBusyItem
      <4> QED
        BY <2>1, <2>2, <3>2, <4>1 DEF ConsumedInv
    <3> QED
      BY <3>1, <3>2
  <2>3. ASSUME NEW q \in Run, NEW j \in Item, stage'[q][j] = "admitted"
        PROVE  Claim(q, j)' # None /\ arm'[q][j] \in ClaimArms(Claim(q, j))'
    <3>1. CASE q # run
      BY <1>2, <2>1, <2>3, <3>1 DEF ConsumedInv, Claim, ClaimArms
    <3>2. CASE q = run /\ j # i
      <4>1. stage[run][j] = "admitted" /\ arm'[run][j] = arm[run][j]
        BY <2>1, <2>3, <3>2
      <4>2. Claim(run, j) # None /\ arm[run][j] \in ClaimArms(Claim(run, j)) /\ TicketOf[j] \in Ticket
        BY <4>1, TicketsOfItems DEF ConsumedInv
      <4>3. claims'[run][TicketOf[j]] # None /\ to # "admitted"
        BY <1>6, <3>2, <4>1, <4>2, OneBusyItem DEF BusyStages, Claim
      <4>4. ClaimsStay(run)
        <5>1. ASSUME NEW i2 \in Item, NEW r \in Reservation, Admits(run, i2, r)
              PROVE  FALSE
          <6>1. stage[run][i2] = "weighing" /\ stage'[run][i2] = "admitted"
            BY <1>3, <5>1 DEF Admits, Advance, MemoryTyped
          <6>2. i2 = j
            BY <4>1, <6>1 DEF ConsumedInv, BusyStages
          <6> QED
            BY <4>1, <6>1, <6>2
        <5> QED
          BY <5>1, WritesOfSteps
      <4> QED
        BY <3>2, <4>1, <4>2, <4>3, <4>4 DEF ClaimsStay, Claim, ClaimArms
    <3>3. CASE q = run /\ j = i
      <4>1. PICK r \in Reservation : Admits(run, i, r)
        BY <1>6, <2>1, <2>3, <3>3 DEF Turn
      <4>2. arm'[run][i] = r
        BY <1>3, <4>1 DEF Admits, MemoryTyped
      <4> QED
        BY <3>3, <4>1, <4>2 DEF Admits, Claim, ClaimArms
    <3> QED
      BY <3>1, <3>2, <3>3
  <2>4. ASSUME NEW q \in Run, NEW j \in Item, stage'[q][j] \in {"starting", "running"},
               NEW r \in Reservation \cup {None}, r = arm'[q][j]
        PROVE  Consumes(r)'
    <3>1. CASE q # run \/ j # i
      <4>1. stage[q][j] = stage'[q][j] /\ arm[q][j] = r
        BY <2>1, <2>4, <3>1
      <4>2. Consumes(r)
        BY <2>4, <4>1 DEF ConsumedInv
      <4> QED
        BY <1>1, <4>2
    <3>2. CASE q = run /\ j = i /\ to = "running"
      <4>1. from = "starting" /\ arm[run][i] = r
        BY <1>6, <2>1, <2>4, <3>2 DEF Turn, Turns
      <4>2. Consumes(r)
        BY <2>1, <4>1 DEF ConsumedInv
      <4> QED
        BY <1>1, <4>2
    <3>3. CASE q = run /\ j = i /\ to = "starting"
      <4>1. from = "admitted" /\ NoteStart(run, i) /\ arm[run][i] = r
        BY <1>6, <2>1, <2>4, <3>3 DEF Turn, Turns, Deed
      <4>2. Claim(run, i) # None /\ r \in ClaimArms(Claim(run, i))
        BY <2>1, <4>1 DEF ConsumedInv
      <4>3. reservations'[r].started
        BY <4>1, <4>2, StartWrites
      <4>4. PICK t \in Ticket : t = TicketOf[i]
        BY TicketsOfItems
      <4>5. claims[run][t] # None /\ Claim(run, i) \in Claims /\ Claim(run, i) = claims[run][t]
        BY <1>3, <4>2, <4>4, ClaimTyped
      <4>6. claims'[run][t] # None
        <5>1. claims'[run][t] = [claims[run][t] EXCEPT !.started = TRUE]
          BY <4>1, <4>2, <4>4, <4>5, StartWrites
        <5> QED
          BY <4>5, <5>1, ClaimAssumption DEF Claims
      <4>7. ClaimHolds(run, t)'
        BY <4>6, ClaimsStayHeld
      <4>8. claims'[run][t].arms = claims[run][t].arms
        BY <4>1, <4>6, StartWrites DEF ClaimsStay
      <4>9. r \in Known' /\ ~reservations'[r].released
        BY <4>2, <4>5, <4>7, <4>8 DEF ClaimHolds, ClaimArms
      <4> QED
        BY <4>3, <4>9 DEF Consumes
    <3> QED
      BY <2>1, <2>4, <3>1, <3>2, <3>3
  <2>5. ASSUME NEW r \in spawned'
        PROVE  Consumes(r)'
    BY <1>1, <1>6, <2>1, <2>5 DEF ConsumedInv, Turn, Turns
  <2>6. \A q \in Run, j \in Item : arm'[q][j] \in Reservation \cup {None}
    BY <1>3, <1>6, TurnIs
  <2>7. \A q \in Run, j \in Item : stage'[q][j] \in {"starting", "running"} =>
          /\ arm'[q][j] \in Known' /\ reservations'[arm'[q][j]].started
          /\ ~reservations'[arm'[q][j]].released
    BY <2>4, <2>6 DEF Consumes
  <2> QED
    BY <2>2, <2>3, <2>5, <2>7 DEF ConsumedInv, Consumes
<1> QED
  BY <1>4, <1>5, <1>6, TurnsOfSteps

\* Where every receipt can be written, a process that was once created stays
\* a consumed invocation, whatever dies, recovers or starts again after it.
THEOREM ProcessesAreNeverRefunded ==
    ASSUME ~AppendsMayFail
    PROVE  VisitsSpec => []ProcessesStayConsumed
<1>1. VisitsInit => ConsumedInv
  BY DEF VisitsInit, ConsumedInv, BusyStages
<1>2. ClaimsInv /\ ConsumedInv /\ [VisitsNext]_vars => ConsumedInv'
  <2> SUFFICES ASSUME ClaimsInv, ConsumedInv, [VisitsNext]_vars PROVE ConsumedInv'
    OBVIOUS
  <2>1. CASE UNCHANGED vars
    <3>1. UNCHANGED <<reservations, claims, stage, arm, spawned>>
      BY <2>1 DEF vars, runVars, ledgerVars, ledger
    <3> QED
      BY <3>1 DEF ConsumedInv, Consumes, Known, Claim, ClaimArms
  <2>2. CASE \E run \in Run : VisitStep(run)
    BY <2>2, ConsumedKept
  <2> QED
    BY <2>1, <2>2 DEF VisitsNext, VisitStep
<1>3. ConsumedInv => ProcessesStayConsumed
  BY DEF ConsumedInv, Consumes, ProcessesStayConsumed, Started
<1> QED
  BY <1>1, <1>2, <1>3, ClaimsInvariant, PTL DEF VisitsSpec

-----------------------------------------------------------------------------
(* Settling, where runs are sequential and every receipt is written.       *)

WorkingStages == {"admitted", "starting", "running", "exited", "confirmed", "routed"}
ActiveStages == WorkingStages \cup {"weighing"}

\* The claim of an item at work is its own, on the one arm it was admitted
\* on, and has landed what its process was measured to cost.
ClaimFits(run, i, claim, r) ==
    /\ claim # None /\ claim.arms = <<r>> /\ reservations[r].spend = None
    /\ claim.started = (stage[run][i] # "admitted")
    /\ stage[run][i] = "admitted" => ~reservations[r].started
    /\ stage[run][i] \in {"admitted", "starting", "running"} => cost[r] = None
    /\ claim.landed = IF cost[r] = None THEN <<>> ELSE <<cost[r]>>

OneAtWork ==
    \A run \in Run : \A i, j \in Item :
      stage[run][i] \in ActiveStages /\ stage[run][j] \in ActiveStages => i = j

ClaimsHaveItems ==
    \A run \in Run, t \in Ticket : claims[run][t] # None =>
      \E i \in Item : TicketOf[i] = t /\ stage[run][i] \in WorkingStages

ClaimsFit ==
    \A run \in Run, i \in Item : stage[run][i] \in WorkingStages =>
      ClaimFits(run, i, Claim(run, i), arm[run][i])

ArmsApart ==
    \A run, q \in Run, i, j \in Item :
      arm[run][i] # None /\ arm[run][i] = arm[q][j] => run = q /\ i = j

CostsKnown == \A r \in Reservation : cost[r] # None => r \in Known

VisitsEndWell ==
    \A run \in Run, i \in Item :
      /\ stage[run][i] = "done" => reservations[arm[run][i]].spend = Owed(arm[run][i])
      /\ stage[run][i] = "stalled" => reservations[arm[run][i]].released

SequentialInv ==
    OneAtWork /\ ClaimsHaveItems /\ ClaimsFit /\ ArmsApart /\ CostsKnown /\ VisitsEndWell

\* While one item of a run moves, no other one of it is at work, and the
\* run's only claim is that of the item.
LEMMA OthersRest ==
    ASSUME Pooled = {}, ClaimsInv, SequentialInv, NEW run \in Run, NEW i \in Item,
           NEW from \in Stages, NEW to \in Stages, Turn(run, i, from, to)
    PROVE  /\ \A j \in Item \ {i} : stage[run][j] \notin ActiveStages
           /\ \A t \in Ticket : claims[run][t] # None => t = TicketOf[i] /\ from \in WorkingStages
<1>1. stage[run][i] = from
  BY TurnIs DEF ClaimsInv
<1>2. ASSUME NEW j \in Item \ {i}, stage[run][j] \in ActiveStages
      PROVE  FALSE
  <2>1. from \in ActiveStages \cup {"idle"}
    BY DEF Turn, Turns, ActiveStages, WorkingStages
  <2>2. CASE from = "idle"
    <3>1. MayStart(run) /\ run \notin Pooled
      BY <2>2 DEF Turn, Deed
    <3>2. stage[run][j] \notin {"starting", "running", "exited"}
      BY <3>1 DEF MayStart
    <3>3. stage[run][j] \notin {"weighing", "admitted", "confirmed", "routed"}
      BY <3>1 DEF MayStart, Busy
    <3> QED
      BY <1>2, <3>2, <3>3 DEF ActiveStages, WorkingStages
  <2>3. CASE from \in ActiveStages
    BY <1>1, <1>2, <2>3 DEF SequentialInv, OneAtWork
  <2> QED
    BY <2>1, <2>2, <2>3
<1>3. ASSUME NEW t \in Ticket, claims[run][t] # None
      PROVE  t = TicketOf[i] /\ from \in WorkingStages
  <2>1. PICK k \in Item : TicketOf[k] = t /\ stage[run][k] \in WorkingStages
    BY <1>3 DEF SequentialInv, ClaimsHaveItems
  <2>2. k = i
    BY <1>2, <2>1 DEF ActiveStages
  <2> QED
    BY <1>1, <2>1, <2>2
<1> QED
  BY <1>2, <1>3

\* A reservation no claim of the run names keeps its spend and its start.
LEMMA OthersKeepTheirs ==
    ASSUME ClaimsInv, NEW run \in Run, VisitStep(run), NEW r \in Known,
           \A t \in Ticket : claims[run][t] # None => r \notin ClaimArms(claims[run][t])
    PROVE  /\ reservations'[r].spend = reservations[r].spend
           /\ reservations'[r].started => reservations[r].started
           /\ reservations[r].released => reservations'[r].released
<1>1. CASE Receipts(run)
  <2>1. reservations'[r].spend = reservations[r].spend
    BY <1>1 DEF Receipts, EndsClaim
  <2>2. reservations'[r].started => reservations[r].started
    BY <1>1 DEF Receipts
  <2>3. reservations[r].released => reservations'[r].released
    BY <1>1 DEF Receipts
  <2> QED
    BY <2>1, <2>2, <2>3
<1>2. ASSUME NEW i \in Item, NEW q \in Reservation \ Known, Admits(run, i, q)
      PROVE  reservations'[r] = reservations[r]
  BY <1>2 DEF Admits
<1> QED
  BY <1>1, <1>2, WritesOfSteps

\* The arms of the items that do not move.
LEMMA OtherItems ==
    ASSUME Pooled = {}, ClaimsInv, SequentialInv, NEW run \in Run, NEW i \in Item,
           VisitStep(run), NEW from \in Stages, NEW to \in Stages, Turn(run, i, from, to),
           NEW q \in Run, NEW j \in Item, q # run \/ j # i, arm[q][j] # None
    PROVE  /\ arm'[q][j] = arm[q][j] /\ stage'[q][j] = stage[q][j]
           /\ arm[q][j] \in Known /\ arm[q][j] \in Reservation
           /\ cost'[arm[q][j]] = cost[arm[q][j]]
           /\ reservations'[arm[q][j]].spend = reservations[arm[q][j]].spend
           /\ reservations'[arm[q][j]].started => reservations[arm[q][j]].started
           /\ reservations[arm[q][j]].released => reservations'[arm[q][j]].released
<1>1. MemoryTyped /\ ArmsStand /\ Known \subseteq Reservation
  BY DEF ClaimsInv, RecordsTyped
<1>2. arm'[q][j] = arm[q][j] /\ stage'[q][j] = stage[q][j]
  BY <1>1, TurnIs
<1>3. PICK r : r = arm[q][j]
  OBVIOUS
<1>4. r \in Known /\ r \in Reservation
  BY <1>1, <1>3 DEF ArmsStand
<1>5. ASSUME NEW t \in Ticket, claims[run][t] # None, r \in ClaimArms(claims[run][t])
      PROVE  FALSE
  <2>1. PICK k \in Item : TicketOf[k] = t /\ stage[run][k] \in WorkingStages
    BY <1>5 DEF SequentialInv, ClaimsHaveItems
  <2>2. k = i
    BY <2>1, OthersRest DEF ActiveStages
  <2>3. claims[run][t].arms = <<arm[run][i]>>
    BY <2>1, <2>2 DEF SequentialInv, ClaimsFit, ClaimFits, Claim
  <2>4. r = arm[run][i]
    BY <1>5, <2>3 DEF ClaimArms
  <2>5. ArmsApart
    BY DEF SequentialInv
  <2>6. arm[q][j] # None /\ arm[q][j] = arm[run][i]
    BY <1>3, <2>4
  <2>7. q = run /\ j = i
    BY <2>5, <2>6 DEF ArmsApart
  <2> QED
    BY <2>7
<1>6. /\ reservations'[r].spend = reservations[r].spend
      /\ reservations'[r].started => reservations[r].started
      /\ reservations[r].released => reservations'[r].released
  BY <1>4, <1>5, OthersKeepTheirs
<1>7. cost'[r] = cost[r]
  <2>1. CASE from = "running"
    <3>1. PICK amount \in Amounts \cup {None} : cost' = [cost EXCEPT ![arm[run][i]] = amount]
      BY <2>1 DEF Turn
    <3>2. r # arm[run][i]
      BY <1>3 DEF SequentialInv, ArmsApart
    <3> QED
      BY <1>1, <1>4, <3>1, <3>2 DEF MemoryTyped
  <2> QED
    BY <2>1 DEF Turn
<1> QED
  BY <1>2, <1>3, <1>4, <1>6, <1>7

\* An arm that was just admitted.
LEMMA AdmittedFits ==
    ASSUME Pooled = {}, ClaimsInv, SequentialInv, NEW run \in Run, NEW i \in Item,
           NEW from \in Stages, NEW to \in Stages, Turn(run, i, from, to), to = "admitted",
           NEW r \in Reservation \ Known, Admits(run, i, r),
           NEW claim, claim = claims'[run][TicketOf[i]]
    PROVE  arm'[run][i] = r /\ UNCHANGED cost /\ ClaimFits(run, i, claim, r)'
<1>1. MemoryTyped
  BY DEF ClaimsInv
<1>2. from = "weighing" /\ UNCHANGED cost
  BY DEF Turn, Turns
<1>3. claim = [travel |-> r, arms |-> <<r>>, started |-> FALSE, landed |-> <<>>] /\ claim # None
  <2>1. Claim(run, i) = None
    BY <1>2, OthersRest, TicketsOfItems DEF Claim, WorkingStages
  <2> QED
    BY <2>1 DEF Admits
<1>4. claim.arms = <<r>> /\ claim.started = FALSE /\ claim.landed = <<>>
  BY <1>3
<1>5. arm'[run][i] = r /\ stage'[run][i] = "admitted"
  BY <1>1, TurnIs DEF Admits, MemoryTyped
<1>6. cost'[r] = None /\ reservations'[r].spend = None /\ ~reservations'[r].started
  BY <1>2 DEF SequentialInv, CostsKnown, Admits
<1> QED
  BY <1>2, <1>3, <1>4, <1>5, <1>6 DEF ClaimFits

\* An item that goes on working keeps its claim.
LEMMA WorkingFits ==
    ASSUME Pooled = {}, ClaimsInv, SequentialInv, NEW run \in Run, NEW i \in Item,
           VisitStep(run), NEW from \in Stages, NEW to \in Stages, Turn(run, i, from, to),
           to \in WorkingStages \ {"admitted"},
           NEW r \in Reservation, r = arm[run][i], NEW claim, claim = claims'[run][TicketOf[i]]
    PROVE  ClaimFits(run, i, claim, r)'
<1>1. MemoryTyped /\ ArmsStand /\ Known \subseteq Reservation
  BY DEF ClaimsInv, RecordsTyped
<1>2. stage[run][i] = from /\ stage'[run][i] = to
  BY <1>1, TurnIs
<1>3. from \in WorkingStages
  BY DEF Turn, Turns, WorkingStages
<1>4. PICK t \in Ticket : t = TicketOf[i]
  BY TicketsOfItems
<1>5. PICK old \in Claims : old = claims[run][t]
  <2>1. Claim(run, i) # None
    BY <1>2, <1>3 DEF SequentialInv, ClaimsFit, ClaimFits
  <2> QED
    BY <1>1, <1>4, <2>1, ClaimTyped
<1>6. ClaimFits(run, i, old, r) /\ Claim(run, i) = old /\ old # None
  BY <1>2, <1>3, <1>4, <1>5 DEF SequentialInv, ClaimsFit, ClaimFits, Claim
<1>7. r \in Known
  BY <1>1, <1>2, <1>3 DEF ArmsStand, WorkingStages
<1>8. ASSUME claim # None
      PROVE  /\ claim.arms = <<r>> /\ reservations'[r].spend = None
             /\ reservations'[r].started => reservations[r].started \/ claim.started
  <2>1. ASSUME NEW j \in Item, NEW s \in Reservation \ Known, Admits(run, j, s)
        PROVE  FALSE
    BY <1>1, <1>2, <1>3, <2>1, OthersRest DEF Admits, Advance, ActiveStages, WorkingStages
  <2>2. Receipts(run) /\ ClaimsStay(run)
    BY <2>1, WritesOfSteps
  <2>3. claim.arms = old.arms
    BY <1>4, <1>5, <1>8, <2>2 DEF ClaimsStay
  <2>4. \A u \in Ticket : claims[run][u] # None => u = t
    BY <1>4, OthersRest
  <2>5. reservations'[r].spend = reservations[r].spend
    BY <1>4, <1>7, <1>8, <2>2, <2>4 DEF Receipts, EndsClaim
  <2>6. reservations'[r].started => reservations[r].started \/ claim.started
    BY <1>4, <1>7, <2>2, <2>4 DEF Receipts
  <2> QED
    BY <1>6, <2>3, <2>5, <2>6 DEF ClaimFits
<1>9. ASSUME NoteStart(run, i), UNCHANGED cost, to \in {"starting", "confirmed"}
      PROVE  ClaimFits(run, i, claim, r)'
  <2>1. claim = [old EXCEPT !.started = TRUE]
    BY <1>4, <1>6, <1>9, StartWrites
  <2>2. claim # None /\ claim.started = TRUE /\ claim.landed = old.landed
    BY <2>1, ClaimAssumption DEF Claims
  <2>3. from \in {"admitted", "exited"} /\ (to = "starting" => from = "admitted")
    BY <1>9 DEF Turn, Turns
  <2>4. /\ cost'[r] = cost[r] /\ (to = "starting" => cost[r] = None)
        /\ old.landed = IF cost[r] = None THEN <<>> ELSE <<cost[r]>>
    BY <1>2, <1>6, <1>9, <2>3 DEF ClaimFits
  <2> QED
    BY <1>2, <1>8, <1>9, <2>2, <2>4 DEF ClaimFits
<1>10. ASSUME claim # None, claim.started = old.started, claim.landed = old.landed, UNCHANGED cost,
              from # "admitted", to = "running" => from \in {"starting", "running"}
       PROVE  ClaimFits(run, i, claim, r)'
  <2>1. /\ cost'[r] = cost[r] /\ (to = "running" => cost[r] = None) /\ old.started = TRUE
        /\ old.landed = IF cost[r] = None THEN <<>> ELSE <<cost[r]>>
    BY <1>2, <1>6, <1>10 DEF ClaimFits
  <2>2. to # "starting"
    BY <1>10 DEF Turn, Turns
  <2> QED
    BY <1>2, <1>8, <1>10, <2>1, <2>2 DEF ClaimFits
<1>11. CASE to \in {"starting", "confirmed"}
  <2>1. NoteStart(run, i) /\ UNCHANGED cost
    BY <1>11 DEF Turn, Turns, Deed
  <2> QED
    BY <1>9, <1>11, <2>1
<1>12. CASE from = "starting"
  <2>1. UNCHANGED <<claims, cost>>
    BY <1>12 DEF Turn, Turns, Deed
  <2> QED
    BY <1>4, <1>5, <1>6, <1>10, <1>12, <2>1
<1>13. CASE from = "running"
  <2>1. Exit(run, i) /\ to = "exited"
    BY <1>13 DEF Turn, Turns, Deed
  <2>2. PICK amount \in Amounts \cup {None} :
          /\ cost' = [cost EXCEPT ![arm[run][i]] = amount]
          /\ claims'[run][t] # None /\ claims'[run][t].started = old.started
          /\ claims'[run][t].landed = IF amount = None THEN old.landed ELSE Append(old.landed, amount)
    BY <1>4, <1>6, <2>1, ExitWrites
  <2>3. cost'[r] = amount
    BY <1>1, <2>2 DEF MemoryTyped
  <2>4. old.landed = <<>> /\ old.started = TRUE
    BY <1>2, <1>6, <1>13 DEF ClaimFits
  <2>5. claim # None /\ claim.started = TRUE
    BY <1>4, <2>2, <2>4
  <2>6. claim.landed = IF cost'[r] = None THEN <<>> ELSE <<cost'[r]>>
    BY <1>4, <2>2, <2>3, <2>4
  <2> QED
    BY <1>2, <1>8, <2>1, <2>5, <2>6 DEF ClaimFits
<1>14. CASE from = "confirmed"
  <2>1. (ApplyEdge(run, i) \/ UNCHANGED claims) /\ UNCHANGED cost /\ to = "routed"
    BY <1>14 DEF Turn, Turns, Deed
  <2>2. claim # None /\ claim.started = old.started /\ claim.landed = old.landed
    BY <1>4, <1>5, <1>6, <2>1, EdgeWrites
  <2> QED
    BY <1>10, <1>14, <2>1, <2>2
<1>15. to \in {"starting", "confirmed"} \/ from \in {"starting", "running", "confirmed"}
  BY DEF Turn, Turns, WorkingStages
<1> QED
  BY <1>11, <1>12, <1>13, <1>14, <1>15

\* A visit that is settled pays for what its own process cost, and one that
\* stalls gives its reservation back.
LEMMA VisitEnds ==
    ASSUME Pooled = {}, ~AppendsMayFail, ClaimsInv, SequentialInv, NEW run \in Run, NEW i \in Item,
           VisitStep(run), NEW from \in Stages, NEW to \in Stages, Turn(run, i, from, to),
           to \in {"done", "stalled"}, NEW r \in Reservation, r = arm[run][i]
    PROVE  /\ claims'[run][TicketOf[i]] = None
           /\ to = "done" => reservations'[r].spend = Owed(r)'
           /\ to = "stalled" => reservations'[r].released
<1>1. MemoryTyped /\ ArmsStand
  BY DEF ClaimsInv
<1>2. stage[run][i] = from /\ from \in WorkingStages /\ UNCHANGED cost
  <2>1. from \in {"admitted", "starting", "routed"}
    BY DEF Turn, Turns
  <2>2. UNCHANGED cost
    BY <2>1 DEF Turn
  <2> QED
    BY <1>1, <2>1, <2>2, TurnIs DEF WorkingStages
<1>3. EndVisit(run, i) /\ (to = "done" => from = "routed") /\ (to = "stalled" => from = "admitted")
  BY DEF Turn, Turns, Deed
<1>4. PICK old : old = Claim(run, i)
  OBVIOUS
<1>5. ClaimFits(run, i, old, r)
  BY <1>2, <1>4 DEF SequentialInv, ClaimsFit
<1>6. r \in ClaimArms(old) /\ old # None
  BY <1>5 DEF ClaimFits, ClaimArms
<1>7. r \in Known /\ ~reservations[r].released
  BY <1>1, <1>4, <1>6, ClaimTyped DEF ClaimsInv, ClaimHolds
<1>8. /\ claims'[run][TicketOf[i]] = None
      /\ old.started => reservations'[r].spend = Settled(old, r)
      /\ ~old.started /\ ~reservations[r].started => reservations'[r].released
  BY <1>3, <1>4, <1>6, EndWrites
<1>9. CASE to = "done"
  <2>1. old.started /\ old.arms = <<r>> /\ reservations[r].spend = None
        /\ old.landed = IF cost[r] = None THEN <<>> ELSE <<cost[r]>>
    BY <1>2, <1>3, <1>5, <1>9 DEF ClaimFits
  <2>2. (CHOOSE n \in DOMAIN old.arms : old.arms[n] = r) = 1
    BY <2>1
  <2>3. Settled(old, r) = SettledAmount(old.landed, 1)
    BY <1>7, <2>1, <2>2 DEF Settled
  <2>4. SettledAmount(old.landed, 1) = Owed(r)
    <3>1. CASE cost[r] = None
      BY <2>1, <3>1 DEF SettledAmount, Owed
    <3>2. CASE cost[r] # None
      <4>1. old.landed = <<cost[r]>> /\ 1 \in DOMAIN old.landed /\ old.landed[1] = cost[r]
        BY <2>1, <3>2
      <4> QED
        BY <3>2, <4>1 DEF SettledAmount, Owed
    <3> QED
      BY <3>1, <3>2
  <2>5. Owed(r)' = Owed(r)
    BY <1>2 DEF Owed
  <2> QED
    BY <1>8, <1>9, <2>1, <2>3, <2>4, <2>5
<1>10. CASE to = "stalled"
  BY <1>2, <1>3, <1>5, <1>8, <1>10 DEF ClaimFits
<1> QED
  BY <1>8, <1>9, <1>10

LEMMA SequentialTurn ==
    ASSUME Pooled = {}, ~AppendsMayFail, ClaimsInv, SequentialInv, NEW run \in Run, NEW i \in Item,
           VisitStep(run), NEW from \in Stages, NEW to \in Stages, Turn(run, i, from, to)
    PROVE  SequentialInv'
<1>1. MemoryTyped /\ ArmsStand /\ Known \subseteq Reservation /\ Known \subseteq Known'
  BY RecordsStayTyped DEF ClaimsInv, RecordsTyped
<1>2. /\ stage[run][i] = from /\ stage'[run][i] = to
      /\ \A q \in Run \ {run} : stage'[q] = stage[q] /\ arm'[q] = arm[q] /\ claims'[q] = claims[q]
      /\ \A j \in Item \ {i} : stage'[run][j] = stage[run][j] /\ arm'[run][j] = arm[run][j]
      /\ to # "admitted" => arm'[run][i] = arm[run][i]
  <2>1. \A q \in Run \ {run} : claims'[q] = claims[q]
    BY WritesOfSteps DEF ClaimsStay, Admits
  <2> QED
    BY <1>1, <2>1, TurnIs
<1>3. \A j \in Item \ {i} : stage'[run][j] \notin ActiveStages
  BY <1>2, OthersRest
<1>4. ASSUME to \in WorkingStages, NEW r, r = arm'[run][i], NEW claim, claim = claims'[run][TicketOf[i]]
      PROVE  ClaimFits(run, i, claim, r)'
  <2>1. CASE to = "admitted"
    <3>1. PICK s \in Reservation \ Known : Admits(run, i, s)
      BY <2>1 DEF Turn
    <3> QED
      BY <1>4, <2>1, <3>1, AdmittedFits
  <2>2. CASE to # "admitted"
    <3>1. from \in WorkingStages /\ arm[run][i] = r
      BY <1>2, <1>4, <2>2 DEF Turn, Turns, WorkingStages
    <3>2. r \in Reservation
      BY <1>1, <1>2, <3>1 DEF ArmsStand, WorkingStages
    <3> QED
      BY <1>4, <2>2, <3>1, <3>2, WorkingFits
  <2> QED
    BY <2>1, <2>2
<1>5. OneAtWork'
  BY <1>2, <1>3 DEF SequentialInv, OneAtWork
<1>6. ClaimsHaveItems'
  <2> SUFFICES ASSUME NEW q \in Run, NEW t \in Ticket, claims'[q][t] # None
               PROVE  \E j \in Item : TicketOf[j] = t /\ stage'[q][j] \in WorkingStages
    BY DEF ClaimsHaveItems
  <2>1. CASE q # run
    BY <1>2, <2>1 DEF SequentialInv, ClaimsHaveItems
  <2>2. CASE q = run
    <3>1. t = TicketOf[i] /\ (to = "admitted" \/ from \in WorkingStages)
      <4>1. CASE claims[run][t] # None
        BY <4>1, OthersRest
      <4>2. CASE claims[run][t] = None
        <5>1. PICK j \in Item, r \in Reservation : Admits(run, j, r)
          BY <2>2, <4>2, WritesOfSteps DEF ClaimsStay
        <5>2. t = TicketOf[j] /\ stage[run][j] = "weighing" /\ stage'[run][j] = "admitted"
          BY <1>1, <2>2, <4>2, <5>1 DEF Admits, Advance, MemoryTyped
        <5>3. j = i
          BY <5>2, OthersRest DEF ActiveStages
        <5> QED
          BY <1>2, <5>2, <5>3
      <4> QED
        BY <4>1, <4>2
    <3>2. to \notin {"done", "stalled"}
      <4>1. CASE to \in {"done", "stalled"}
        <5>1. from \in WorkingStages
          BY <4>1 DEF Turn, Turns, WorkingStages
        <5>2. arm[run][i] \in Reservation
          BY <1>1, <1>2, <5>1 DEF ArmsStand, WorkingStages
        <5>3. claims'[run][TicketOf[i]] = None
          BY <4>1, <5>2, VisitEnds
        <5> QED
          BY <2>2, <3>1, <5>3
      <4> QED
        BY <4>1
    <3>3. to \in WorkingStages
      BY <3>1, <3>2 DEF Turn, Turns, WorkingStages
    <3> QED
      BY <1>2, <2>2, <3>1, <3>3
  <2> QED
    BY <2>1, <2>2
<1>7. ClaimsFit'
  <2>1. ASSUME NEW q \in Run, NEW j \in Item, stage'[q][j] \in WorkingStages,
               NEW r, r = arm'[q][j], NEW claim, claim = claims'[q][TicketOf[j]]
        PROVE  ClaimFits(q, j, claim, r)'
    <3>1. CASE q = run
      <4>1. j = i
        BY <1>3, <2>1, <3>1 DEF ActiveStages
      <4> QED
        BY <1>2, <1>4, <2>1, <3>1, <4>1
    <3>2. CASE q # run
      <4>1. /\ stage[q][j] = stage'[q][j] /\ arm[q][j] = r /\ Claim(q, j) = claim
            /\ stage[q][j] \in WorkingStages
        BY <1>2, <2>1, <3>2 DEF Claim
      <4>2. ClaimFits(q, j, claim, r)
        BY <4>1 DEF SequentialInv, ClaimsFit
      <4>3. r \in Known /\ r # None
        BY <1>1, <4>1, NoneAssumption DEF ArmsStand, WorkingStages
      <4>4. /\ cost'[r] = cost[r] /\ reservations'[r].spend = reservations[r].spend
            /\ reservations'[r].started => reservations[r].started
        BY <3>2, <4>1, <4>3, OtherItems
      <4> QED
        BY <4>1, <4>2, <4>4 DEF ClaimFits
    <3> QED
      BY <3>1, <3>2
  <2> QED
    BY <2>1 DEF ClaimsFit, ClaimFits, Claim
<1>8. ArmsApart'
  <2>1. CASE to # "admitted"
    <3>1. \A q \in Run, j \in Item : arm'[q][j] = arm[q][j]
      BY <1>2, <2>1
    <3> QED
      BY <3>1 DEF SequentialInv, ArmsApart
  <2>2. CASE to = "admitted"
    <3>1. PICK r \in Reservation \ Known : Admits(run, i, r)
      BY <2>2 DEF Turn
    <3>2. arm'[run][i] = r
      BY <1>1, <3>1 DEF Admits, MemoryTyped
    <3>3. \A q \in Run, j \in Item : arm[q][j] = None \/ arm[q][j] \in Known
      BY <1>1 DEF ArmsStand
    <3>4. r # None
      BY NoneAssumption
    <3>5. ASSUME NEW q \in Run, NEW j \in Item, q # run \/ j # i
          PROVE  arm'[q][j] = arm[q][j] /\ arm[q][j] # r
      BY <1>2, <3>1, <3>3, <3>4, <3>5
    <3> QED
      BY <3>2, <3>5 DEF SequentialInv, ArmsApart
  <2> QED
    BY <2>1, <2>2
<1>9. CostsKnown'
  <2>1. CASE from = "running"
    <3>1. PICK amount \in Amounts \cup {None} : cost' = [cost EXCEPT ![arm[run][i]] = amount]
      BY <2>1 DEF Turn
    <3>2. arm[run][i] \in Known
      BY <1>1, <1>2, <2>1 DEF ArmsStand
    <3> QED
      BY <1>1, <3>1, <3>2 DEF SequentialInv, CostsKnown, MemoryTyped
  <2>2. CASE from # "running"
    BY <1>1, <2>2 DEF Turn, SequentialInv, CostsKnown
  <2> QED
    BY <2>1, <2>2
<1>10. VisitsEndWell'
  <2>1. ASSUME NEW q \in Run, NEW j \in Item, stage'[q][j] \in {"done", "stalled"},
               NEW r, r = arm'[q][j]
        PROVE  /\ stage'[q][j] = "done" => reservations'[r].spend = Owed(r)'
               /\ stage'[q][j] = "stalled" => reservations'[r].released
    <3>1. CASE q = run /\ j = i
      <4>1. from \in WorkingStages /\ to \in {"done", "stalled"} /\ r = arm[run][i]
        BY <1>2, <2>1, <3>1 DEF Turn, Turns, WorkingStages
      <4>2. r \in Reservation
        BY <1>1, <1>2, <4>1 DEF ArmsStand, WorkingStages
      <4> QED
        BY <1>2, <3>1, <4>1, <4>2, VisitEnds
    <3>2. CASE q # run \/ j # i
      <4>1. stage[q][j] = stage'[q][j] /\ arm[q][j] = r
        BY <1>2, <2>1, <3>2
      <4>2. r # None
        BY <1>1, <2>1, <4>1, NoneAssumption DEF ArmsStand
      <4>3. /\ cost'[r] = cost[r] /\ reservations'[r].spend = reservations[r].spend
            /\ reservations[r].released => reservations'[r].released
        BY <3>2, <4>1, <4>2, OtherItems
      <4>4. Owed(r)' = Owed(r)
        BY <4>3 DEF Owed
      <4> QED
        BY <4>1, <4>3, <4>4 DEF SequentialInv, VisitsEndWell
    <3> QED
      BY <3>1, <3>2
  <2> QED
    BY <2>1 DEF VisitsEndWell, Owed
<1> QED
  BY <1>5, <1>6, <1>7, <1>8, <1>9, <1>10 DEF SequentialInv

LEMMA SequentialKept ==
    ASSUME Pooled = {}, ~AppendsMayFail, ClaimsInv, SequentialInv, [VisitsNext]_vars
    PROVE  SequentialInv'
<1>1. ASSUME UNCHANGED <<reservations, claims, stage, arm, cost>>
      PROVE  SequentialInv'
  BY <1>1 DEF SequentialInv, OneAtWork, ClaimsHaveItems, ClaimsFit, ClaimFits, Claim, ArmsApart,
              CostsKnown, Known, VisitsEndWell, Owed
<1>2. CASE UNCHANGED vars
  BY <1>1, <1>2 DEF vars, runVars, ledgerVars, ledger
<1>3. ASSUME NEW run \in Run, Launch(run)
      PROVE  SequentialInv'
  BY <1>1, <1>3 DEF Launch, ledgerVars, ledger
<1>4. ASSUME NEW run \in Run, ReleaseAbandoned(run), UNCHANGED runVars
      PROVE  SequentialInv'
  <2>1. /\ UNCHANGED <<claims, stage, arm, cost>> /\ Known' = Known
        /\ \A r \in Known : /\ reservations'[r].spend = reservations[r].spend
                            /\ reservations'[r].started = reservations[r].started
                            /\ reservations[r].released => reservations'[r].released
    BY <1>4, ReleaseWrites DEF runVars, Receipts
  <2>2. \A q \in Run, i \in Item : stage[q][i] \in WorkingStages \cup {"done", "stalled"} =>
          arm[q][i] \in Known
    BY DEF ClaimsInv, ArmsStand, WorkingStages
  <2>3. ClaimsFit'
    BY <2>1, <2>2 DEF SequentialInv, ClaimsFit, ClaimFits, Claim
  <2>4. VisitsEndWell'
    BY <2>1, <2>2 DEF SequentialInv, VisitsEndWell, Owed
  <2> QED
    BY <2>1, <2>3, <2>4 DEF SequentialInv, OneAtWork, ClaimsHaveItems, ArmsApart, CostsKnown
<1>5. ASSUME NEW run \in Run, Stop(run)
      PROVE  SequentialInv'
  <2>1. /\ UNCHANGED <<reservations, cost>> /\ Known' = Known
        /\ \A q \in Run \ {run} : claims'[q] = claims[q] /\ stage'[q] = stage[q] /\ arm'[q] = arm[q]
        /\ \A t \in Ticket : claims'[run][t] = None
        /\ \A i \in Item : stage'[run][i] = "idle" /\ arm'[run][i] = None
    BY <1>5 DEF Stop, ClaimsInv, MemoryTyped, ledgerVars, ledger, Known
  <2>2. ClaimsFit' /\ ClaimsHaveItems' /\ OneAtWork'
    <3>1. \A q \in Run, i \in Item : stage'[q][i] \in ActiveStages => q # run
      BY <2>1 DEF ActiveStages, WorkingStages
    <3>2. OneAtWork'
      BY <2>1, <3>1 DEF SequentialInv, OneAtWork
    <3>3. ClaimsHaveItems'
      BY <2>1 DEF SequentialInv, ClaimsHaveItems
    <3>4. ClaimsFit'
      BY <2>1, <3>1 DEF SequentialInv, ClaimsFit, ClaimFits, Claim, ActiveStages
    <3> QED
      BY <3>2, <3>3, <3>4
  <2>3. ArmsApart' /\ VisitsEndWell' /\ CostsKnown'
    BY <2>1 DEF SequentialInv, ArmsApart, VisitsEndWell, Owed, CostsKnown
  <2> QED
    BY <2>2, <2>3 DEF SequentialInv
<1>6. ASSUME NEW run \in Run, VisitStep(run)
      PROVE  SequentialInv'
  BY <1>3, <1>4, <1>5, <1>6, TurnsOfSteps, SequentialTurn
<1> QED
  BY <1>2, <1>6 DEF VisitsNext, VisitStep

LEMMA SequentialInvariant ==
    ASSUME Pooled = {}, ~AppendsMayFail
    PROVE  VisitsSpec => []SequentialInv
<1>1. VisitsInit => SequentialInv
  BY DEF VisitsInit, SequentialInv, OneAtWork, ClaimsHaveItems, ClaimsFit, ArmsApart, CostsKnown,
         VisitsEndWell, ActiveStages, WorkingStages
<1>2. ClaimsInv /\ SequentialInv /\ [VisitsNext]_vars => SequentialInv'
  BY SequentialKept
<1> QED
  BY <1>1, <1>2, ClaimsInvariant, PTL DEF VisitsSpec

\* Where runs are sequential and every receipt is written, a visit that is
\* over has charged its arm what its own process was measured to cost, and
\* the reserve where nothing was measured: no record of another one landed
\* in its claim.
THEOREM VisitsSettleTheirOwn ==
    ASSUME Pooled = {}, ~AppendsMayFail
    PROVE  VisitsSpec => []SettledAtOwnCost
<1>1. SequentialInv => SettledAtOwnCost
  BY DEF SequentialInv, VisitsEndWell, SettledAtOwnCost
<1> QED
  BY <1>1, SequentialInvariant, PTL

\* Where runs are sequential and every receipt is written, a visit whose
\* prompt could not be composed has given its reservation back.
THEOREM StalledVisitsGiveBack ==
    ASSUME Pooled = {}, ~AppendsMayFail
    PROVE  VisitsSpec => []StalledVisitsLeakNothing
<1>1. SequentialInv => StalledVisitsLeakNothing
  BY DEF SequentialInv, VisitsEndWell, StalledVisitsLeakNothing
<1> QED
  BY <1>1, SequentialInvariant, PTL

=============================================================================
