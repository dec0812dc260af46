------------------------- MODULE SpawnRecordsProofs -------------------------
(***************************************************************************)
(* Theorems about the attempts of a visit and the waits of a provider, for *)
(* any plan, any machine, any budgets and any number of upsets.            *)
(***************************************************************************)
EXTENDS SpawnRecords, SubsequencesProofs, WellFoundedInduction

-----------------------------------------------------------------------------
(* Operators of the model.                                                 *)

\* A budget is never above the largest that the settings may name.
LEMMA MostAllowed ==
    ASSUME NEW s \in Starts
    PROVE  /\ Max(Attempts[s]) \in Nat \ {0}
           /\ \A n \in Attempts[s] : n \in Nat \ {0} /\ n <= Max(Attempts[s])
<1>1. Attempts[s] \subseteq Nat \ {0}
  BY SpawnAssumption
<1>2. PICK most \in Attempts[s] : \A n \in Attempts[s] : n <= most
  BY SpawnAssumption
<1>3. \E m \in Attempts[s] : \A n \in Attempts[s] : m >= n
  BY <1>1, <1>2
<1>4. Max(Attempts[s]) \in Attempts[s] /\ \A n \in Attempts[s] : Max(Attempts[s]) >= n
  BY <1>3 DEF Max
<1> QED
  BY <1>1, <1>4

LEMMA MaxOfTwo ==
    ASSUME NEW m \in Nat, NEW n \in Nat
    PROVE  Max({m, n}) \in Nat /\ Max({m, n}) >= m /\ Max({m, n}) >= n /\ Max({m, n}) \in {m, n}
<1>1. \E x \in {m, n} : \A y \in {m, n} : x >= y
  <2>1. CASE m >= n
    BY <2>1
  <2>2. CASE ~(m >= n)
    BY <2>2
  <2> QED
    BY <2>1, <2>2
<1>2. Max({m, n}) \in {m, n} /\ \A y \in {m, n} : Max({m, n}) >= y
  BY <1>1 DEF Max
<1> QED
  BY <1>2

LEMMA WithParts ==
    ASSUME NEW f, NEW x, NEW value
    PROVE  /\ DOMAIN With(f, x, value) = DOMAIN f \cup {x}
           /\ With(f, x, value)[x] = value
           /\ \A y \in DOMAIN f \ {x} : With(f, x, value)[y] = f[y]
           /\ With(f, x, value) # <<>>
<1>1. /\ DOMAIN With(f, x, value) = DOMAIN f \cup {x}
      /\ With(f, x, value)[x] = value
      /\ \A y \in DOMAIN f \ {x} : With(f, x, value)[y] = f[y]
  BY DEF With
<1>2. DOMAIN <<>> = {}
  OBVIOUS
<1> QED
  BY <1>1, <1>2

-----------------------------------------------------------------------------
(* The types, and what a place of the loop says of the batch, the pool and *)
(* the exit that is judged.                                                *)

Record ==
    [moves : Nat, attempt : Nat, charged : Int, grants : Nat, unavailable : Nat, paid : BOOLEAN]

\* What is known of a worker, and of the exit that is judged.
Employed(worker) ==
    /\ DOMAIN worker = {"in", "name", "planned", "started", "ending", "instant"}
    /\ worker.in \in State /\ ~Finished(worker.in)
    /\ worker.planned \in Record
    /\ worker.started \in 0..now /\ worker.instant \in Nat
    /\ worker.ending \in Ending \cup {"running"}

DiskTyped ==
    /\ now \in 0..MaxNow /\ start \in Starts
    /\ trail \in [Ticket -> Seq(State)]
    /\ waits \in [Ticket -> [State -> Nat]] /\ heard \in [Ticket -> Nat]
    /\ answered \subseteq Ticket \X Arm
    /\ \A name \in DOMAIN records : records[name] \in Record

BatchTyped ==
    /\ calls \in Seq([ticket : Ticket, in : {s \in State : ~Finished(s)}])
    /\ queue \in Seq([ticket : Ticket, in : {s \in State : ~Finished(s)}, arm : Arm])
    /\ stalled \subseteq Ticket

WorkersTyped ==
    /\ DOMAIN workers \subseteq Ticket \X Arm
    /\ \A pair \in DOMAIN workers : Employed(workers[pair])

ExitTyped ==
    /\ DOMAIN exit = {"ticket", "worker", "stayed", "owes", "more", "record"}
    /\ exit.ticket \in Ticket /\ Employed(exit.worker)
    /\ exit.record = None \/ (exit.record \in Record /\ exit.record.unavailable > 0)

Pcs == Resting \cup {"top", "calls", "fill", "pool", "settle", "refill", "tail"}

PlacesStand ==
    /\ pc \in Pcs
    /\ pc = "calls" => calls # <<>>
    /\ pc = "fill" => queue # <<>>
    /\ pc = "pool" => workers # <<>>
    /\ pc \notin {"calls", "fill"} => queue = <<>>
    /\ pc = "settle" => ExitTyped
    /\ pc \notin Resting => budget \in Attempts[start]

SpawnTyped == DiskTyped /\ BatchTyped /\ WorkersTyped /\ PlacesStand


Item == [ticket : Ticket, in : {s \in State : ~Finished(s)}, arm : Arm]

LEMMA AtIsState ==
    ASSUME DiskTyped, NEW t \in Ticket
    PROVE  At(t) \in State /\ Moves(t) \in Nat /\ trail[t] \in Seq(State)
<1>1. start \in [Ticket -> State] /\ trail[t] \in Seq(State)
  BY SpawnAssumption DEF DiskTyped
<1>2. CASE trail[t] = <<>>
  BY <1>1, <1>2 DEF At, Moves
<1>3. CASE trail[t] # <<>>
  <2>1. Len(trail[t]) \in 1..Len(trail[t])
    BY <1>1, <1>3
  <2> QED
    BY <1>1, <1>3, <2>1 DEF At, Moves, Last
<1> QED
  BY <1>2, <1>3

LEMMA PendingTyped ==
    ASSUME DiskTyped, NEW t \in Ticket
    PROVE  Pending(t) \in Seq(Arm) /\ Range(Pending(t)) \subseteq Arm
<1>1. Arms[At(t)] \in Seq(Arm)
  BY AtIsState, SpawnAssumption
<1> DEFINE due == {arm \in Arm : <<t, arm>> \notin answered}
<1>2. Kept(Arms[At(t)], due) \in Seq(Arm \cap due)
  <2> HIDE DEF due
  <2> QED
    BY <1>1, KeptType
<1>3. Arm \cap due = due /\ due \subseteq Arm
  OBVIOUS
<1>4. Pending(t) = Kept(Arms[At(t)], due)
  BY DEF Pending
<1> HIDE DEF due
<1>5. Pending(t) \in Seq(Arm)
  BY <1>2, <1>3, <1>4
<1> QED
  BY <1>5 DEF Range

\* What is due is an arm of a ticket as it stands, whose provider may be used.
LEMMA DueItems ==
    ASSUME DiskTyped, NEW tickets \in SUBSET Ticket
    PROVE  /\ Due(tickets) \in Seq(Item)
           /\ \A i \in DOMAIN Due(tickets) :
                LET item == Due(tickets)[i]
                IN item.ticket \in tickets /\ item.in = At(item.ticket) /\ Deadline(item.ticket) <= now
<1> DEFINE wanted == {item \in [ticket : tickets, in : State, arm : Arm] :
                        <<item.ticket, item.arm>> \notin answered /\ Deadline(item.ticket) <= now}
           all == {Listing[n] : n \in DOMAIN Listing}
<1>1. Len(Plan) * Width \in Nat
  <2>1. Len(Plan) \in Nat /\ Width \in Nat
    BY SpawnAssumption
  <2> QED
    BY <2>1
<1>2. Listing \in Seq(all)
  BY <1>1 DEF Listing
<1>3. \A n \in DOMAIN Listing : Listing[n] \in wanted =>
        Listing[n] \in Item /\ Listing[n].in = At(Listing[n].ticket)
  <2> TAKE n \in DOMAIN Listing
  <2> HAVE Listing[n] \in wanted
  <2> DEFINE t == Plan[((n - 1) \div Width) + 1]
             k == ((n - 1) % Width) + 1
  <2>1. Listing[n] = IF k \in DOMAIN Arms[At(t)]
                     THEN [ticket |-> t, in |-> At(t), arm |-> Arms[At(t)][k]] ELSE None
    BY DEF Listing
  <2>2. Listing[n] \in [ticket : Ticket, in : State, arm : Arm]
    OBVIOUS
  <2>3. k \in DOMAIN Arms[At(t)]
    BY <2>1, <2>2, SpawnAssumption
  <2> HIDE DEF k, t
  <2>4. Listing[n] = [ticket |-> t, in |-> At(t), arm |-> Arms[At(t)][k]]
    BY <2>1, <2>3
  <2>5. Listing[n].ticket = t /\ Listing[n].in = At(t)
    BY <2>4
  <2>6. Arms[At(t)] # <<>>
    BY <2>3
  <2> QED
    BY <2>2, <2>5, <2>6 DEF Item, Finished
<1>4. Due(tickets) = Kept(Listing, wanted)
  BY DEF Due
<1>5. \A item \in wanted : item.ticket \in tickets /\ Deadline(item.ticket) <= now
  OBVIOUS
<1> HIDE DEF wanted, all
<1>6. /\ Due(tickets) \in Seq(all \cap wanted)
      /\ Len(Due(tickets)) = Cardinality(Places(Listing, wanted))
  BY <1>2, <1>4, KeptType
<1>7. \A i \in 1..Len(Due(tickets)) :
        \E n \in DOMAIN Listing : Due(tickets)[i] = Listing[n] /\ Listing[n] \in wanted
  <2> TAKE i \in 1..Len(Due(tickets))
  <2>1. Nth(Places(Listing, wanted), i) \in Places(Listing, wanted)
    BY <1>2, <1>4, KeptElement
  <2>2. Due(tickets)[i] = Listing[Nth(Places(Listing, wanted), i)]
    BY <1>2, <1>4, KeptElement
  <2> QED
    BY <2>1, <2>2 DEF Places
<1>8. DOMAIN Due(tickets) = 1..Len(Due(tickets)) /\ Len(Due(tickets)) \in Nat
  BY <1>6
<1>9. \A i \in DOMAIN Due(tickets) : Due(tickets)[i] \in Item
  BY <1>3, <1>7, <1>8
<1>10. Due(tickets) \in Seq(Item)
  BY <1>6, <1>8, <1>9
<1>11. \A i \in DOMAIN Due(tickets) :
         /\ Due(tickets)[i].ticket \in tickets
         /\ Due(tickets)[i].in = At(Due(tickets)[i].ticket)
         /\ Deadline(Due(tickets)[i].ticket) <= now
  BY <1>3, <1>5, <1>7, <1>8
<1> QED
  BY <1>10, <1>11

\* A move leaves the plan typed.
LEMMA MoveTyped ==
    ASSUME DiskTyped, NEW t \in Ticket, NEW to \in State, Move(t, to)
    PROVE  /\ trail' \in [Ticket -> Seq(State)] /\ waits' \in [Ticket -> [State -> Nat]]
           /\ heard' \in [Ticket -> Nat] /\ answered' \subseteq Ticket \X Arm
<1>1. At(t) \in State /\ trail[t] \in Seq(State)
  BY AtIsState
<1>2. Append(trail[t], to) \in Seq(State)
  BY <1>1
<1>3. trail' \in [Ticket -> Seq(State)]
  BY <1>2 DEF Move, DiskTyped
<1>4. waits' \in [Ticket -> [State -> Nat]]
  BY <1>1 DEF Move, DiskTyped
<1>5. heard' \in [Ticket -> Nat] /\ answered' \subseteq Ticket \X Arm
  BY DEF Move, DiskTyped
<1> QED
  BY <1>3, <1>4, <1>5

\* What the books hold, once the clock has gone on.
LEMMA RecordFields ==
    ASSUME NEW record \in Record
    PROVE  /\ DOMAIN record = {"moves", "attempt", "charged", "grants", "unavailable", "paid"}
           /\ record.moves \in Nat /\ record.attempt \in Nat /\ record.charged \in Int
           /\ record.grants \in Nat /\ record.unavailable \in Nat /\ record.paid \in BOOLEAN
  BY DEF Record

\* What the worker's thread writes.
LEMMA PersistedFields ==
    ASSUME DiskTyped, NEW worker, Employed(worker), NEW paid \in {0, 1}
    PROVE  LET stored == IF OfVisit(worker.name, worker.planned.moves)
                         THEN records[worker.name] ELSE worker.planned
               written == Persisted(worker, paid)
           IN  /\ stored \in Record /\ stored.moves = worker.planned.moves
               /\ written \in Record /\ written.moves = worker.planned.moves
               /\ written.attempt = worker.planned.attempt + 1
               /\ written.charged = stored.charged + paid
               /\ written.grants = stored.grants /\ written.unavailable = stored.unavailable
<1> DEFINE stored == IF OfVisit(worker.name, worker.planned.moves)
                     THEN records[worker.name] ELSE worker.planned
           written == Persisted(worker, paid)
           number == worker.planned.attempt + 1
<1>1. worker.planned \in Record
  BY DEF Employed
<1>2. stored \in Record /\ stored.moves = worker.planned.moves
  BY <1>1 DEF OfVisit, DiskTyped
<1>3. written = [stored EXCEPT !.attempt = number, !.charged = @ + paid, !.paid = (paid = 1)]
  BY DEF Persisted
<1> HIDE DEF stored, written, number
<1>4. DOMAIN stored = {"moves", "attempt", "charged", "grants", "unavailable", "paid"}
  BY <1>2, RecordFields
<1>5. DOMAIN written = DOMAIN stored
  BY <1>3
<1>6. /\ written.moves = stored.moves /\ written.attempt = number
      /\ written.grants = stored.grants /\ written.unavailable = stored.unavailable
  BY <1>3, <1>4
<1>7. written.charged = stored.charged + paid
  BY <1>3, <1>4
<1>8. written.paid = (paid = 1)
  BY <1>3, <1>4
<1>9. written = [moves |-> written.moves, attempt |-> written.attempt, charged |-> written.charged,
                 grants |-> written.grants, unavailable |-> written.unavailable, paid |-> written.paid]
  BY <1>3, <1>4, <1>5
<1>10. number \in Nat /\ stored.charged + paid \in Int /\ written.paid \in BOOLEAN
  BY <1>1, <1>2, <1>8, RecordFields DEF number
<1>11. written \in Record
  BY <1>2, <1>6, <1>7, <1>9, <1>10, RecordFields DEF Record
<1> QED
  BY <1>2, <1>6, <1>7, <1>11 DEF stored, written, number

\* What the run makes of it.
LEMMA GivenBackFields ==
    ASSUME NEW record \in Record, NEW ending
    PROVE  LET back == GivenBack(record, ending)
           IN  /\ back \in Record
               /\ back.moves = record.moves /\ back.attempt = record.attempt
               /\ back.grants = record.grants
               /\ back.unavailable = record.unavailable + 1
               /\ \/ back.charged = record.charged
                  \/ back.charged = record.charged - 1 /\ back.unavailable <= Free
<1> DEFINE n == record.unavailable + 1
           free == ending = "unreached" /\ n <= Free /\ record.paid
           back == GivenBack(record, ending)
<1>1. DOMAIN record = {"moves", "attempt", "charged", "grants", "unavailable", "paid"}
  BY RecordFields
<1>2. back = [record EXCEPT !.unavailable = n, !.charged = IF free THEN @ - 1 ELSE @,
                            !.paid = @ /\ ~free]
  BY DEF GivenBack
<1>3. n \in Nat /\ (free => n <= Free)
  BY RecordFields
<1> HIDE DEF back, n, free
<1>4. DOMAIN back = DOMAIN record
  BY <1>2
<1>5. /\ back.moves = record.moves /\ back.attempt = record.attempt
      /\ back.grants = record.grants /\ back.unavailable = n
  BY <1>1, <1>2
<1>6. back.charged = IF free THEN record.charged - 1 ELSE record.charged
  BY <1>1, <1>2
<1>7. back.paid = (record.paid /\ ~free)
  BY <1>1, <1>2
<1>8. back.paid \in BOOLEAN
  BY <1>7
<1>9. back = [moves |-> back.moves, attempt |-> back.attempt, charged |-> back.charged,
              grants |-> back.grants, unavailable |-> back.unavailable, paid |-> back.paid]
  BY <1>1, <1>2, <1>4
<1>10. back.charged \in Int
  BY <1>6, RecordFields
<1>11. back \in Record
  BY <1>3, <1>5, <1>8, <1>9, <1>10, RecordFields DEF Record
<1> QED
  BY <1>3, <1>5, <1>6, <1>11 DEF back, n

\* What a person grants it.
LEMMA GrantedFields ==
    ASSUME NEW record \in Record, NEW more \in Nat
    PROVE  LET granted == [record EXCEPT !.grants = @ + more]
           IN  /\ granted \in Record
               /\ granted.moves = record.moves /\ granted.attempt = record.attempt
               /\ granted.charged = record.charged /\ granted.unavailable = record.unavailable
               /\ granted.grants = record.grants + more
<1> DEFINE granted == [record EXCEPT !.grants = @ + more]
<1>1. DOMAIN record = {"moves", "attempt", "charged", "grants", "unavailable", "paid"}
  BY RecordFields
<1>2. /\ granted.moves = record.moves /\ granted.attempt = record.attempt
      /\ granted.charged = record.charged /\ granted.unavailable = record.unavailable
      /\ granted.grants = record.grants + more /\ granted.paid = record.paid
  BY <1>1
<1>3. granted = [moves |-> granted.moves, attempt |-> granted.attempt, charged |-> granted.charged,
                 grants |-> granted.grants, unavailable |-> granted.unavailable, paid |-> granted.paid]
  BY <1>1
<1> HIDE DEF granted
<1>4. granted \in Record
  BY <1>2, <1>3, RecordFields DEF Record
<1> QED
  BY <1>2, <1>4 DEF granted

LEMMA PreviousTyped ==
    ASSUME DiskTyped, NEW t \in Ticket, NEW s, NEW arm
    PROVE  Previous(t, s, arm) \in Record
<1>1. Blank(Moves(t)) \in Record
  BY AtIsState DEF Blank, Record
<1> QED
  BY <1>1 DEF Previous, OfVisit, DiskTyped

LEMMA BackoffTyped == \A n \in Nat \ {0} : Backoff(n) \in Nat
  BY SpawnAssumption DEF Backoff

LEMMA TypesStart == Init => SpawnTyped
<1> SUFFICES ASSUME Init PROVE SpawnTyped
  OBVIOUS
<1>1. DiskTyped
  BY SpawnAssumption DEF Init, DiskTyped
<1>2. BatchTyped /\ WorkersTyped
  BY DEF Init, BatchTyped, WorkersTyped
<1>3. PlacesStand
  BY DEF Init, PlacesStand, Pcs, Resting
<1> QED
  BY <1>1, <1>2, <1>3 DEF SpawnTyped

LEMMA CallbackTypes == ASSUME SpawnTyped, Callback PROVE SpawnTyped'
<1> USE DEF SpawnTyped
<1> DEFINE t == Head(calls).ticket
<1>1. /\ pc = "calls" /\ calls # <<>>
      /\ Head(calls) \in [ticket : Ticket, in : {s \in State : ~Finished(s)}]
  <2> DEFINE X == [ticket : Ticket, in : {s \in State : ~Finished(s)}]
  <2>1. pc = "calls" /\ calls # <<>>
    BY DEF Callback, PlacesStand
  <2>2. calls \in Seq(X)
    BY DEF BatchTyped
  <2> HIDE DEF X
  <2>3. Head(calls) \in X
    BY <2>1, <2>2
  <2> QED
    BY <2>1, <2>3 DEF X
<1>2. t \in Ticket /\ Head(calls).in \in State /\ ~Finished(Head(calls).in)
  BY <1>1
<1>3. /\ trail' \in [Ticket -> Seq(State)] /\ waits' \in [Ticket -> [State -> Nat]]
      /\ heard' \in [Ticket -> Nat] /\ answered' \subseteq Ticket \X Arm
  <2>1. CASE At(t) = Head(calls).in
    <3>1. Edge[At(t)] \in State
      BY <1>2, <2>1, SpawnAssumption
    <3>2. Move(t, Edge[At(t)])
      BY <2>1 DEF Callback
    <3> HIDE DEF t
    <3> QED
      BY <1>2, <3>1, <3>2, MoveTyped
  <2>2. CASE At(t) # Head(calls).in
    BY <2>2 DEF Callback, DiskTyped
  <2> QED
    BY <2>1, <2>2
<1>4. UNCHANGED <<now, start, records, workers, exit, budget, stalled, queue>>
  BY DEF Callback
<1>5. DiskTyped'
  BY <1>3, <1>4 DEF DiskTyped
<1>6. BatchTyped'
  <2>1. calls' = Tail(calls)
    BY DEF Callback
  <2> QED
    BY <1>1, <1>4, <2>1 DEF BatchTyped
<1>7. WorkersTyped'
  BY <1>4 DEF WorkersTyped, Employed
<1>8. PlacesStand'
  <2>1. calls' = Tail(calls)
    BY DEF Callback
  <2>2. pc' = CASE calls' # <<>> -> "calls" [] calls' = <<>> /\ queue # <<>> -> "fill" [] OTHER -> "tail"
    BY <2>1 DEF Callback
  <2>3. CASE calls' # <<>>
    BY <1>1, <1>4, <2>2, <2>3 DEF PlacesStand, Pcs, Resting
  <2>4. CASE calls' = <<>> /\ queue # <<>>
    BY <1>1, <1>4, <2>2, <2>4 DEF PlacesStand, Pcs, Resting
  <2>5. CASE calls' = <<>> /\ queue = <<>>
    BY <1>1, <1>4, <2>2, <2>5 DEF PlacesStand, Pcs, Resting
  <2> QED
    BY <2>3, <2>4, <2>5
<1> QED
  BY <1>5, <1>6, <1>7, <1>8

LEMMA ReadPassTypes == ASSUME SpawnTyped, ReadPass PROVE SpawnTyped'
<1> USE DEF SpawnTyped
<1>1. UNCHANGED <<now, disk, workers, heard>> /\ pc = "top"
  BY DEF ReadPass, history
<1>2. DiskTyped'
  BY <1>1 DEF DiskTyped, disk
<1>3. WorkersTyped'
  BY <1>1 DEF WorkersTyped, Employed
<1>4. CASE stopping \/ Open = {}
  <2>1. Ended("over")
    BY <1>4 DEF ReadPass
  <2>2. BatchTyped' /\ PlacesStand'
    BY <2>1 DEF Ended, NoPass, BatchTyped, PlacesStand, Pcs, Resting
  <2> QED
    BY <1>2, <1>3, <2>2
<1>5. CASE ~(stopping \/ Open = {})
  <2> DEFINE mine == Open \ stalled
             moving == Kept(Plan, {t \in mine : Pending(t) = <<>>})
  <2>1. /\ calls' = [i \in DOMAIN moving |-> [ticket |-> moving[i], in |-> At(moving[i])]]
        /\ queue' = Due(mine) /\ UNCHANGED <<stalled, budget>>
    BY <1>5 DEF ReadPass
  <2>2. pc' = CASE calls' # <<>> -> "calls"
                [] calls' = <<>> /\ queue' # <<>> -> "fill"
                [] OTHER -> "tail"
    BY <1>5 DEF ReadPass
  <2> DEFINE still == {t \in mine : Pending(t) = <<>>}
  <2>3. moving \in Seq(Ticket \cap still) /\ still \subseteq mine
    BY KeptType, SpawnAssumption
  <2>4. mine \subseteq Ticket /\ \A t \in mine : ~Finished(At(t)) /\ At(t) \in State
    BY AtIsState DEF Open
  <2>5. DOMAIN moving = 1..Len(moving) /\ Len(moving) \in Nat
        /\ \A i \in DOMAIN moving : moving[i] \in mine
    <3> HIDE DEF moving, still, mine
    <3> QED
      BY <2>3
  <2>6. queue' \in Seq(Item)
    BY <2>1, <2>4, DueItems
  <2> HIDE DEF moving, mine
  <2>7. calls' \in Seq([ticket : Ticket, in : {s \in State : ~Finished(s)}])
    BY <2>1, <2>4, <2>5
  <2>8. BatchTyped'
    BY <2>1, <2>6, <2>7 DEF BatchTyped, Item
  <2>9. PlacesStand'
    <3>1. budget' \in Attempts[start'] /\ start' = start
      BY <1>1, <2>1 DEF PlacesStand, Resting, disk
    <3>2. CASE calls' # <<>>
      BY <2>2, <3>1, <3>2 DEF PlacesStand, Pcs, Resting
    <3>3. CASE calls' = <<>> /\ queue' # <<>>
      BY <2>2, <3>1, <3>3 DEF PlacesStand, Pcs, Resting
    <3>4. CASE calls' = <<>> /\ queue' = <<>>
      BY <2>2, <3>1, <3>4 DEF PlacesStand, Pcs, Resting
    <3> QED
      BY <3>2, <3>3, <3>4
  <2> QED
    BY <1>2, <1>3, <2>8, <2>9
<1> QED
  BY <1>4, <1>5

\* The item that is next.
LEMMA NextItem ==
    ASSUME SpawnTyped, pc = "fill"
    PROVE  /\ Head(queue) \in Item /\ Tail(queue) \in Seq(Item)
           /\ Head(queue).ticket \in Ticket /\ Head(queue).arm \in Arm
           /\ Head(queue).in \in State /\ ~Finished(Head(queue).in)
<1>1. queue # <<>> /\ queue \in Seq(Item)
  BY DEF SpawnTyped, PlacesStand, BatchTyped, Item
<1>2. Head(queue) \in Item /\ Tail(queue) \in Seq(Item)
  BY <1>1
<1> QED
  BY <1>2 DEF Item

Spawned(item) ==
    [in |-> item.in, name |-> Name(item.ticket, item.in, item.arm),
     planned |-> Previous(item.ticket, item.in, item.arm), started |-> now,
     ending |-> "running", instant |-> 0]

\* An item is put off, or gets its worker.
LEMMA FillShape ==
    ASSUME Fill
    PROVE  LET item == Head(queue)
           IN  \/ workers' = workers
               \/ /\ workers' = With(workers, <<item.ticket, item.arm>>, Spawned(item))
                  /\ ~Spent(Previous(item.ticket, item.in, item.arm), budget)
  BY DEF Fill, Spawn, Spawned

LEMMA FillTypes == ASSUME SpawnTyped, Fill PROVE SpawnTyped'
<1> USE DEF SpawnTyped
<1> DEFINE item == Head(queue)
           pair == <<item.ticket, item.arm>>
<1>1. /\ pc = "fill" /\ queue' = Tail(queue)
      /\ UNCHANGED <<now, start, trail, waits, answered, records, budget, calls, heard, exit>>
  BY DEF Fill, history
<1>2. /\ item \in Item /\ queue' \in Seq(Item)
      /\ item.ticket \in Ticket /\ item.arm \in Arm /\ item.in \in State /\ ~Finished(item.in)
  BY <1>1, NextItem
<1> HIDE DEF item
<1>3. DiskTyped'
  BY <1>1 DEF DiskTyped
<1>4. stalled' \subseteq Ticket
  BY <1>2 DEF Fill, BatchTyped, item
<1>5. BatchTyped'
  BY <1>1, <1>2, <1>4 DEF BatchTyped, Item
<1>6. Employed(Spawned(item)) /\ now' = now
  <2>1. Previous(item.ticket, item.in, item.arm) \in Record
    BY <1>2, PreviousTyped
  <2> QED
    BY <1>1, <1>2, <2>1 DEF Employed, Spawned, DiskTyped
<1>7. WorkersTyped'
  <2>1. CASE workers' = workers
    BY <1>1, <2>1 DEF WorkersTyped, Employed
  <2>2. CASE workers' = With(workers, pair, Spawned(item))
    <3>0. pair \in Ticket \X Arm
      BY <1>2
    <3> HIDE DEF pair
    <3>1. DOMAIN workers' = DOMAIN workers \cup {pair} /\ pair \in Ticket \X Arm
      BY <2>2, <3>0, WithParts
    <3>2. workers'[pair] = Spawned(item) /\ \A p \in DOMAIN workers \ {pair} : workers'[p] = workers[p]
      BY <2>2 DEF With
    <3>3. \A p \in DOMAIN workers' : Employed(workers'[p])
      BY <1>6, <3>1, <3>2 DEF WorkersTyped
    <3> QED
      BY <1>6, <3>1, <3>3 DEF WorkersTyped, Employed
  <2> QED
    BY <2>1, <2>2, FillShape DEF item
<1>8. PlacesStand'
  <2>1. pc' = IF queue' = <<>> THEN AfterFill ELSE "fill"
    BY <1>1 DEF Fill
  <2>2. AfterFill = IF workers' = <<>> THEN "tail" ELSE "pool"
    BY DEF AfterFill
  <2>3. budget' \in Attempts[start']
    BY <1>1 DEF PlacesStand, Resting
  <2> QED
    BY <2>1, <2>2, <2>3 DEF PlacesStand, Pcs, Resting
<1> QED
  BY <1>3, <1>5, <1>7, <1>8

LEMMA EndsTypes ==
    ASSUME SpawnTyped, NEW t \in Ticket, NEW arm \in Arm, Ends(t, arm)
    PROVE  SpawnTyped'
<1> USE DEF SpawnTyped
<1> DEFINE pair == <<t, arm>>
           worker == workers[pair]
<1>1. /\ pair \in DOMAIN workers /\ Employed(worker)
      /\ UNCHANGED <<now, start, trail, waits, pc, calls, queue, stalled, budget, exit, heard>>
  BY DEF Ends, WorkersTyped, pass, judged
<1>2. PICK how \in Ending, instant \in 0..MaxNow + 1 :
        LET paid == IF how \in Unpaid THEN 0 ELSE 1
        IN /\ workers' = [workers EXCEPT ![pair].ending = how, ![pair].instant = instant]
           /\ answered' \subseteq answered \cup {pair}
           /\ \/ records' = With(records, worker.name, Persisted(worker, paid))
              \/ records' = records
  BY DEF Ends
<1> DEFINE paid == IF how \in Unpaid THEN 0 ELSE 1
<1>3. paid \in {0, 1}
  OBVIOUS
<1> HIDE DEF pair, paid
<1>4. \A name \in DOMAIN records' : records'[name] \in Record
  <2>1. CASE records' = records
    BY <2>1 DEF DiskTyped
  <2>2. CASE records' = With(records, worker.name, Persisted(worker, paid))
    <3>1. Persisted(worker, paid) \in Record
      BY <1>1, <1>3, PersistedFields
    <3> DEFINE name == worker.name
               written == Persisted(worker, paid)
    <3> HIDE DEF name, written
    <3>2. records' = With(records, name, written)
      BY <2>2 DEF name, written
    <3>3. /\ DOMAIN records' = DOMAIN records \cup {name} /\ records'[name] = written
          /\ \A n \in DOMAIN records \ {name} : records'[n] = records[n]
      BY <3>2 DEF With
    <3> QED
      BY <3>1, <3>3 DEF DiskTyped, written
  <2> QED
    BY <1>2, <2>1, <2>2 DEF paid
<1>5. DiskTyped'
  <2>1. answered' \subseteq Ticket \X Arm
    BY <1>2 DEF DiskTyped, pair
  <2> QED
    BY <1>1, <1>4, <2>1 DEF DiskTyped
<1>6. BatchTyped'
  BY <1>1 DEF BatchTyped
<1>7. WorkersTyped'
  <2>1. DOMAIN workers' = DOMAIN workers
    BY <1>2
  <2>2. \A p \in DOMAIN workers \ {pair} : workers'[p] = workers[p]
    BY <1>2
  <2>3. workers'[pair] = [worker EXCEPT !.ending = how, !.instant = instant]
    BY <1>1, <1>2
  <2>4. instant \in Nat
    BY SpawnAssumption
  <2>5. Employed(workers'[pair])
    <3> HIDE DEF worker
    <3>1. DOMAIN worker = {"in", "name", "planned", "started", "ending", "instant"}
      BY <1>1 DEF Employed
    <3>2. /\ DOMAIN workers'[pair] = DOMAIN worker
          /\ workers'[pair].in = worker.in /\ workers'[pair].planned = worker.planned
          /\ workers'[pair].started = worker.started
          /\ workers'[pair].ending = how /\ workers'[pair].instant = instant
      BY <2>3, <3>1
    <3> QED
      BY <1>1, <2>4, <3>1, <3>2 DEF Employed
  <2>6. \A p \in DOMAIN workers' : Employed(workers'[p])
    BY <2>1, <2>2, <2>5 DEF WorkersTyped
  <2> QED
    BY <1>1, <2>1, <2>6 DEF WorkersTyped, Employed
<1>8. PlacesStand'
  <2>1. workers' # <<>>
    <3>1. DOMAIN workers' # {} /\ DOMAIN <<>> = {}
      BY <1>1, <1>2
    <3> QED
      BY <3>1
  <2> QED
    BY <1>1, <2>1 DEF PlacesStand, ExitTyped, Employed
<1> QED
  BY <1>5, <1>6, <1>7, <1>8

LEMMA JudgeTypes ==
    ASSUME SpawnTyped, NEW t \in Ticket, NEW arm \in Arm, Judge(t, arm)
    PROVE  SpawnTyped'
<1> USE DEF SpawnTyped
<1> DEFINE pair == <<t, arm>>
           worker == workers[pair]
           name == worker.name
           back == GivenBack(records[name], worker.ending)
<1>1. /\ pc = "pool" /\ pc' = "settle" /\ workers' = Without(workers, pair)
      /\ pair \in DOMAIN workers
      /\ UNCHANGED <<now, start, trail, waits, answered, calls, queue, stalled, budget, heard>>
  BY DEF Judge, pass, judged
<1>2. \E rewrites, stayed, owes, more :
        /\ exit' = [ticket |-> t, worker |-> worker, stayed |-> stayed, owes |-> owes, more |-> more,
                    record |-> IF rewrites THEN back ELSE None]
        /\ records' = IF rewrites THEN With(records, name, back) ELSE records
        /\ rewrites => name \in DOMAIN records
  <2> DEFINE stayed == At(t) = worker.in
             owes == stayed /\ worker.ending \in ExitZero /\ <<t, arm>> \notin answered
             rewrites == owes /\ worker.ending \in Unavailable /\ name \in DOMAIN records
             more == stayed /\ (Pending(t) # <<>> \/ \E p \in DOMAIN workers' : p[1] = t)
  <2>1. exit' = [ticket |-> t, worker |-> worker, stayed |-> stayed, owes |-> owes, more |-> more,
                 record |-> IF rewrites THEN back ELSE None]
    BY DEF Judge
  <2>2. records' = IF rewrites THEN With(records, name, back) ELSE records
    BY DEF Judge
  <2> HIDE DEF stayed, owes, more
  <2>3. rewrites => name \in DOMAIN records
    OBVIOUS
  <2> HIDE DEF rewrites, back, worker, name
  <2> QED
    BY <2>1, <2>2, <2>3
<1>3. PICK rewrites, stayed, owes, more :
        /\ exit' = [ticket |-> t, worker |-> worker, stayed |-> stayed, owes |-> owes, more |-> more,
                    record |-> IF rewrites THEN back ELSE None]
        /\ records' = IF rewrites THEN With(records, name, back) ELSE records
        /\ rewrites => name \in DOMAIN records
  BY <1>2
<1>4. Employed(worker)
  BY <1>1 DEF WorkersTyped, Employed
<1>5. rewrites => back \in Record /\ back.unavailable > 0
  BY <1>3, RecordFields, GivenBackFields DEF DiskTyped
<1> HIDE DEF pair, worker, name, back
<1>6. DiskTyped'
  <2>1. \A n \in DOMAIN records' : records'[n] \in Record
    BY <1>3, <1>5 DEF DiskTyped, With
  <2> QED
    BY <1>1, <2>1 DEF DiskTyped
<1>7. BatchTyped'
  BY <1>1 DEF BatchTyped
<1>8. WorkersTyped'
  BY <1>1 DEF WorkersTyped, Without, Employed
<1>9. ExitTyped'
  <2>1. /\ DOMAIN exit' = {"ticket", "worker", "stayed", "owes", "more", "record"}
        /\ exit'.ticket = t /\ exit'.worker = worker
        /\ exit'.record = IF rewrites THEN back ELSE None
    BY <1>3
  <2>2. Employed(exit.worker)'
    BY <1>1, <1>4, <2>1 DEF Employed
  <2> QED
    BY <1>5, <2>1, <2>2 DEF ExitTyped
<1>10. PlacesStand'
  BY <1>1, <1>9 DEF PlacesStand, Pcs, Resting
<1> QED
  BY <1>6, <1>7, <1>8, <1>10

\* What a judged exit may do to the plan.
LEMMA WaitTyped ==
    ASSUME DiskTyped, NEW t \in Ticket, NEW s \in State, NEW until \in Nat, Wait(t, s, until)
    PROVE  waits' \in [Ticket -> [State -> Nat]] /\ heard' \in [Ticket -> Nat]
<1>0. waits[t][s] \in Nat /\ heard[t] \in Nat
  BY DEF DiskTyped
<1>1. Max({waits[t][s], until}) \in Nat
  BY <1>0, MaxOfTwo
<1>2. Max({heard[t], until}) \in Nat
  BY <1>0, MaxOfTwo
<1>3. waits' = [waits EXCEPT ![t][s] = Max({waits[t][s], until})]
  BY DEF Wait, DiskTyped
<1>4. heard' = IF At(t) = s THEN [heard EXCEPT ![t] = Max({heard[t], until})] ELSE heard
  BY DEF Wait, DiskTyped
<1> QED
  BY <1>1, <1>2, <1>3, <1>4 DEF DiskTyped

LEMMA ResumesTyped ==
    ASSUME DiskTyped, NEW t \in Ticket, NEW worker, worker.in \in State
    PROVE  Resumes(t, worker) \in [Ticket -> [State -> Nat]]
  BY DEF Resumes, DiskTyped

\* The exit that is judged, and what may come of it: nothing, a wait, the end
\* of a wait, or the move that leaves the visit.
LEMMA SettleShape ==
    ASSUME SpawnTyped, Settle
    PROVE  LET t == exit.ticket
               worker == exit.worker
           IN  /\ t \in Ticket /\ worker.in \in State /\ Edge[worker.in] \in State
               /\ worker.started \in 0..now
               /\ \/ UNCHANGED <<waits, heard, trail, answered>>
                  \/ \E until \in Nat : Wait(t, worker.in, until) /\ UNCHANGED <<trail, answered>>
                  \/ waits' = Resumes(t, worker) /\ UNCHANGED <<heard, trail, answered>>
                  \/ At(t) = worker.in /\ Move(t, Edge[worker.in])
               /\ stalled' \subseteq stalled \cup {t}
<1> DEFINE t == exit.ticket
           worker == exit.worker
<1>1. pc = "settle" /\ ExitTyped
  BY DEF Settle, SpawnTyped, PlacesStand
<1>2. /\ t \in Ticket /\ worker.in \in State /\ ~Finished(worker.in) /\ worker.started \in 0..now
      /\ worker.instant \in Nat
      /\ exit.record # None => exit.record \in Record /\ exit.record.unavailable > 0
  BY <1>1 DEF ExitTyped, Employed
<1>3. Edge[worker.in] \in State
  BY <1>2, SpawnAssumption
<1>4. \/ Interrupted(t, worker) \/ Limited(t, worker) \/ MovedOn(t, worker)
      \/ Failed(t, worker) \/ ProviderGone(t, worker) \/ OutputsOwed(t, worker)
      \/ WorkDone(t, worker)
  BY DEF Settle
<1> HIDE DEF t, worker
<1>5. CASE Interrupted(t, worker) \/ MovedOn(t, worker) \/ Failed(t, worker)
  BY <1>2, <1>3, <1>5 DEF Interrupted, MovedOn, Failed, StaysPut, Stall, t, worker
<1>6. CASE Limited(t, worker)
  <2>1. \/ UNCHANGED <<waits, heard, trail, answered>>
        \/ \E until \in Nat : Wait(t, worker.in, until) /\ UNCHANGED <<trail, answered>>
    BY <1>2, <1>6 DEF Limited, StaysPut
  <2>2. stalled' \subseteq stalled \cup {t}
    BY <1>6 DEF Limited
  <2> QED
    BY <1>2, <1>3, <2>1, <2>2 DEF t, worker
<1>7. CASE ProviderGone(t, worker)
  <2>1. stalled' \subseteq stalled \cup {t} /\ UNCHANGED <<trail, answered>>
    BY <1>7 DEF ProviderGone, Stall, StaysPut
  <2>2. CASE exit.record # None /\ ~(exit.record.paid /\ LastAttempt(worker))
    <3>1. exit.record.unavailable \in Nat \ {0}
      BY <1>2, <2>2, RecordFields
    <3>2. worker.instant + Backoff(exit.record.unavailable) \in Nat
      BY <1>2, <3>1, BackoffTyped
    <3> QED
      BY <1>2, <1>3, <1>7, <2>1, <2>2, <3>2 DEF ProviderGone, t, worker
  <2>3. CASE ~(exit.record # None /\ ~(exit.record.paid /\ LastAttempt(worker)))
    BY <1>2, <1>3, <1>7, <2>1, <2>3 DEF ProviderGone, t, worker
  <2> QED
    BY <2>2, <2>3
<1>8. CASE OutputsOwed(t, worker)
  BY <1>2, <1>3, <1>8 DEF OutputsOwed, StaysPut, Stall, t, worker
<1>9. CASE WorkDone(t, worker)
  BY <1>2, <1>3, <1>9 DEF WorkDone, StaysPut, Stall, t, worker
<1> QED
  BY <1>4, <1>5, <1>6, <1>7, <1>8, <1>9

LEMMA SettleTypes == ASSUME SpawnTyped, Settle PROVE SpawnTyped'
<1> USE DEF SpawnTyped
<1> DEFINE t == exit.ticket
           worker == exit.worker
<1>1. /\ UNCHANGED <<now, start, records, budget, calls, queue, workers>>
      /\ pc = "settle" /\ pc' \in {"tail", "refill"}
  BY DEF Settle, pass
<1>2. /\ t \in Ticket /\ worker.in \in State /\ Edge[worker.in] \in State
      /\ \/ UNCHANGED <<waits, heard, trail, answered>>
         \/ \E until \in Nat : Wait(t, worker.in, until) /\ UNCHANGED <<trail, answered>>
         \/ waits' = Resumes(t, worker) /\ UNCHANGED <<heard, trail, answered>>
         \/ At(t) = worker.in /\ Move(t, Edge[worker.in])
      /\ stalled' \subseteq stalled \cup {t}
  BY SettleShape
<1> HIDE DEF t, worker
<1>3. /\ trail' \in [Ticket -> Seq(State)] /\ waits' \in [Ticket -> [State -> Nat]]
      /\ heard' \in [Ticket -> Nat] /\ answered' \subseteq Ticket \X Arm
  <2>1. CASE UNCHANGED <<waits, heard, trail, answered>>
    BY <2>1 DEF DiskTyped
  <2>2. CASE \E until \in Nat : Wait(t, worker.in, until) /\ UNCHANGED <<trail, answered>>
    BY <1>2, <2>2, WaitTyped DEF DiskTyped
  <2>3. CASE waits' = Resumes(t, worker) /\ UNCHANGED <<heard, trail, answered>>
    BY <1>2, <2>3, ResumesTyped DEF DiskTyped
  <2>4. CASE Move(t, Edge[worker.in])
    BY <1>2, <2>4, MoveTyped
  <2> QED
    BY <1>2, <2>1, <2>2, <2>3, <2>4
<1>4. DiskTyped'
  BY <1>1, <1>3 DEF DiskTyped
<1>5. BatchTyped'
  BY <1>1, <1>2 DEF BatchTyped
<1>6. WorkersTyped'
  BY <1>1 DEF WorkersTyped, Employed
<1>7. PlacesStand'
  BY <1>1 DEF PlacesStand, Pcs, Resting
<1> QED
  BY <1>4, <1>5, <1>6, <1>7

LEMMA BeginTypes == ASSUME SpawnTyped, Begin PROVE SpawnTyped'
<1> USE DEF SpawnTyped
<1>1. /\ UNCHANGED <<now, start, trail, waits, answered, records, calls, queue, stalled, workers, heard>>
      /\ pc \in Resting /\ pc' = "top" /\ budget' \in Attempts[start]
  BY DEF Begin, disk, pass, judged, history
<1>2. DiskTyped' /\ BatchTyped' /\ WorkersTyped'
  BY <1>1 DEF DiskTyped, BatchTyped, WorkersTyped, Employed
<1>3. PlacesStand'
  BY <1>1 DEF PlacesStand, Pcs, Resting
<1> QED
  BY <1>2, <1>3

\* A pool is offered what is due.
LEMMA OfferTypes ==
    ASSUME SpawnTyped, pc \in {"refill", "pool"}, NEW tickets \in SUBSET Ticket,
           queue' = <<>> \/ queue' = Due(tickets),
           UNCHANGED <<now, start, trail, waits, answered, records, calls, stalled, workers, heard, budget>>,
           \/ queue' # <<>> /\ pc' = "fill"
           \/ queue' = <<>> /\ workers # <<>> /\ pc' = "pool"
           \/ queue' = <<>> /\ pc' = "tail"
    PROVE  SpawnTyped'
<1> USE DEF SpawnTyped
<1>1. DiskTyped' /\ WorkersTyped'
  BY DEF DiskTyped, WorkersTyped, Employed
<1>2. queue' \in Seq(Item)
  <2>1. Due(tickets) \in Seq(Item)
    BY DueItems
  <2>2. <<>> \in Seq(Item)
    OBVIOUS
  <2> QED
    BY <2>1, <2>2
<1>3. BatchTyped'
  BY <1>2 DEF BatchTyped, Item
<1>4. PlacesStand'
  <2>1. budget' \in Attempts[start']
    BY DEF PlacesStand, Resting
  <2> QED
    BY <2>1 DEF PlacesStand, Pcs, Resting
<1> QED
  BY <1>1, <1>3, <1>4

LEMMA RefillTypes == ASSUME SpawnTyped, Refill \/ Slice PROVE SpawnTyped'
<1> DEFINE tickets == Open \ (Busy \cup stalled)
<1>1. tickets \in SUBSET Ticket
  BY DEF Open
<1>2. Refills = <<>> \/ Refills = Due(tickets)
  BY DEF Refills, Refillable
<1>3. UNCHANGED <<now, start, trail, waits, answered, records, calls, stalled, workers, heard, budget>>
  BY DEF Refill, Slice, disk, judged, history
<1>4. queue' = Refills /\ pc \in {"refill", "pool"}
  BY DEF Refill, Slice
<1>5. \/ queue' # <<>> /\ pc' = "fill"
      \/ queue' = <<>> /\ workers # <<>> /\ pc' = "pool"
      \/ queue' = <<>> /\ pc' = "tail"
  BY DEF Refill, Slice
<1> HIDE DEF tickets
<1> QED
  BY <1>1, <1>2, <1>3, <1>4, <1>5, OfferTypes

LEMMA EndPassTypes == ASSUME SpawnTyped, EndPass PROVE SpawnTyped'
<1> USE DEF SpawnTyped
<1>1. /\ UNCHANGED <<now, start, trail, waits, answered, records, workers, heard>> /\ pc = "tail"
  BY DEF EndPass, disk, history
<1>2. DiskTyped' /\ WorkersTyped'
  BY <1>1 DEF DiskTyped, WorkersTyped, Employed
<1>3. CASE Ended("over")
  BY <1>2, <1>3 DEF Ended, NoPass, BatchTyped, PlacesStand, Pcs, Resting
<1>4. CASE pc' = "top" /\ UNCHANGED <<pass, budget>> /\ stalled' \in {stalled, {}}
  <2>1. UNCHANGED <<calls, queue, budget>>
    BY <1>4 DEF pass
  <2>2. BatchTyped'
    BY <1>4, <2>1 DEF BatchTyped
  <2>3. PlacesStand'
    BY <1>1, <1>4, <2>1 DEF PlacesStand, Pcs, Resting
  <2> QED
    BY <1>2, <2>2, <2>3
<1> QED
  BY <1>3, <1>4 DEF EndPass, judged

LEMMA CrashTypes == ASSUME SpawnTyped, Crash PROVE SpawnTyped'
<1> USE DEF SpawnTyped
<1>1. UNCHANGED <<now, start, trail, waits, records, heard>> /\ workers' = <<>> /\ Ended("off")
  BY DEF Crash, history
<1>2. answered' \subseteq Ticket \X Arm
  BY DEF Crash, WorkersTyped, DiskTyped
<1>3. DiskTyped'
  BY <1>1, <1>2 DEF DiskTyped
<1>4. BatchTyped' /\ PlacesStand'
  BY <1>1 DEF Ended, NoPass, BatchTyped, PlacesStand, Pcs, Resting
<1>5. WorkersTyped'
  <2>1. DOMAIN <<>> = {}
    OBVIOUS
  <2>2. DOMAIN workers' = {}
    BY <1>1, <2>1
  <2> QED
    BY <2>2 DEF WorkersTyped
<1> QED
  BY <1>3, <1>4, <1>5

\* What is done beside the run leaves it where it is.
LEMMA BesideTypes ==
    ASSUME SpawnTyped, UNCHANGED <<start, pc, budget, calls, queue, stalled, workers, exit>>,
           DiskTyped', now <= now'
    PROVE  SpawnTyped'
<1> USE DEF SpawnTyped
<1>1. now \in Nat /\ now' \in Nat
  BY SpawnAssumption DEF DiskTyped
<1>2. BatchTyped' /\ WorkersTyped'
  BY <1>1 DEF BatchTyped, WorkersTyped, Employed
<1>3. ExitTyped => ExitTyped'
  BY <1>1 DEF ExitTyped, Employed
<1>4. PlacesStand'
  BY <1>3 DEF PlacesStand
<1> QED
  BY <1>2, <1>4

LEMMA OperatorTypes ==
    ASSUME SpawnTyped, Operator \/ Tick \/ UNCHANGED vars
    PROVE  SpawnTyped'
<1> USE DEF SpawnTyped
<1>0. now \in Nat /\ now \in Int
  BY SpawnAssumption DEF DiskTyped
<1>1. CASE Tick \/ Interrupt \/ UNCHANGED vars
  <2>1. /\ UNCHANGED <<start, trail, waits, answered, records, heard,
                      pc, budget, calls, queue, stalled, workers, exit>>
        /\ now' \in 0..MaxNow /\ now <= now'
    BY <1>0, <1>1, SpawnAssumption DEF Tick, Interrupt, vars, run, disk, pass, judged, history, DiskTyped
  <2>2. DiskTyped'
    BY <2>1 DEF DiskTyped
  <2> QED
    BY <2>1, <2>2, BesideTypes
<1>2. ASSUME NEW t \in Ticket, Retry(t) PROVE SpawnTyped'
  <2>1. UNCHANGED <<now, start, trail, waits, answered, heard,
                   pc, budget, calls, queue, stalled, workers, exit>>
    BY <1>2 DEF Retry, run, pass, judged
  <2>2. PICK more \in Attempts[start] :
          /\ DOMAIN records' = DOMAIN records
          /\ \A n \in DOMAIN records :
                \/ records'[n] = records[n] \/ records'[n] = [records[n] EXCEPT !.grants = @ + more]
    BY <1>2 DEF Retry
  <2>3. more \in Nat
    BY MostAllowed DEF DiskTyped
  <2>4. \A n \in DOMAIN records : [records[n] EXCEPT !.grants = @ + more] \in Record
    BY <2>3, GrantedFields DEF DiskTyped
  <2>5. DiskTyped'
    BY <2>1, <2>2, <2>4 DEF DiskTyped
  <2> QED
    BY <1>0, <2>1, <2>5, BesideTypes
<1>3. ASSUME NEW t \in Ticket, MoveLog(t) PROVE SpawnTyped'
  <2>1. UNCHANGED <<now, start, trail, waits, answered, records, heard,
                   pc, budget, calls, queue, stalled, workers, exit>>
    BY <1>3 DEF MoveLog, run, pass, judged, history
  <2>2. DiskTyped'
    BY <2>1 DEF DiskTyped
  <2> QED
    BY <1>0, <2>1, <2>2, BesideTypes
<1>4. ASSUME NEW t \in Ticket, NEW to \in State, PersonMove(t, to) PROVE SpawnTyped'
  <2>1. /\ UNCHANGED <<now, start, records, pc, budget, calls, queue, stalled, workers, exit>>
        /\ Move(t, to)
    BY <1>4 DEF PersonMove, run, pass, judged
  <2>2. /\ trail' \in [Ticket -> Seq(State)] /\ waits' \in [Ticket -> [State -> Nat]]
        /\ heard' \in [Ticket -> Nat] /\ answered' \subseteq Ticket \X Arm
    BY <2>1, MoveTyped
  <2>3. DiskTyped'
    BY <2>1, <2>2 DEF DiskTyped
  <2> QED
    BY <1>0, <2>1, <2>3, BesideTypes
<1> QED
  BY <1>1, <1>2, <1>3, <1>4 DEF Operator

\* The types are inductive.
LEMMA TypesKeep == SpawnTyped /\ [Next]_vars => SpawnTyped'
<1> SUFFICES ASSUME SpawnTyped, [Next]_vars PROVE SpawnTyped'
  OBVIOUS
<1>1. CASE Begin \/ ReadPass \/ Callback \/ Fill \/ Settle \/ Refill \/ Slice \/ EndPass \/ Crash
  BY <1>1, BeginTypes, ReadPassTypes, CallbackTypes, FillTypes, SettleTypes, RefillTypes, EndPassTypes,
     CrashTypes
<1>2. CASE \E t \in Ticket, arm \in Arm : Judge(t, arm) \/ Ends(t, arm)
  BY <1>2, JudgeTypes, EndsTypes
<1>3. CASE Operator \/ Tick \/ UNCHANGED vars
  BY <1>3, OperatorTypes
<1> QED
  BY <1>1, <1>2, <1>3 DEF Next, RunStep, WorkerEnds

-----------------------------------------------------------------------------
(* Whose a record is.  The number in its name is the count of arrivals at  *)
(* the moves it was written for, and moves are never taken back; so a      *)
(* visit of an arm has one name, and a name that is written again for      *)
(* later moves is lost to the visit before.                                *)

ArrivalsBy(t, s, moves) ==
    Cardinality({i \in 1..moves : trail[t][i] = s}) + (IF start[t] = s THEN 1 ELSE 0)

EntryBy(t, s, moves) == IF ArrivalsBy(t, s, moves) = 0 THEN 1 ELSE ArrivalsBy(t, s, moves)

NameBy(t, s, moves, arm) == <<t, s, EntryBy(t, s, moves), arm>>

Named(name, moves) ==
    \E t \in Ticket, s \in State, arm \in Arm : moves <= Moves(t) /\ name = NameBy(t, s, moves, arm)

RecordsNamed == \A name \in DOMAIN records : Named(name, records[name].moves)

WorkersNamed ==
    \A pair \in DOMAIN workers :
        LET worker == workers[pair]
        IN  /\ worker.planned.moves <= Moves(pair[1])
            /\ worker.name = NameBy(pair[1], worker.in, worker.planned.moves, pair[2])

\* A visit that was paid for and not left has its record.
TallyNamed ==
    \A visit \in DOMAIN tally :
        \E t \in Ticket, s \in State, arm \in Arm, m \in Nat :
            /\ visit = <<t, s, m, arm>> /\ m <= Moves(t)
            /\ m = Moves(t) => OfVisit(NameBy(t, s, m, arm), m)

NamesInv == RecordsNamed /\ WorkersNamed /\ TallyNamed

LEMMA NameOfNow ==
    ASSUME DiskTyped, NEW t \in Ticket, NEW s, NEW arm
    PROVE  Name(t, s, arm) = NameBy(t, s, Moves(t), arm)
<1>1. trail[t] \in Seq(State) /\ Moves(t) = Len(trail[t])
  BY AtIsState DEF Moves
<1>2. DOMAIN trail[t] = 1..Moves(t)
  BY <1>1
<1>3. Arrivals(t, s) = ArrivalsBy(t, s, Moves(t))
  BY <1>2 DEF Arrivals, ArrivalsBy
<1> QED
  BY <1>3 DEF Name, NameBy, Entry, EntryBy

\* A visit has one name.
LEMMA SameVisit ==
    ASSUME NEW n1, NEW m1, Named(n1, m1), NEW n2, NEW m2, Named(n2, m2), Visit(n1, m1) = Visit(n2, m2)
    PROVE  n1 = n2 /\ m1 = m2
<1>1. PICK t1, s1, a1 : n1 = NameBy(t1, s1, m1, a1)
  BY DEF Named
<1>2. PICK t2, s2, a2 : n2 = NameBy(t2, s2, m2, a2)
  BY DEF Named
<1>3. Visit(n1, m1) = <<t1, s1, m1, a1>> /\ Visit(n2, m2) = <<t2, s2, m2, a2>>
  BY <1>1, <1>2 DEF Visit, NameBy
<1>4. t1 = t2 /\ s1 = s2 /\ m1 = m2 /\ a1 = a2
  <2>1. <<t1, s1, m1, a1>> = <<t2, s2, m2, a2>>
    BY <1>3
  <2> QED
    BY <2>1
<1> QED
  BY <1>1, <1>2, <1>4

\* Every worker writes under a name of its own.
LEMMA WorkersAreNamed ==
    ASSUME SpawnTyped, WorkersNamed, NEW pair \in DOMAIN workers
    PROVE  LET worker == workers[pair]
           IN  /\ Named(worker.name, worker.planned.moves)
               /\ worker.name[1] = pair[1] /\ worker.name[2] = worker.in /\ worker.name[4] = pair[2]
               /\ Visit(worker.name, worker.planned.moves) =
                    <<pair[1], worker.in, worker.planned.moves, pair[2]>>
<1>1. pair[1] \in Ticket /\ pair[2] \in Arm /\ workers[pair].in \in State
  BY DEF SpawnTyped, WorkersTyped, Employed
<1> QED
  BY <1>1 DEF WorkersNamed, Named, NameBy, Visit

\* A worker has its arm, and with it its record, for itself.
LEMMA WorkersAreApart ==
    ASSUME SpawnTyped, WorkersNamed, NEW p \in DOMAIN workers, NEW q \in DOMAIN workers, p # q
    PROVE  /\ workers[p].name # workers[q].name
           /\ \A m, n : Visit(workers[p].name, m) # Visit(workers[q].name, n)
<1>1. p \in Ticket \X Arm /\ q \in Ticket \X Arm
  BY DEF SpawnTyped, WorkersTyped
<1>2. ~(p[1] = q[1] /\ p[2] = q[2])
  BY <1>1
<1>3. /\ workers[p].name[1] = p[1] /\ workers[p].name[4] = p[2]
      /\ workers[q].name[1] = q[1] /\ workers[q].name[4] = q[2]
  BY WorkersAreNamed
<1> QED
  BY <1>2, <1>3 DEF Visit

-----------------------------------------------------------------------------
(* The steps, by what they do to the books.                                *)

TrailGrows ==
    /\ start' = start
    /\ \A t \in Ticket : /\ Moves(t)' \in Nat /\ Moves(t) <= Moves(t)'
                         /\ \A i \in 1..Moves(t) : trail'[t][i] = trail[t][i]

LEMMA TrailStays ==
    ASSUME DiskTyped, UNCHANGED <<start, trail>>
    PROVE  TrailGrows
  BY AtIsState DEF TrailGrows, Moves

LEMMA MoveGrows ==
    ASSUME DiskTyped, NEW t \in Ticket, NEW to \in State, Move(t, to), start' = start
    PROVE  TrailGrows
<1>1. trail' = [trail EXCEPT ![t] = Append(trail[t], to)] /\ trail \in [Ticket -> Seq(State)]
  BY DEF Move, DiskTyped
<1> SUFFICES ASSUME NEW u \in Ticket
             PROVE  /\ Moves(u)' \in Nat /\ Moves(u) <= Moves(u)'
                    /\ \A i \in 1..Moves(u) : trail'[u][i] = trail[u][i]
  BY DEF TrailGrows
<1>2. Moves(u) = Len(trail[u]) /\ Moves(u)' = Len(trail'[u]) /\ Moves(u) \in Nat
  BY AtIsState DEF Moves
<1>3. CASE u # t
  <2>1. trail'[u] = trail[u]
    BY <1>1, <1>3
  <2> QED
    BY <1>2, <2>1
<1>4. CASE u = t
  <2>1. trail'[u] = Append(trail[u], to) /\ trail[u] \in Seq(State)
    BY <1>1, <1>4
  <2>2. Len(Append(trail[u], to)) = Len(trail[u]) + 1
        /\ \A i \in 1..Len(trail[u]) : Append(trail[u], to)[i] = trail[u][i]
    BY <2>1
  <2> QED
    BY <1>2, <2>1, <2>2
<1> QED
  BY <1>3, <1>4

\* What was counted is not counted anew.
LEMMA NamesStay ==
    ASSUME DiskTyped, TrailGrows, NEW t \in Ticket, NEW s, NEW arm, NEW m \in Nat, m <= Moves(t)
    PROVE  NameBy(t, s, m, arm)' = NameBy(t, s, m, arm) /\ m <= Moves(t)'
<1>1. Moves(t) \in Nat /\ Moves(t)' \in Nat /\ Moves(t) <= Moves(t)'
  BY AtIsState DEF TrailGrows
<1>2. \A i \in 1..m : trail'[t][i] = trail[t][i]
  BY <1>1 DEF TrailGrows
<1>3. {i \in 1..m : trail'[t][i] = s} = {i \in 1..m : trail[t][i] = s}
  BY <1>2
<1>4. ArrivalsBy(t, s, m)' = ArrivalsBy(t, s, m)
  BY <1>3 DEF ArrivalsBy, TrailGrows
<1> QED
  BY <1>1, <1>4 DEF NameBy, EntryBy

LEMMA NamedStays ==
    ASSUME DiskTyped, TrailGrows, NEW name, NEW m \in Nat, Named(name, m)
    PROVE  Named(name, m)'
  BY NamesStay DEF Named

BooksKept == UNCHANGED <<records, tally>> /\ (workers' = workers \/ workers' = <<>>)

Hired(item) ==
    /\ item \in Item /\ pc = "fill"
    /\ workers' = With(workers, <<item.ticket, item.arm>>, Spawned(item))
    /\ ~Spent(Previous(item.ticket, item.in, item.arm), budget)
    /\ UNCHANGED <<start, trail, records, tally>>

\* A worker has ended.  Its charge is in the books, or could not be written.
Closed(pair, paid) ==
    LET worker == workers[pair]
    IN  /\ pair \in DOMAIN workers /\ worker.ending = "running" /\ paid \in {0, 1}
        /\ DOMAIN workers' = DOMAIN workers
        /\ \A p \in DOMAIN workers \ {pair} : workers'[p] = workers[p]
        /\ workers'[pair].in = worker.in /\ workers'[pair].name = worker.name
        /\ workers'[pair].planned = worker.planned /\ workers'[pair].ending # "running"
        /\ \/ /\ records' = With(records, worker.name, Persisted(worker, paid))
              /\ tally' = Tallied(Visit(worker.name, worker.planned.moves), "costly", paid)
           \/ UNCHANGED <<records, tally>>
        /\ UNCHANGED <<start, trail>>

\* An exit was judged, and perhaps the record there is rewritten.
Judged(pair) ==
    LET worker == workers[pair]
        name == worker.name
        back == GivenBack(records[name], worker.ending)
    IN  /\ pair \in DOMAIN workers /\ workers' = Without(workers, pair)
        /\ \/ /\ name \in DOMAIN records
              /\ records' = With(records, name, back)
              /\ tally' = Tallied(Visit(name, back.moves), "forgiven", records[name].charged - back.charged)
           \/ UNCHANGED <<records, tally>>
        /\ UNCHANGED <<start, trail>>

\* What is exhausted of a ticket's visit is granted more.
Granted(t, more, exhausted) ==
    LET visits == {Visit(n, Moves(t)) : n \in exhausted}
    IN  /\ more \in Nat
        /\ \A n \in exhausted : /\ OfVisit(n, Moves(t))
                                /\ \E arm \in Arm : n = Name(t, At(t), arm)
        /\ records' = [n \in DOMAIN records |->
                          IF n \in exhausted THEN [records[n] EXCEPT !.grants = @ + more] ELSE records[n]]
        /\ tally' = [v \in DOMAIN tally \cup visits |->
                        IF v \in visits THEN [Tally(v) EXCEPT !.granted = @ + more] ELSE tally[v]]
        /\ UNCHANGED <<start, trail, workers>>

BookStep ==
    \/ BooksKept
    \/ \E item : Hired(item)
    \/ \E pair, paid : Closed(pair, paid)
    \/ \E pair : Judged(pair)
    \/ \E t \in Ticket : \E more, exhausted : Granted(t, more, exhausted)

LEMMA EndsCloses ==
    ASSUME SpawnTyped, NEW t \in Ticket, NEW arm \in Arm, Ends(t, arm)
    PROVE  \E pair, paid : Closed(pair, paid)
<1> DEFINE pair == <<t, arm>>
           worker == workers[pair]
<1>1. /\ pair \in DOMAIN workers /\ worker.ending = "running" /\ Employed(worker)
      /\ UNCHANGED <<start, trail>>
  BY DEF Ends, SpawnTyped, WorkersTyped
<1>2. PICK how \in Ending, instant \in 0..MaxNow + 1 :
        LET paid == IF how \in Unpaid THEN 0 ELSE 1
        IN /\ workers' = [workers EXCEPT ![pair].ending = how, ![pair].instant = instant]
           /\ \/ /\ records' = With(records, worker.name, Persisted(worker, paid))
                 /\ tally' = Tallied(Visit(worker.name, worker.planned.moves), "costly", paid)
              \/ UNCHANGED <<records, tally>>
  BY DEF Ends
<1> DEFINE paid == IF how \in Unpaid THEN 0 ELSE 1
<1>3. /\ \/ /\ records' = With(records, worker.name, Persisted(worker, paid))
            /\ tally' = Tallied(Visit(worker.name, worker.planned.moves), "costly", paid)
         \/ UNCHANGED <<records, tally>>
      /\ paid \in {0, 1}
  BY <1>2
<1> HIDE DEF pair, paid
<1>4. /\ DOMAIN workers' = DOMAIN workers
      /\ \A p \in DOMAIN workers \ {pair} : workers'[p] = workers[p]
      /\ workers'[pair] = [worker EXCEPT !.ending = how, !.instant = instant]
  BY <1>1, <1>2
<1>5. how # "running"
  BY DEF Ending
<1>6. /\ workers'[pair].in = worker.in /\ workers'[pair].name = worker.name
      /\ workers'[pair].planned = worker.planned /\ workers'[pair].ending # "running"
  <2> HIDE DEF worker
  <2>1. DOMAIN worker = {"in", "name", "planned", "started", "ending", "instant"}
    BY <1>1 DEF Employed
  <2> QED
    BY <1>4, <1>5, <2>1
<1>7. Closed(pair, paid)
  BY <1>1, <1>3, <1>4, <1>6 DEF Closed
<1> QED
  BY <1>7

LEMMA JudgeJudges ==
    ASSUME NEW t \in Ticket, NEW arm \in Arm, Judge(t, arm)
    PROVE  \E pair : Judged(pair)
<1> DEFINE pair == <<t, arm>>
           worker == workers[pair]
           name == worker.name
           back == GivenBack(records[name], worker.ending)
           rewrites == /\ At(t) = worker.in /\ worker.ending \in ExitZero /\ <<t, arm>> \notin answered
                       /\ worker.ending \in Unavailable /\ name \in DOMAIN records
<1>1. /\ pair \in DOMAIN workers /\ workers' = Without(workers, pair)
      /\ UNCHANGED <<start, trail>>
  BY DEF Judge
<1>2. CASE rewrites
  <2>1. records' = With(records, name, back) /\ name \in DOMAIN records
    BY <1>2 DEF Judge
  <2>2. tally' = Tallied(Visit(name, back.moves), "forgiven", records[name].charged - back.charged)
    BY <1>2 DEF Judge
  <2> QED
    BY <1>1, <2>1, <2>2 DEF Judged
<1>3. CASE ~rewrites
  <2>1. UNCHANGED <<records, tally>>
    BY <1>3 DEF Judge
  <2> QED
    BY <1>1, <2>1 DEF Judged
<1> QED
  BY <1>2, <1>3

LEMMA RetryGrants ==
    ASSUME SpawnTyped, NEW t \in Ticket, Retry(t)
    PROVE  \E more, exhausted : Granted(t, more, exhausted)
<1>1. PICK more \in Attempts[start] :
        LET exhausted == {n \in Names(t) : OfVisit(n, Moves(t)) /\ Spent(records[n], more)}
            visits == {Visit(n, Moves(t)) : n \in exhausted}
        IN /\ records' = [n \in DOMAIN records |->
                            IF n \in exhausted THEN [records[n] EXCEPT !.grants = @ + more]
                            ELSE records[n]]
           /\ tally' = [v \in DOMAIN tally \cup visits |->
                            IF v \in visits THEN [Tally(v) EXCEPT !.granted = @ + more]
                            ELSE tally[v]]
  BY DEF Retry
<1> DEFINE exhausted == {n \in Names(t) : OfVisit(n, Moves(t)) /\ Spent(records[n], more)}
<1>2. more \in Nat
  BY MostAllowed DEF SpawnTyped, DiskTyped
<1>3. \A n \in exhausted : OfVisit(n, Moves(t)) /\ \E arm \in Arm : n = Name(t, At(t), arm)
  BY PendingTyped DEF Names, SpawnTyped
<1>4. UNCHANGED <<start, trail, workers>>
  BY DEF Retry, run
<1>5. Granted(t, more, exhausted)
  BY <1>1, <1>2, <1>3, <1>4 DEF Granted
<1> QED
  BY <1>5

LEMMA FillHires ==
    ASSUME SpawnTyped, Fill
    PROVE  BooksKept \/ \E item : Hired(item)
<1> DEFINE item == Head(queue)
<1>1. UNCHANGED <<start, trail, records, tally>> /\ pc = "fill"
  BY DEF Fill, history
<1>2. item \in Item
  BY <1>1, NextItem
<1>3. CASE workers' = workers
  BY <1>1, <1>3 DEF BooksKept
<1>4. CASE /\ workers' = With(workers, <<item.ticket, item.arm>>, Spawned(item))
           /\ ~Spent(Previous(item.ticket, item.in, item.arm), budget)
  BY <1>1, <1>2, <1>4 DEF Hired
<1> QED
  BY <1>3, <1>4, FillShape

\* Every step keeps the books, or is one of the four that write them.
LEMMA BookSteps == ASSUME SpawnTyped, [Next]_vars PROVE TrailGrows /\ BookStep
<1>0. DiskTyped
  BY DEF SpawnTyped
<1>1. CASE Begin \/ ReadPass \/ Refill \/ Slice \/ EndPass \/ Tick \/ Interrupt \/ UNCHANGED vars
  <2>1. UNCHANGED <<start, trail, records, workers, tally>>
    BY <1>1 DEF Begin, ReadPass, Refill, Slice, EndPass, Tick, Interrupt, vars, run, disk, history
  <2> QED
    BY <1>0, <2>1, TrailStays DEF BooksKept, BookStep
<1>2. CASE Callback
  <2>1. UNCHANGED <<start, records, workers, tally>>
    BY <1>2 DEF Callback
  <2>2. TrailGrows
    <3> DEFINE t == Head(calls).ticket
    <3>1. CASE At(t) # Head(calls).in
      BY <1>0, <1>2, <2>1, <3>1, TrailStays DEF Callback
    <3>2. CASE At(t) = Head(calls).in
      <4>1. Move(t, Edge[At(t)])
        BY <1>2, <3>2 DEF Callback
      <4>2. t \in Ticket /\ Edge[At(t)] \in State
        <5> DEFINE X == [ticket : Ticket, in : {s \in State : ~Finished(s)}]
        <5>1. pc = "calls" /\ calls # <<>>
          BY <1>2 DEF Callback, SpawnTyped, PlacesStand
        <5>2. calls \in Seq(X)
          BY DEF SpawnTyped, BatchTyped
        <5> HIDE DEF X
        <5>3. Head(calls) \in X
          BY <5>1, <5>2
        <5> QED
          BY <3>2, <5>3, SpawnAssumption DEF X
      <4> HIDE DEF t
      <4> QED
        BY <1>0, <2>1, <4>1, <4>2, MoveGrows
    <3> QED
      BY <3>1, <3>2
  <2> QED
    BY <2>1, <2>2 DEF BooksKept, BookStep
<1>3. CASE Settle
  <2>1. UNCHANGED <<start, records, workers, tally>>
    BY <1>3 DEF Settle
  <2>2. TrailGrows
    BY <1>0, <1>3, <2>1, SettleShape, TrailStays, MoveGrows
  <2> QED
    BY <2>1, <2>2 DEF BooksKept, BookStep
<1>4. ASSUME NEW t \in Ticket, NEW to \in State, PersonMove(t, to) PROVE TrailGrows /\ BookStep
  <2>1. UNCHANGED <<start, records, workers, tally>> /\ Move(t, to)
    BY <1>4 DEF PersonMove, run
  <2> QED
    BY <1>0, <2>1, MoveGrows DEF BooksKept, BookStep
<1>5. CASE Crash
  <2>1. UNCHANGED <<start, trail, records, tally>> /\ workers' = <<>>
    BY <1>5 DEF Crash, history
  <2> QED
    BY <1>0, <2>1, TrailStays DEF BooksKept, BookStep
<1>6. CASE Fill
  <2>1. UNCHANGED <<start, trail>>
    BY <1>6 DEF Fill
  <2> QED
    BY <1>0, <1>6, <2>1, FillHires, TrailStays DEF BookStep
<1>7. ASSUME NEW t \in Ticket, NEW arm \in Arm, Ends(t, arm) PROVE TrailGrows /\ BookStep
  <2>1. UNCHANGED <<start, trail>>
    BY <1>7 DEF Ends
  <2> QED
    BY <1>0, <1>7, <2>1, EndsCloses, TrailStays DEF BookStep
<1>8. ASSUME NEW t \in Ticket, NEW arm \in Arm, Judge(t, arm) PROVE TrailGrows /\ BookStep
  <2>1. UNCHANGED <<start, trail>>
    BY <1>8 DEF Judge
  <2> QED
    BY <1>0, <1>8, <2>1, JudgeJudges, TrailStays DEF BookStep
<1>9. ASSUME NEW t \in Ticket, Retry(t) \/ MoveLog(t) PROVE TrailGrows /\ BookStep
  <2>1. UNCHANGED <<start, trail>>
    BY <1>9 DEF Retry, MoveLog
  <2>2. CASE MoveLog(t)
    BY <1>0, <2>1, <2>2, TrailStays DEF MoveLog, run, history, BooksKept, BookStep
  <2> QED
    BY <1>0, <1>9, <2>1, <2>2, RetryGrants, TrailStays DEF BookStep
<1> QED
  BY <1>1, <1>2, <1>3, <1>4, <1>5, <1>6, <1>7, <1>8, <1>9 DEF Next, RunStep, WorkerEnds, Operator

-----------------------------------------------------------------------------
(* Records, workers and what was paid keep their visits.                   *)

\* A record is written for the visit it is of, or for a later one.
RecordsGoOn ==
    \A n \in DOMAIN records :
        /\ n \in DOMAIN records'
        /\ records[n].moves <= records'[n].moves /\ Named(n, records'[n].moves)

LEMMA RecordsStayNamed ==
    ASSUME DiskTyped, DiskTyped', TrailGrows, \A n \in DOMAIN records' : Named(n, records'[n].moves)
    PROVE  RecordsNamed'
<1>1. \A n \in DOMAIN records' : records'[n].moves \in Nat
  BY RecordFields DEF DiskTyped
<1> SUFFICES ASSUME NEW n \in DOMAIN records' PROVE Named(n, records[n].moves)'
  BY DEF RecordsNamed
<1>2. PICK m \in Nat : m = records'[n].moves
  BY <1>1
<1>3. Named(n, m)'
  BY <1>2, NamedStays
<1> QED
  BY <1>2, <1>3

LEMMA TallyStaysNamed ==
    ASSUME DiskTyped, DiskTyped', TallyNamed, TrailGrows, RecordsGoOn,
           NEW new, DOMAIN tally' \subseteq DOMAIN tally \cup new,
           \A visit \in new : \E name \in DOMAIN records', m \in Nat :
               visit = Visit(name, m) /\ Named(name, m) /\ records'[name].moves = m
    PROVE  TallyNamed'
<1> SUFFICES ASSUME NEW visit \in DOMAIN tally'
             PROVE  \E t \in Ticket, s \in State, arm \in Arm, m \in Nat :
                        /\ visit = <<t, s, m, arm>> /\ m <= Moves(t)'
                        /\ m = Moves(t)' => OfVisit(NameBy(t, s, m, arm), m)'
  BY DEF TallyNamed
<1>1. CASE visit \in DOMAIN tally
  <2>1. PICK t \in Ticket, s \in State, arm \in Arm, m \in Nat :
          /\ visit = <<t, s, m, arm>> /\ m <= Moves(t)
          /\ m = Moves(t) => OfVisit(NameBy(t, s, m, arm), m)
    BY <1>1 DEF TallyNamed
  <2>2. Moves(t) \in Nat /\ Moves(t)' \in Nat /\ Moves(t) <= Moves(t)'
    BY AtIsState DEF TrailGrows
  <2>3. NameBy(t, s, m, arm)' = NameBy(t, s, m, arm)
    BY <2>1, NamesStay
  <2>4. ASSUME m = Moves(t)' PROVE OfVisit(NameBy(t, s, m, arm), m)'
    <3> DEFINE n == NameBy(t, s, m, arm)
    <3>1. m = Moves(t) /\ n \in DOMAIN records /\ records[n].moves = m
      BY <2>1, <2>2, <2>4 DEF OfVisit
    <3>2. n \in DOMAIN records' /\ m <= records'[n].moves /\ Named(n, records'[n].moves)
      BY <3>1 DEF RecordsGoOn
    <3>3. PICK t2 \in Ticket, s2 \in State, arm2 \in Arm :
            records'[n].moves <= Moves(t2) /\ n = NameBy(t2, s2, records'[n].moves, arm2)
      BY <3>2 DEF Named
    <3>4. t2 = t
      BY <3>3 DEF NameBy
    <3> HIDE DEF n
    <3>5. records'[n].moves = m
      <4>1. records'[n].moves \in Nat
        BY <3>2, RecordFields DEF DiskTyped
      <4> QED
        BY <2>2, <3>1, <3>2, <3>3, <3>4, <4>1
    <3>6. n' = n
      BY <2>3 DEF n
    <3> QED
      BY <2>3, <3>2, <3>5 DEF OfVisit, n
  <2> QED
    BY <2>1, <2>2, <2>4
<1>2. CASE visit \in new
  <2>1. PICK name \in DOMAIN records', m \in Nat :
          visit = Visit(name, m) /\ Named(name, m) /\ records'[name].moves = m
    BY <1>2
  <2>2. PICK t \in Ticket, s \in State, arm \in Arm : m <= Moves(t) /\ name = NameBy(t, s, m, arm)
    BY <2>1 DEF Named
  <2>3. visit = <<t, s, m, arm>>
    BY <2>1, <2>2 DEF Visit, NameBy
  <2>4. NameBy(t, s, m, arm)' = NameBy(t, s, m, arm) /\ m <= Moves(t)'
    BY <2>2, NamesStay
  <2> QED
    BY <2>1, <2>2, <2>3, <2>4 DEF OfVisit
<1> QED
  BY <1>1, <1>2

LEMMA TallyRests ==
    ASSUME DiskTyped, DiskTyped', RecordsNamed, TallyNamed, TrailGrows, UNCHANGED <<records, tally>>
    PROVE  TallyNamed'
<1> DEFINE new == {}
<1>1. RecordsGoOn
  <2>1. \A n \in DOMAIN records : records[n].moves \in Nat
    BY RecordFields DEF DiskTyped
  <2> QED
    BY <2>1 DEF RecordsNamed, RecordsGoOn
<1>2. DOMAIN tally' \subseteq DOMAIN tally \cup new
  OBVIOUS
<1>3. \A visit \in new : \E name \in DOMAIN records', m \in Nat :
        visit = Visit(name, m) /\ Named(name, m) /\ records'[name].moves = m
  OBVIOUS
<1> HIDE DEF new
<1> QED
  BY <1>1, <1>2, <1>3, TallyStaysNamed

-----------------------------------------------------------------------------
(* What a record says, and what was paid.                                  *)

Account == [costly : Nat, forgiven : Nat, granted : Nat]

TallyTyped == \A visit \in DOMAIN tally : tally[visit] \in Account

Agrees(record, paid) ==
    /\ record.charged = paid.costly - paid.forgiven
    /\ record.grants = paid.granted
    /\ record.charged <= record.attempt
    /\ paid.forgiven <= record.unavailable

RecordsAgree ==
    \A name \in DOMAIN records : Agrees(records[name], Tally(Visit(name, records[name].moves)))

\* While a worker is out nothing but grants comes to its record; and one that
\* has no record of its visit is the first of it.
UpToDate(worker) ==
    LET planned == worker.planned
    IN  /\ planned.charged <= planned.attempt
        /\ planned.charged < Max(Attempts[start]) + planned.grants
        /\ worker.name \in DOMAIN records => records[worker.name].moves <= planned.moves
        /\ IF OfVisit(worker.name, planned.moves)
           THEN /\ records[worker.name].charged = planned.charged
                /\ records[worker.name].grants >= planned.grants
           ELSE /\ planned = Blank(planned.moves)
                /\ Visit(worker.name, planned.moves) \notin DOMAIN tally

WorkersStand ==
    \A pair \in DOMAIN workers : workers[pair].ending = "running" => UpToDate(workers[pair])

BooksInv == NamesInv /\ TallyTyped /\ RecordsAgree /\ WorkersStand /\ SpawnsAreBounded

LEMMA AccountFields ==
    ASSUME NEW paid \in Account
    PROVE  /\ DOMAIN paid = {"costly", "forgiven", "granted"}
           /\ paid.costly \in Nat /\ paid.forgiven \in Nat /\ paid.granted \in Nat
  BY DEF Account

LEMMA TallyIsTyped ==
    ASSUME TallyTyped, NEW visit
    PROVE  Tally(visit) \in Account
  BY DEF TallyTyped, Tally, NoTally, Account

\* A charge or a give-back is of one visit.
LEMMA TalliedParts ==
    ASSUME TallyTyped, NEW visit, NEW field \in {"costly", "forgiven"}, NEW n \in Nat,
           tally' = Tallied(visit, field, n)
    PROVE  /\ TallyTyped'
           /\ DOMAIN tally \subseteq DOMAIN tally' /\ DOMAIN tally' \subseteq DOMAIN tally \cup {visit}
           /\ \A v : v # visit => Tally(v)' = Tally(v)
           /\ Tally(visit)'.granted = Tally(visit).granted
           /\ Tally(visit)'.costly = Tally(visit).costly + (IF field = "costly" THEN n ELSE 0)
           /\ Tally(visit)'.forgiven = Tally(visit).forgiven + (IF field = "forgiven" THEN n ELSE 0)
<1> DEFINE old == Tally(visit)
           new == [old EXCEPT ![field] = @ + n]
<1>1. old \in Account
  BY TallyIsTyped
<1>2. CASE n = 0
  <2>1. tally' = tally
    BY <1>2 DEF Tallied
  <2>2. \A v : Tally(v)' = Tally(v)
    BY <2>1 DEF Tally
  <2>3. TallyTyped'
    BY <2>1 DEF TallyTyped
  <2> HIDE DEF old
  <2>4. old.costly + 0 = old.costly /\ old.forgiven + 0 = old.forgiven
    BY <1>1, AccountFields
  <2> QED
    BY <1>2, <2>1, <2>2, <2>3, <2>4 DEF old
<1>3. CASE n # 0
  <2> HIDE DEF old
  <2>1. DOMAIN old = {"costly", "forgiven", "granted"} /\ old.costly \in Nat /\ old.forgiven \in Nat
        /\ old.granted \in Nat
    BY <1>1, AccountFields
  <2>2. /\ new.granted = old.granted
        /\ new.costly = old.costly + (IF field = "costly" THEN n ELSE 0)
        /\ new.forgiven = old.forgiven + (IF field = "forgiven" THEN n ELSE 0)
    <3>1. CASE field = "costly"
      <4>1. new = [old EXCEPT !.costly = @ + n]
        BY <3>1
      <4> QED
        BY <2>1, <3>1, <4>1
    <3>2. CASE field = "forgiven"
      <4>1. new = [old EXCEPT !.forgiven = @ + n]
        BY <3>2
      <4> QED
        BY <2>1, <3>2, <4>1
    <3> QED
      BY <3>1, <3>2
  <2>2a. new = [costly |-> new.costly, forgiven |-> new.forgiven, granted |-> new.granted]
    <3>1. new = [old EXCEPT !.costly = @ + n] \/ new = [old EXCEPT !.forgiven = @ + n]
      OBVIOUS
    <3> HIDE DEF new
    <3>2. CASE new = [old EXCEPT !.costly = @ + n]
      BY <2>1, <3>2
    <3>3. CASE new = [old EXCEPT !.forgiven = @ + n]
      BY <2>1, <3>3
    <3> QED
      BY <3>1, <3>2, <3>3
  <2>3. tally' = With(tally, visit, new)
    BY <1>3 DEF Tallied, old
  <2> HIDE DEF new
  <2>4. new \in Account
    BY <2>1, <2>2, <2>2a DEF Account
  <2>5. /\ DOMAIN tally' = DOMAIN tally \cup {visit} /\ tally'[visit] = new
        /\ \A v \in DOMAIN tally \ {visit} : tally'[v] = tally[v]
    BY <2>3 DEF With
  <2>6. \A v : v # visit => Tally(v)' = Tally(v)
    BY <2>5 DEF Tally
  <2>7. Tally(visit)' = new
    BY <2>5 DEF Tally
  <2>8. TallyTyped'
    BY <2>4, <2>5 DEF TallyTyped
  <2> QED
    BY <2>2, <2>5, <2>6, <2>7, <2>8 DEF old
<1> QED
  BY <1>2, <1>3

\* The limit of one visit, whether anything was paid for it or not.
Bounded(paid) ==
    paid.costly - paid.forgiven <= Max(Attempts[start]) + paid.granted /\ paid.forgiven <= Free

LEMMA BoundedVisits == SpawnTyped /\ TallyTyped => (SpawnsAreBounded <=> \A visit : Bounded(Tally(visit)))
<1> SUFFICES ASSUME SpawnTyped, TallyTyped
             PROVE  SpawnsAreBounded <=> \A visit : Bounded(Tally(visit))
  OBVIOUS
<1>1. Max(Attempts[start]) \in Nat /\ Free \in Nat
  BY MostAllowed, SpawnAssumption DEF SpawnTyped, DiskTyped
<1>2. Bounded(NoTally)
  BY <1>1 DEF Bounded, NoTally
<1>3. \A visit : visit \in DOMAIN tally => Tally(visit) = tally[visit]
  BY DEF Tally
<1>4. \A visit : visit \notin DOMAIN tally => Tally(visit) = NoTally
  BY DEF Tally
<1> QED
  BY <1>2, <1>3, <1>4 DEF SpawnsAreBounded, Bounded

\* A worker that is as it was keeps its name.
WorkerStays(pair) ==
    /\ pair \in DOMAIN workers
    /\ workers'[pair].in = workers[pair].in /\ workers'[pair].name = workers[pair].name
    /\ workers'[pair].planned = workers[pair].planned

WorkerNamed(pair) ==
    /\ workers[pair].planned.moves <= Moves(pair[1])
    /\ workers[pair].name = NameBy(pair[1], workers[pair].in, workers[pair].planned.moves, pair[2])

LEMMA WorkerStaysNamed ==
    ASSUME SpawnTyped, WorkersNamed, TrailGrows, NEW pair, WorkerStays(pair)
    PROVE  WorkerNamed(pair)'
<1>1. /\ pair[1] \in Ticket /\ DiskTyped
      /\ workers[pair].planned.moves \in Nat
  BY RecordFields DEF SpawnTyped, WorkersTyped, Employed, WorkerStays
<1>2. PICK m \in Nat : m = workers[pair].planned.moves
  BY <1>1
<1>2a. PICK s : s = workers[pair].in
  OBVIOUS
<1>3. m <= Moves(pair[1]) /\ workers[pair].name = NameBy(pair[1], s, m, pair[2])
  BY <1>2, <1>2a DEF WorkersNamed, WorkerStays
<1>4. NameBy(pair[1], s, m, pair[2])' = NameBy(pair[1], s, m, pair[2]) /\ m <= Moves(pair[1])'
  BY <1>1, <1>3, NamesStay
<1> QED
  BY <1>2, <1>2a, <1>3, <1>4 DEF WorkerStays, WorkerNamed

\* Most steps leave the books alone; a crash takes the workers.
LEMMA KeptBooks ==
    ASSUME SpawnTyped, SpawnTyped', BooksInv, TrailGrows, BooksKept
    PROVE  BooksInv'
<1>0. DiskTyped /\ DiskTyped' /\ start' = start
  BY DEF SpawnTyped, TrailGrows
<1>1. UNCHANGED <<records, tally>> /\ (workers' = workers \/ workers' = <<>>)
  BY DEF BooksKept
<1>2. RecordsNamed'
  BY <1>0, <1>1, RecordsStayNamed DEF BooksInv, NamesInv, RecordsNamed
<1>3. \A pair \in DOMAIN workers' : pair \in DOMAIN workers /\ workers'[pair] = workers[pair]
  <2>1. DOMAIN <<>> = {}
    OBVIOUS
  <2>2. CASE workers' = <<>>
    BY <2>1, <2>2
  <2> QED
    BY <1>1, <2>2
<1>4. WorkersNamed'
  <2>1. \A pair \in DOMAIN workers' : WorkerNamed(pair)'
    BY <1>3, WorkerStaysNamed DEF WorkerStays, BooksInv, NamesInv
  <2> QED
    BY <2>1 DEF WorkersNamed, WorkerNamed
<1>5. TallyNamed'
  BY <1>0, <1>1, TallyRests DEF BooksInv, NamesInv
<1>6. TallyTyped'
  BY <1>1 DEF BooksInv, TallyTyped
<1>7. RecordsAgree' /\ SpawnsAreBounded'
  BY <1>0, <1>1 DEF BooksInv, RecordsAgree, SpawnsAreBounded, Tally
<1>8. WorkersStand'
  BY <1>0, <1>1, <1>3 DEF BooksInv, WorkersStand, UpToDate, OfVisit
<1> QED
  BY <1>2, <1>4, <1>5, <1>6, <1>7, <1>8 DEF BooksInv, NamesInv

\* A spawn goes by the record of its visit, or begins one that nothing was
\* paid for.
LEMMA HiredBooks ==
    ASSUME SpawnTyped, SpawnTyped', BooksInv, TrailGrows, NEW item, Hired(item)
    PROVE  BooksInv'
<1> DEFINE t == item.ticket
           s == item.in
           arm == item.arm
           pair == <<t, arm>>
           m == Moves(t)
           name == Name(t, s, arm)
           planned == Previous(t, s, arm)
<1>0. DiskTyped /\ DiskTyped' /\ start' = start
  BY DEF SpawnTyped, TrailGrows
<1>1. t \in Ticket /\ s \in State /\ arm \in Arm /\ pc = "fill"
  BY DEF Hired, Item
<1>2. UNCHANGED <<start, trail, records, tally>> /\ workers' = With(workers, pair, Spawned(item))
  BY DEF Hired
<1>3. /\ DOMAIN workers' = DOMAIN workers \cup {pair}
      /\ workers'[pair].in = s /\ workers'[pair].name = name /\ workers'[pair].planned = planned
      /\ \A p \in DOMAIN workers \ {pair} : workers'[p] = workers[p]
  <2> HIDE DEF pair
  <2> QED
    BY <1>2 DEF With, Spawned
<1>4. m \in Nat /\ name = NameBy(t, s, m, arm) /\ planned \in Record /\ planned.moves = m
  <2>1. m \in Nat /\ name = NameBy(t, s, m, arm) /\ planned \in Record
    BY <1>0, <1>1, AtIsState, NameOfNow, PreviousTyped
  <2>2. planned.moves = m
    BY DEF Previous, OfVisit, Blank
  <2> QED
    BY <2>1, <2>2
<1>5. RecordsNamed'
  BY <1>0, <1>2, RecordsStayNamed DEF BooksInv, NamesInv, RecordsNamed
<1>6. WorkersNamed'
  <2>1. \A p \in DOMAIN workers \ {pair} : WorkerNamed(p)'
    BY <1>3, WorkerStaysNamed DEF WorkerStays, BooksInv, NamesInv
  <2>2. WorkerNamed(pair)'
    <3>1. pair[1] = t /\ pair[2] = arm
      OBVIOUS
    <3>2. PICK m0 \in Nat : m0 = m
      BY <1>4
    <3>3. NameBy(t, s, m0, arm)' = NameBy(t, s, m0, arm) /\ m0 <= Moves(t)'
      BY <1>0, <1>1, <1>4, <3>2, NamesStay
    <3> HIDE DEF name, planned, pair, m, t, s, arm
    <3>4. /\ workers'[pair].in = s /\ workers'[pair].name = NameBy(t, s, m0, arm)
          /\ workers'[pair].planned.moves = m0
      BY <1>3, <1>4, <3>2
    <3> QED
      BY <3>1, <3>3, <3>4 DEF WorkerNamed
  <2> QED
    BY <1>3, <2>1, <2>2 DEF WorkersNamed, WorkerNamed
<1>7. TallyNamed'
  BY <1>0, <1>2, TallyRests DEF BooksInv, NamesInv
<1>8. TallyTyped' /\ RecordsAgree' /\ SpawnsAreBounded'
  BY <1>0, <1>2 DEF BooksInv, TallyTyped, RecordsAgree, SpawnsAreBounded, Tally
<1>9. /\ planned.charged <= planned.attempt
      /\ planned.charged < Max(Attempts[start]) + planned.grants
      /\ name \in DOMAIN records => records[name].moves <= m
      /\ IF OfVisit(name, m) THEN planned = records[name]
         ELSE planned = Blank(m) /\ Visit(name, m) \notin DOMAIN tally
  <2>1. ~Spent(planned, budget) /\ budget \in Attempts[start]
    BY <1>1 DEF Hired, SpawnTyped, PlacesStand, Resting
  <2>2. budget \in Nat \ {0} /\ budget <= Max(Attempts[start]) /\ Max(Attempts[start]) \in Nat
    BY <1>0, <2>1, MostAllowed DEF DiskTyped
  <2>3. planned.charged \in Int /\ planned.grants \in Nat /\ planned.charged < budget + planned.grants
    BY <1>4, <2>1, <2>2, RecordFields DEF Spent
  <2>4. planned.charged < Max(Attempts[start]) + planned.grants
    BY <2>2, <2>3
  <2>5. name \in DOMAIN records => records[name].moves <= m
    <3>1. SUFFICES ASSUME name \in DOMAIN records PROVE records[name].moves <= m
      OBVIOUS
    <3>2. PICK t2 \in Ticket, s2 \in State, arm2 \in Arm :
            records[name].moves <= Moves(t2) /\ name = NameBy(t2, s2, records[name].moves, arm2)
      BY <3>1 DEF BooksInv, NamesInv, RecordsNamed, Named
    <3>3. t2 = t
      BY <1>4, <3>2 DEF NameBy
    <3> QED
      BY <3>2, <3>3
  <2>6. CASE OfVisit(name, m)
    <3>1. planned = records[name] /\ name \in DOMAIN records
      BY <2>6 DEF Previous, OfVisit
    <3>2. planned.charged <= planned.attempt
      BY <3>1 DEF BooksInv, RecordsAgree, Agrees
    <3> QED
      BY <2>4, <2>5, <2>6, <3>1, <3>2
  <2>7. CASE ~OfVisit(name, m)
    <3>1. planned = Blank(m)
      BY <2>7 DEF Previous
    <3>2. planned.charged = 0 /\ planned.attempt = 0
      BY <3>1 DEF Blank
    <3>3. Visit(name, m) \notin DOMAIN tally
      <4>1. Visit(name, m) = <<t, s, m, arm>>
        BY <1>4 DEF Visit, NameBy
      <4>2. SUFFICES ASSUME Visit(name, m) \in DOMAIN tally PROVE FALSE
        OBVIOUS
      <4>3. PICK t2 \in Ticket, s2 \in State, arm2 \in Arm, m2 \in Nat :
              /\ <<t, s, m, arm>> = <<t2, s2, m2, arm2>>
              /\ m2 = Moves(t2) => OfVisit(NameBy(t2, s2, m2, arm2), m2)
        BY <4>1, <4>2 DEF BooksInv, NamesInv, TallyNamed
      <4>4. t2 = t /\ s2 = s /\ m2 = m /\ arm2 = arm
        BY <4>3
      <4> QED
        BY <1>4, <2>7, <4>3, <4>4
    <3> HIDE DEF name, planned, m
    <3> QED
      BY <2>4, <2>5, <2>7, <3>1, <3>2, <3>3
  <2> QED
    BY <2>6, <2>7
<1>10. WorkersStand'
  <2>1. \A p \in DOMAIN workers \ {pair} : workers'[p].ending = "running" => UpToDate(workers[p])'
    BY <1>0, <1>2, <1>3 DEF BooksInv, WorkersStand, UpToDate, OfVisit
  <2>2. UpToDate(workers[pair])'
    <3> HIDE DEF name, planned, m, pair, t, s, arm
    <3>1. workers'[pair].name = name /\ workers'[pair].planned = planned /\ planned.moves = m
      BY <1>3, <1>4
    <3>2. CASE OfVisit(name, m)
      <4>1. planned = records[name] /\ planned.grants \in Nat
        BY <1>4, <1>9, <3>2, RecordFields
      <4> QED
        BY <1>0, <1>2, <1>9, <3>1, <3>2, <4>1 DEF UpToDate, OfVisit
    <3>3. CASE ~OfVisit(name, m)
      BY <1>0, <1>2, <1>9, <3>1, <3>3 DEF UpToDate, OfVisit, Blank
    <3> QED
      BY <3>2, <3>3
  <2> QED
    BY <1>3, <2>1, <2>2 DEF WorkersStand
<1> QED
  BY <1>5, <1>6, <1>7, <1>8, <1>10 DEF BooksInv, NamesInv

\* One record is written, and its visit's account with it.
Written(name, record) ==
    /\ record \in Record /\ Named(name, record.moves)
    /\ name \in DOMAIN records => records[name].moves <= record.moves
    /\ records' = With(records, name, record)
    /\ TallyTyped' /\ DOMAIN tally \subseteq DOMAIN tally'
    /\ DOMAIN tally' \subseteq DOMAIN tally \cup {Visit(name, record.moves)}
    /\ \A v : v # Visit(name, record.moves) => Tally(v)' = Tally(v)
    /\ UNCHANGED <<start, trail>>

\* The books stay in order when what is written agrees with what was paid.
LEMMA WrittenBooks ==
    ASSUME SpawnTyped, SpawnTyped', BooksInv, TrailGrows, NEW name, NEW record, Written(name, record),
           NEW visit, visit = Visit(name, record.moves),
           Agrees(record, Tally(visit)'), Bounded(Tally(visit))'
    PROVE  RecordsNamed' /\ TallyNamed' /\ RecordsAgree' /\ SpawnsAreBounded'
<1>0. DiskTyped /\ DiskTyped' /\ start' = start
  BY DEF SpawnTyped, TrailGrows
<1>1. /\ DOMAIN records' = DOMAIN records \cup {name} /\ records'[name] = record
      /\ \A n \in DOMAIN records \ {name} : records'[n] = records[n]
  BY DEF Written, With
<1>2. record.moves \in Nat /\ Named(name, record.moves)
      /\ (name \in DOMAIN records => records[name].moves <= record.moves)
  BY RecordFields DEF Written
<1>3. \A n \in DOMAIN records' : Named(n, records'[n].moves)
  BY <1>1, <1>2 DEF BooksInv, NamesInv, RecordsNamed
<1>4. RecordsNamed'
  BY <1>0, <1>3, RecordsStayNamed
<1>5. TallyNamed'
  <2>1. RecordsGoOn
    <3>1. \A n \in DOMAIN records : records[n].moves \in Nat
      BY <1>0, RecordFields DEF DiskTyped
    <3> QED
      BY <1>1, <1>2, <3>1 DEF BooksInv, NamesInv, RecordsNamed, RecordsGoOn
  <2> DEFINE new == {visit}
  <2>2. DOMAIN tally' \subseteq DOMAIN tally \cup new
    BY DEF Written
  <2>3. \A v \in new : \E n \in DOMAIN records', k \in Nat :
          v = Visit(n, k) /\ Named(n, k) /\ records'[n].moves = k
    BY <1>1, <1>2
  <2> HIDE DEF new
  <2> QED
    BY <1>0, <2>1, <2>2, <2>3, TallyStaysNamed DEF BooksInv, NamesInv
<1>6. \A v : v # visit => Tally(v)' = Tally(v)
  BY DEF Written
<1>7. RecordsAgree'
  <2> SUFFICES ASSUME NEW n \in DOMAIN records'
               PROVE  Agrees(records[n], Tally(Visit(n, records[n].moves)))'
    BY DEF RecordsAgree
  <2>1. CASE n = name
    BY <1>1, <2>1 DEF Agrees
  <2>2. CASE n # name
    <3>1. n \in DOMAIN records /\ records'[n] = records[n]
      BY <1>1, <2>2
    <3>2. Named(n, records[n].moves) /\ Agrees(records[n], Tally(Visit(n, records[n].moves)))
      BY <3>1 DEF BooksInv, NamesInv, RecordsNamed, RecordsAgree
    <3>3. Visit(n, records[n].moves) # visit
      BY <1>2, <2>2, <3>2, SameVisit
    <3>4. Tally(Visit(n, records[n].moves))' = Tally(Visit(n, records[n].moves))
      <4>1. PICK v : v = Visit(n, records[n].moves)
        OBVIOUS
      <4>2. Tally(v)' = Tally(v)
        BY <1>6, <3>3, <4>1
      <4> QED
        BY <3>1, <4>1, <4>2 DEF Visit
    <3> QED
      BY <3>1, <3>2, <3>4 DEF Agrees
  <2> QED
    BY <2>1, <2>2
<1>8. SpawnsAreBounded'
  <2>1. \A v : Bounded(Tally(v))
    BY BoundedVisits DEF BooksInv
  <2>2. SUFFICES ASSUME NEW v \in DOMAIN tally'
                 PROVE  Bounded(Tally(v))' /\ Tally(v)' = tally'[v]
    BY <2>2 DEF SpawnsAreBounded, Bounded
  <2>3. Tally(v)' = tally'[v]
    BY DEF Tally
  <2>4. CASE v = visit
    BY <2>3, <2>4
  <2>5. CASE v # visit
    BY <1>0, <1>6, <2>1, <2>3, <2>5 DEF Bounded
  <2> QED
    BY <2>3, <2>4, <2>5
<1> QED
  BY <1>4, <1>5, <1>7, <1>8

\* What is written for one arm leaves the other workers' records alone.
LEMMA OthersStand ==
    ASSUME BooksInv, NEW name, NEW record, Written(name, record),
           NEW p \in DOMAIN workers, workers'[p] = workers[p], workers[p].ending = "running",
           workers[p].name # name, \A m, n : Visit(workers[p].name, m) # Visit(name, n)
    PROVE  UpToDate(workers[p])'
<1> DEFINE own == workers[p].name
           planned == workers[p].planned
<1>1. UpToDate(workers[p])
  BY DEF BooksInv, WorkersStand
<1>2. start' = start
  BY DEF Written
<1>3. /\ own \in DOMAIN records' <=> own \in DOMAIN records
      /\ own \in DOMAIN records => records'[own] = records[own]
  BY DEF Written, With
<1>4. Visit(own, planned.moves) \notin DOMAIN tally => Visit(own, planned.moves) \notin DOMAIN tally'
  BY DEF Written
<1> HIDE DEF own, planned
<1>5. workers'[p].name = own /\ workers'[p].planned = planned
      /\ workers[p].name = own /\ workers[p].planned = planned
  BY DEF own, planned
<1>6. CASE OfVisit(own, planned.moves)
  BY <1>1, <1>2, <1>3, <1>5, <1>6 DEF UpToDate, OfVisit
<1>7. CASE ~OfVisit(own, planned.moves)
  BY <1>1, <1>2, <1>3, <1>4, <1>5, <1>7 DEF UpToDate, OfVisit, Visit, Blank
<1> QED
  BY <1>6, <1>7

\* The charge of a worker that ended comes to the record it was planned by, and
\* to the grants made since.
LEMMA ClosedBooks ==
    ASSUME SpawnTyped, SpawnTyped', BooksInv, TrailGrows, NEW pair, NEW paid, Closed(pair, paid)
    PROVE  BooksInv'
<1> DEFINE worker == workers[pair]
           name == worker.name
           m == worker.planned.moves
           record == Persisted(worker, paid)
           visit == Visit(name, m)
<1>0. DiskTyped /\ DiskTyped' /\ start' = start
  BY DEF SpawnTyped, TrailGrows
<1>1. /\ pair \in DOMAIN workers /\ worker.ending = "running" /\ paid \in {0, 1}
      /\ DOMAIN workers' = DOMAIN workers
      /\ \A p \in DOMAIN workers \ {pair} : workers'[p] = workers[p]
      /\ workers'[pair].in = worker.in /\ workers'[pair].name = worker.name
      /\ workers'[pair].planned = worker.planned /\ workers'[pair].ending # "running"
      /\ UNCHANGED <<start, trail>>
  BY DEF Closed
<1>2. WorkersNamed'
  <2>1. \A p \in DOMAIN workers' : WorkerNamed(p)'
    BY <1>1, WorkerStaysNamed DEF WorkerStays, BooksInv, NamesInv
  <2> QED
    BY <2>1 DEF WorkersNamed, WorkerNamed
<1>3. Employed(worker) /\ Named(name, m) /\ UpToDate(worker)
  BY <1>1, WorkersAreNamed DEF SpawnTyped, WorkersTyped, BooksInv, NamesInv, WorkersStand
<1>4. CASE UNCHANGED <<records, tally>>
  <2>1. RecordsNamed'
    BY <1>0, <1>4, RecordsStayNamed DEF BooksInv, NamesInv, RecordsNamed
  <2>2. TallyNamed'
    BY <1>0, <1>4, TallyRests DEF BooksInv, NamesInv
  <2>3. TallyTyped' /\ RecordsAgree' /\ SpawnsAreBounded'
    BY <1>0, <1>4 DEF BooksInv, TallyTyped, RecordsAgree, SpawnsAreBounded, Tally
  <2>4. WorkersStand'
    BY <1>0, <1>1, <1>4 DEF BooksInv, WorkersStand, UpToDate, OfVisit
  <2> QED
    BY <1>2, <2>1, <2>2, <2>3, <2>4 DEF BooksInv, NamesInv
<1>5. CASE records' = With(records, name, record) /\ tally' = Tallied(visit, "costly", paid)
  <2> DEFINE stored == IF OfVisit(name, m) THEN records[name] ELSE worker.planned
  <2>1. /\ stored \in Record /\ record \in Record /\ record.moves = m
        /\ record.attempt = worker.planned.attempt + 1
        /\ record.charged = stored.charged + paid
        /\ record.grants = stored.grants /\ record.unavailable = stored.unavailable
    BY <1>0, <1>1, <1>3, PersistedFields
  <2>2. PICK n, r, v : n = name /\ r = record /\ v = visit
    OBVIOUS
  <2>3. PICK d \in {0, 1} : d = paid
    BY <1>1
  <2>4. tally' = Tallied(v, "costly", d) /\ d \in Nat
    BY <1>5, <2>2, <2>3
  <2>5. /\ TallyTyped' /\ DOMAIN tally \subseteq DOMAIN tally'
        /\ DOMAIN tally' \subseteq DOMAIN tally \cup {v}
        /\ \A w : w # v => Tally(w)' = Tally(w)
        /\ Tally(v)'.granted = Tally(v).granted
        /\ Tally(v)'.costly = Tally(v).costly + d
        /\ Tally(v)'.forgiven = Tally(v).forgiven
    <3>1. Tally(v) \in Account /\ Tally(v).forgiven + 0 = Tally(v).forgiven
      BY TallyIsTyped, AccountFields DEF BooksInv
    <3> QED
      BY <2>4, <3>1, TalliedParts DEF BooksInv
  <2>6. /\ stored.charged = worker.planned.charged
        /\ stored.charged <= worker.planned.attempt
        /\ stored.charged < Max(Attempts[start]) + stored.grants
        /\ stored.charged = Tally(v).costly - Tally(v).forgiven
        /\ stored.grants = Tally(v).granted
        /\ Tally(v).forgiven <= stored.unavailable
    <3> DEFINE planned == worker.planned
    <3>1. /\ planned.charged <= planned.attempt
          /\ planned.charged < Max(Attempts[start]) + planned.grants
          /\ planned.charged \in Int /\ planned.grants \in Nat /\ Max(Attempts[start]) \in Nat
      BY <1>0, <1>3, MostAllowed, RecordFields DEF Employed, UpToDate, DiskTyped
    <3>2. CASE OfVisit(name, m)
      <4>1. stored = records[name] /\ name \in DOMAIN records /\ records[name].moves = m
        BY <3>2 DEF OfVisit
      <4>2. stored.charged = planned.charged /\ stored.grants >= planned.grants
        BY <1>3, <3>2, <4>1 DEF UpToDate
      <4>3. Agrees(stored, Tally(v))
        BY <2>2, <4>1 DEF BooksInv, RecordsAgree
      <4>4. stored.grants \in Nat
        BY <2>1, RecordFields
      <4> HIDE DEF stored, planned
      <4>5. stored.charged < Max(Attempts[start]) + stored.grants
        BY <3>1, <4>2, <4>4
      <4> QED
        BY <3>1, <4>2, <4>3, <4>5 DEF Agrees, planned
    <3>3. CASE ~OfVisit(name, m)
      <4>1. stored = planned /\ planned = Blank(m) /\ v \notin DOMAIN tally
        BY <1>3, <2>2, <3>3 DEF UpToDate
      <4>2. Tally(v).costly = 0 /\ Tally(v).forgiven = 0 /\ Tally(v).granted = 0
        BY <4>1 DEF Tally, NoTally
      <4>3. stored.charged = 0 /\ stored.grants = 0 /\ stored.unavailable = 0
        BY <4>1 DEF Blank
      <4> HIDE DEF stored
      <4> QED
        BY <3>1, <4>1, <4>2, <4>3
    <3> QED
      BY <3>2, <3>3
  <2>7. /\ Tally(v) \in Account /\ Tally(v).costly \in Nat /\ Tally(v).forgiven \in Nat
        /\ Tally(v).granted \in Nat /\ Max(Attempts[start]) \in Nat
        /\ stored.charged \in Int /\ worker.planned.attempt \in Nat
    BY <1>0, <1>3, <2>1, MostAllowed, RecordFields, TallyIsTyped, AccountFields
       DEF BooksInv, DiskTyped, Employed
  <2> HIDE DEF stored
  <2>8. r.charged = stored.charged + d /\ r.attempt = worker.planned.attempt + 1
        /\ r.grants = stored.grants /\ r.unavailable = stored.unavailable /\ r.moves = m /\ r \in Record
    BY <2>1, <2>2, <2>3
  <2>9. Agrees(r, Tally(v)')
    BY <2>5, <2>6, <2>7, <2>8 DEF Agrees
  <2>10. Bounded(Tally(v))'
    <3>1. Tally(v).forgiven <= Free
      BY BoundedVisits DEF BooksInv, Bounded
    <3> QED
      BY <1>0, <2>5, <2>6, <2>7, <3>1 DEF Bounded
  <2>11. Written(n, r) /\ v = Visit(n, r.moves)
    <3>1. v = Visit(n, r.moves)
      BY <2>2, <2>8
    <3>2. name \in DOMAIN records => records[name].moves <= m
      BY <1>3 DEF UpToDate
    <3> QED
      BY <1>1, <1>3, <1>5, <2>2, <2>5, <2>8, <3>1, <3>2 DEF Written
  <2>12. RecordsNamed' /\ TallyNamed' /\ RecordsAgree' /\ SpawnsAreBounded'
    BY <2>9, <2>10, <2>11, WrittenBooks
  <2>13. WorkersStand'
    <3> SUFFICES ASSUME NEW p \in DOMAIN workers', workers'[p].ending = "running"
                 PROVE  UpToDate(workers[p])'
      BY DEF WorkersStand
    <3>1. p # pair /\ p \in DOMAIN workers /\ workers'[p] = workers[p]
      BY <1>1
    <3>2. workers[p].name # n /\ \A k, l : Visit(workers[p].name, k) # Visit(n, l)
      BY <1>1, <2>2, <3>1, WorkersAreApart DEF BooksInv, NamesInv
    <3> QED
      BY <2>11, <3>1, <3>2, OthersStand
  <2> QED
    BY <1>2, <2>5, <2>12, <2>13 DEF BooksInv, NamesInv
<1> QED
  BY <1>4, <1>5 DEF Closed

\* What is given back is of the visit that the record there is of, whichever
\* that is by now.
LEMMA JudgedBooks ==
    ASSUME SpawnTyped, SpawnTyped', BooksInv, TrailGrows, NEW pair, Judged(pair)
    PROVE  BooksInv'
<1> DEFINE worker == workers[pair]
           name == worker.name
           back == GivenBack(records[name], worker.ending)
           visit == Visit(name, back.moves)
<1>0. DiskTyped /\ DiskTyped' /\ start' = start
  BY DEF SpawnTyped, TrailGrows
<1>1. /\ pair \in DOMAIN workers /\ DOMAIN workers' = DOMAIN workers \ {pair}
      /\ \A p \in DOMAIN workers' : workers'[p] = workers[p]
      /\ UNCHANGED <<start, trail>>
  BY DEF Judged, Without
<1>2. WorkersNamed'
  <2>1. \A p \in DOMAIN workers' : WorkerNamed(p)'
    BY <1>1, WorkerStaysNamed DEF WorkerStays, BooksInv, NamesInv
  <2> QED
    BY <2>1 DEF WorkersNamed, WorkerNamed
<1>3. CASE UNCHANGED <<records, tally>>
  <2>1. RecordsNamed'
    BY <1>0, <1>3, RecordsStayNamed DEF BooksInv, NamesInv, RecordsNamed
  <2>2. TallyNamed'
    BY <1>0, <1>3, TallyRests DEF BooksInv, NamesInv
  <2>3. TallyTyped' /\ RecordsAgree' /\ SpawnsAreBounded'
    BY <1>0, <1>3 DEF BooksInv, TallyTyped, RecordsAgree, SpawnsAreBounded, Tally
  <2>4. WorkersStand'
    BY <1>0, <1>1, <1>3 DEF BooksInv, WorkersStand, UpToDate, OfVisit
  <2> QED
    BY <1>2, <2>1, <2>2, <2>3, <2>4 DEF BooksInv, NamesInv
<1>4. CASE /\ name \in DOMAIN records
           /\ records' = With(records, name, back)
           /\ tally' = Tallied(visit, "forgiven", records[name].charged - back.charged)
  <2> DEFINE old == records[name]
  <2>1. /\ back \in Record
        /\ back.moves = old.moves /\ back.attempt = old.attempt
        /\ back.grants = old.grants
        /\ back.unavailable = old.unavailable + 1
        /\ \/ back.charged = old.charged
           \/ back.charged = old.charged - 1 /\ back.unavailable <= Free
        /\ old \in Record
    BY <1>0, <1>4, GivenBackFields DEF DiskTyped
  <2>2. /\ old.charged \in Int /\ old.attempt \in Nat /\ old.grants \in Nat /\ old.unavailable \in Nat
        /\ old.moves \in Nat
    BY <2>1, RecordFields
  <2>3. PICK n, r, v : n = name /\ r = back /\ v = visit
    OBVIOUS
  <2>4. PICK d \in {0, 1} : d = old.charged - back.charged /\ (d = 1 => back.unavailable <= Free)
    <3> HIDE DEF old, back
    <3>1. CASE back.charged = old.charged
      BY <2>2, <3>1
    <3>2. CASE back.charged = old.charged - 1 /\ back.unavailable <= Free
      BY <2>2, <3>2
    <3> QED
      BY <2>1, <3>1, <3>2
  <2>5. tally' = Tallied(v, "forgiven", d) /\ d \in Nat
    BY <1>4, <2>3, <2>4
  <2>6. /\ TallyTyped' /\ DOMAIN tally \subseteq DOMAIN tally'
        /\ DOMAIN tally' \subseteq DOMAIN tally \cup {v}
        /\ \A w : w # v => Tally(w)' = Tally(w)
        /\ Tally(v)'.granted = Tally(v).granted
        /\ Tally(v)'.costly = Tally(v).costly
        /\ Tally(v)'.forgiven = Tally(v).forgiven + d
    <3>1. Tally(v) \in Account /\ Tally(v).costly + 0 = Tally(v).costly
      BY TallyIsTyped, AccountFields DEF BooksInv
    <3> QED
      BY <2>5, <3>1, TalliedParts DEF BooksInv
  <2>7. Agrees(old, Tally(v))
    BY <1>4, <2>1, <2>3 DEF BooksInv, RecordsAgree
  <2>8. /\ Tally(v).costly \in Nat /\ Tally(v).forgiven \in Nat
        /\ Tally(v).granted \in Nat /\ Max(Attempts[start]) \in Nat /\ Free \in Nat
    <3>1. Tally(v) \in Account
      BY TallyIsTyped DEF BooksInv
    <3> QED
      BY <1>0, <3>1, MostAllowed, AccountFields, SpawnAssumption DEF DiskTyped
  <2>9. Named(name, old.moves)
    BY <1>4 DEF BooksInv, NamesInv, RecordsNamed
  <2> HIDE DEF old
  <2>10. /\ r.charged = old.charged - d /\ r.attempt = old.attempt /\ r.grants = old.grants
         /\ r.unavailable = old.unavailable + 1 /\ r.moves = old.moves /\ r \in Record
         /\ (d = 1 => r.unavailable <= Free)
    <3> HIDE DEF back
    <3>1. back.charged \in Int
      BY <2>1, RecordFields
    <3>2. back.charged = old.charged - d
      BY <2>2, <2>4, <3>1
    <3> QED
      BY <2>1, <2>3, <2>4, <3>2
  <2>11. Agrees(r, Tally(v)')
    BY <2>2, <2>6, <2>7, <2>8, <2>10 DEF Agrees
  <2>12. Bounded(Tally(v))'
    <3>1. Bounded(Tally(v))
      BY BoundedVisits DEF BooksInv
    <3>2. d = 1 => Tally(v).forgiven + 1 <= Free
      BY <2>2, <2>7, <2>8, <2>10 DEF Agrees
    <3>3. Tally(v)'.forgiven <= Free
      BY <2>6, <2>8, <3>1, <3>2 DEF Bounded
    <3> QED
      BY <1>0, <2>6, <2>8, <3>1, <3>3 DEF Bounded
  <2>13. Written(n, r) /\ v = Visit(n, r.moves)
    <3>1. v = Visit(n, r.moves)
      BY <2>1, <2>3, <2>10
    <3>2. name \in DOMAIN records => records[name].moves <= r.moves
      BY <2>2, <2>10 DEF old
    <3> QED
      BY <1>1, <1>4, <2>3, <2>6, <2>9, <2>10, <3>1, <3>2 DEF Written
  <2>14. RecordsNamed' /\ TallyNamed' /\ RecordsAgree' /\ SpawnsAreBounded'
    BY <2>11, <2>12, <2>13, WrittenBooks
  <2>15. WorkersStand'
    <3> SUFFICES ASSUME NEW p \in DOMAIN workers', workers'[p].ending = "running"
                 PROVE  UpToDate(workers[p])'
      BY DEF WorkersStand
    <3>1. p # pair /\ p \in DOMAIN workers /\ workers'[p] = workers[p]
      BY <1>1
    <3>2. workers[p].name # n /\ \A k, l : Visit(workers[p].name, k) # Visit(n, l)
      BY <1>1, <2>3, <3>1, WorkersAreApart DEF BooksInv, NamesInv
    <3> QED
      BY <2>13, <3>1, <3>2, OthersStand
  <2> QED
    BY <1>2, <2>6, <2>14, <2>15 DEF BooksInv, NamesInv
<1> QED
  BY <1>3, <1>4 DEF Judged

\* A grant is counted in the record of a visit that is not left, so that it
\* meets whatever its worker has planned by.
LEMMA GrantedBooks ==
    ASSUME SpawnTyped, SpawnTyped', BooksInv, TrailGrows,
           NEW t \in Ticket, NEW more0, NEW exhausted0, Granted(t, more0, exhausted0)
    PROVE  BooksInv'
<1>0. DiskTyped /\ DiskTyped' /\ start' = start
  BY DEF SpawnTyped, TrailGrows
<1>1. PICK more, exhausted : more = more0 /\ exhausted = exhausted0
  OBVIOUS
<1>1a. more \in Nat
  BY <1>1 DEF Granted
<1>2. PICK m \in Nat : m = Moves(t)
  BY <1>0, AtIsState
<1>3. PICK visits : visits = {Visit(n, m) : n \in exhausted}
  OBVIOUS
<1>4. /\ \A n \in exhausted : n \in DOMAIN records /\ records[n].moves = m /\ Named(n, m)
      /\ DOMAIN records' = DOMAIN records
      /\ \A n \in exhausted : records'[n] = [records[n] EXCEPT !.grants = @ + more]
      /\ \A n \in DOMAIN records \ exhausted : records'[n] = records[n]
      /\ DOMAIN tally' = DOMAIN tally \cup visits
      /\ \A v \in visits : tally'[v] = [Tally(v) EXCEPT !.granted = @ + more]
      /\ \A v \in DOMAIN tally \ visits : tally'[v] = tally[v]
      /\ UNCHANGED <<start, trail, workers>>
  <2>1. /\ records' = [n \in DOMAIN records |->
                          IF n \in exhausted THEN [records[n] EXCEPT !.grants = @ + more] ELSE records[n]]
        /\ tally' = [v \in DOMAIN tally \cup visits |->
                        IF v \in visits THEN [Tally(v) EXCEPT !.granted = @ + more] ELSE tally[v]]
        /\ UNCHANGED <<start, trail, workers>>
    BY <1>1, <1>2, <1>3 DEF Granted
  <2>2. \A n \in exhausted : n \in DOMAIN records /\ records[n].moves = m
    BY <1>1, <1>2 DEF Granted, OfVisit
  <2>3. \A n \in exhausted : Named(n, m)
    <3> SUFFICES ASSUME NEW n \in exhausted PROVE Named(n, m)
      OBVIOUS
    <3>1. PICK arm \in Arm : n = Name(t, At(t), arm)
      BY <1>1 DEF Granted
    <3>2. At(t) \in State /\ n = NameBy(t, At(t), m, arm)
      BY <1>0, <1>2, <3>1, AtIsState, NameOfNow
    <3> QED
      BY <1>2, <3>2 DEF Named
  <2> QED
    BY <2>1, <2>2, <2>3
<1>5. \A n \in exhausted :
        /\ records[n] \in Record
        /\ records'[n].moves = m /\ records'[n].attempt = records[n].attempt
        /\ records'[n].charged = records[n].charged /\ records'[n].unavailable = records[n].unavailable
        /\ records'[n].grants = records[n].grants + more
  <2> SUFFICES ASSUME NEW n \in exhausted
               PROVE  /\ records[n] \in Record
                      /\ records'[n].moves = m /\ records'[n].attempt = records[n].attempt
                      /\ records'[n].charged = records[n].charged
                      /\ records'[n].unavailable = records[n].unavailable
                      /\ records'[n].grants = records[n].grants + more
    OBVIOUS
  <2>1. PICK old \in Record : old = records[n]
    BY <1>0, <1>4 DEF DiskTyped
  <2>2. records'[n] = [old EXCEPT !.grants = @ + more]
    BY <1>4, <2>1
  <2> QED
    BY <1>1a, <1>4, <2>1, <2>2, GrantedFields
<1>6. \A v \in visits :
        /\ Tally(v)' \in Account
        /\ Tally(v)'.costly = Tally(v).costly /\ Tally(v)'.forgiven = Tally(v).forgiven
        /\ Tally(v)'.granted = Tally(v).granted + more
  <2> SUFFICES ASSUME NEW v \in visits
               PROVE  /\ Tally(v)' \in Account
                      /\ Tally(v)'.costly = Tally(v).costly /\ Tally(v)'.forgiven = Tally(v).forgiven
                      /\ Tally(v)'.granted = Tally(v).granted + more
    OBVIOUS
  <2>1. Tally(v)' = [Tally(v) EXCEPT !.granted = @ + more]
    BY <1>4 DEF Tally
  <2>2. PICK old \in Account : old = Tally(v)
    BY TallyIsTyped DEF BooksInv
  <2>3. /\ DOMAIN old = {"costly", "forgiven", "granted"} /\ old.granted + more \in Nat
        /\ old.costly \in Nat /\ old.forgiven \in Nat /\ old.granted \in Nat
    BY <1>1a, AccountFields
  <2> DEFINE new == [old EXCEPT !.granted = @ + more]
  <2>4. new.costly = old.costly /\ new.forgiven = old.forgiven /\ new.granted = old.granted + more
    BY <2>3
  <2>5. new = [costly |-> new.costly, forgiven |-> new.forgiven, granted |-> new.granted]
    BY <2>3
  <2> HIDE DEF new
  <2>6. new \in Account
    BY <2>3, <2>4, <2>5 DEF Account
  <2> QED
    BY <2>1, <2>2, <2>4, <2>6 DEF new
<1>7. \A v : v \notin visits => Tally(v)' = Tally(v)
  BY <1>4 DEF Tally
<1>8. TallyTyped'
  <2> SUFFICES ASSUME NEW v \in DOMAIN tally' PROVE tally'[v] \in Account
    BY DEF TallyTyped, Account
  <2>1. CASE v \in visits
    BY <1>6, <2>1 DEF Tally
  <2>2. CASE v \notin visits
    BY <1>4, <2>2 DEF BooksInv, TallyTyped
  <2> QED
    BY <2>1, <2>2
<1>9. \A n \in DOMAIN records : records'[n].moves = records[n].moves /\ Named(n, records[n].moves)
                                /\ records[n].moves \in Nat
  <2>1. \A n \in DOMAIN records : Named(n, records[n].moves) /\ records[n].moves \in Nat
    BY <1>0, RecordFields DEF BooksInv, NamesInv, RecordsNamed, DiskTyped
  <2> QED
    BY <1>4, <1>5, <2>1
<1>10. RecordsNamed'
  <2>1. \A n \in DOMAIN records' : Named(n, records'[n].moves)
    BY <1>4, <1>9
  <2> QED
    BY <1>0, <2>1, RecordsStayNamed
<1>11. WorkersNamed'
  <2>1. \A p \in DOMAIN workers' : WorkerNamed(p)'
    BY <1>4, WorkerStaysNamed DEF WorkerStays, BooksInv, NamesInv
  <2> QED
    BY <2>1 DEF WorkersNamed, WorkerNamed
<1>12. TallyNamed'
  <2>1. RecordsGoOn
    BY <1>4, <1>9 DEF RecordsGoOn
  <2>2. DOMAIN tally' \subseteq DOMAIN tally \cup visits
    BY <1>4
  <2>3. \A v \in visits : \E n \in DOMAIN records', k \in Nat :
          v = Visit(n, k) /\ Named(n, k) /\ records'[n].moves = k
    BY <1>3, <1>4, <1>5
  <2> QED
    BY <1>0, <2>1, <2>2, <2>3, TallyStaysNamed DEF BooksInv, NamesInv
<1>13. RecordsAgree'
  <2> SUFFICES ASSUME NEW n \in DOMAIN records'
               PROVE  Agrees(records[n], Tally(Visit(n, records[n].moves)))'
    BY DEF RecordsAgree
  <2>1. PICK k \in Nat : k = records[n].moves /\ k = records'[n].moves /\ Named(n, k)
    BY <1>4, <1>9
  <2>2. PICK v : v = Visit(n, k)
    OBVIOUS
  <2>3. Agrees(records[n], Tally(v)) /\ Tally(v) \in Account
    BY <1>4, <2>1, <2>2, TallyIsTyped DEF BooksInv, RecordsAgree
  <2>4. Agrees(records'[n], Tally(v)')
    <3>1. CASE n \in exhausted
      <4>1. v \in visits
        BY <1>3, <1>4, <2>1, <2>2, <3>1
      <4>2. records[n].grants \in Nat /\ Tally(v).granted \in Nat
        BY <1>5, <2>3, <3>1, RecordFields, AccountFields
      <4> QED
        BY <1>1a, <1>5, <1>6, <2>3, <3>1, <4>1, <4>2 DEF Agrees
    <3>2. CASE n \notin exhausted
      <4>1. v \notin visits
        <5>1. SUFFICES ASSUME v \in visits PROVE FALSE
          OBVIOUS
        <5>2. PICK n2 \in exhausted : v = Visit(n2, m)
          BY <1>3, <5>1
        <5>3. Named(n2, m) /\ Visit(n, k) = Visit(n2, m)
          BY <1>4, <2>2, <5>2
        <5>4. n = n2
          BY <2>1, <5>3, SameVisit
        <5> QED
          BY <3>2, <5>4
      <4> QED
        BY <1>4, <1>7, <2>3, <3>2, <4>1
    <3> QED
      BY <3>1, <3>2
  <2>5. Visit(n, records[n].moves)' = v
    BY <2>1, <2>2 DEF Visit
  <2> QED
    BY <2>4, <2>5 DEF Agrees, Tally
<1>14. SpawnsAreBounded'
  <2>1. \A v : Bounded(Tally(v))
    BY BoundedVisits DEF BooksInv
  <2>2. Max(Attempts[start]) \in Nat
    BY <1>0, MostAllowed DEF DiskTyped
  <2> SUFFICES ASSUME NEW v \in DOMAIN tally'
               PROVE  Bounded(Tally(v))' /\ Tally(v)' = tally'[v]
    BY DEF SpawnsAreBounded, Bounded
  <2>3. Tally(v)' = tally'[v]
    BY DEF Tally
  <2>4. CASE v \in visits
    <3>1. Tally(v) \in Account
      BY TallyIsTyped DEF BooksInv
    <3>2. Tally(v).costly \in Nat /\ Tally(v).forgiven \in Nat /\ Tally(v).granted \in Nat
      BY <3>1, AccountFields
    <3> QED
      BY <1>0, <1>1a, <1>6, <2>1, <2>2, <2>3, <2>4, <3>2 DEF Bounded
  <2>5. CASE v \notin visits
    BY <1>0, <1>7, <2>1, <2>3, <2>5 DEF Bounded
  <2> QED
    BY <2>3, <2>4, <2>5
<1>15. WorkersStand'
  <2> SUFFICES ASSUME NEW p \in DOMAIN workers', workers'[p].ending = "running"
               PROVE  UpToDate(workers[p])'
    BY DEF WorkersStand
  <2>1. p \in DOMAIN workers /\ workers'[p] = workers[p] /\ UpToDate(workers[p])
        /\ Employed(workers[p]) /\ Named(workers[p].name, workers[p].planned.moves)
    BY <1>4, WorkersAreNamed DEF BooksInv, NamesInv, WorkersStand, SpawnTyped, WorkersTyped
  <2>2. PICK own, planned : own = workers[p].name /\ planned = workers[p].planned
    OBVIOUS
  <2>2a. planned \in Record
    BY <2>1, <2>2 DEF Employed
  <2>3. planned.grants \in Nat /\ planned.moves \in Nat
    BY <2>2a, RecordFields
  <2>4. own \in DOMAIN records =>
          /\ records'[own].moves = records[own].moves /\ records'[own].charged = records[own].charged
          /\ records'[own].grants >= records[own].grants /\ records[own].grants \in Nat
          /\ records'[own].grants \in Nat
    <3>1. own \in DOMAIN records => records[own].grants \in Nat
      BY <1>0, RecordFields DEF DiskTyped
    <3> QED
      BY <1>1a, <1>4, <1>5, <3>1
  <2>5. OfVisit(own, planned.moves)' <=> OfVisit(own, planned.moves)
    BY <1>4, <2>4 DEF OfVisit
  <2>6. CASE OfVisit(own, planned.moves)
    <3>1. /\ planned.charged <= planned.attempt
          /\ planned.charged < Max(Attempts[start]) + planned.grants
          /\ own \in DOMAIN records => records[own].moves <= planned.moves
          /\ records[own].charged = planned.charged
          /\ records[own].grants >= planned.grants /\ own \in DOMAIN records
      BY <2>1, <2>2, <2>6 DEF UpToDate, OfVisit
    <3>2. records'[own].grants >= planned.grants
      BY <2>3, <2>4, <3>1
    <3> QED
      BY <1>0, <1>4, <2>1, <2>2, <2>4, <2>5, <2>6, <3>1, <3>2 DEF UpToDate
  <2>7. CASE ~OfVisit(own, planned.moves)
    <3>1. /\ planned.charged <= planned.attempt
          /\ planned.charged < Max(Attempts[start]) + planned.grants
          /\ own \in DOMAIN records => records[own].moves <= planned.moves
          /\ planned = Blank(planned.moves)
          /\ Visit(own, planned.moves) \notin DOMAIN tally
      BY <2>1, <2>2, <2>7 DEF UpToDate
    <3>2. Visit(own, planned.moves) \notin visits
      <4>1. SUFFICES ASSUME Visit(own, planned.moves) \in visits PROVE FALSE
        OBVIOUS
      <4>2. PICK n \in exhausted : Visit(own, planned.moves) = Visit(n, m)
        BY <1>3, <4>1
      <4>3. Named(n, m) /\ Named(own, planned.moves) /\ n \in DOMAIN records /\ records[n].moves = m
        BY <1>4, <2>1, <2>2
      <4>4. own = n /\ planned.moves = m
        BY <4>2, <4>3, SameVisit
      <4> QED
        BY <2>7, <4>3, <4>4 DEF OfVisit
    <3>3. Visit(own, planned.moves) \notin DOMAIN tally'
      BY <1>4, <3>1, <3>2
    <3>4. Visit(own, planned.moves)' = Visit(own, planned.moves)
          /\ Blank(planned.moves)' = Blank(planned.moves)
      BY DEF Visit, Blank
    <3> QED
      BY <1>0, <1>4, <2>1, <2>2, <2>4, <2>5, <2>7, <3>1, <3>3, <3>4 DEF UpToDate
  <2> QED
    BY <2>6, <2>7
<1> QED
  BY <1>8, <1>10, <1>11, <1>12, <1>13, <1>14, <1>15 DEF BooksInv, NamesInv

LEMMA BooksStart == Init => BooksInv
<1> SUFFICES ASSUME Init PROVE BooksInv
  OBVIOUS
<1>1. records = <<>> /\ workers = <<>> /\ tally = <<>> /\ DOMAIN <<>> = {}
  BY DEF Init
<1>2. DOMAIN records = {} /\ DOMAIN workers = {} /\ DOMAIN tally = {}
  BY <1>1
<1> QED
  BY <1>2 DEF BooksInv, NamesInv, RecordsNamed, WorkersNamed, TallyNamed, TallyTyped, RecordsAgree,
              WorkersStand, SpawnsAreBounded

LEMMA BooksKeep == SpawnTyped /\ BooksInv /\ [Next]_vars => BooksInv'
<1> SUFFICES ASSUME SpawnTyped, BooksInv, [Next]_vars PROVE BooksInv'
  OBVIOUS
<1>1. SpawnTyped' /\ TrailGrows /\ BookStep
  BY TypesKeep, BookSteps
<1> QED
  BY <1>1, KeptBooks, HiredBooks, ClosedBooks, JudgedBooks, GrantedBooks DEF BookStep

-----------------------------------------------------------------------------
(* The waits.  What a ticket's provider said last is waited for in the     *)
(* state it is in, until it is past or a later worker was answered; and    *)
(* nothing is queued for a provider that one of its tickets waits for.     *)

HeardStands == \A t \in Ticket : heard[t] <= waits[t][At(t)] \/ heard[t] <= now

Rested(item) == \A u \in Open : Identity[At(u)] = Identity[item.in] => heard[u] <= now

QueueRests == \A i \in DOMAIN queue : Rested(queue[i])

ParkInv == HeardStands /\ QueueRests

\* A sequence of instants has one that none of them is after.
LEMMA InstantsAreBounded ==
    ASSUME NEW n \in Nat, NEW f \in [1..n -> Nat]
    PROVE  \E b \in Nat : \A i \in 1..n : f[i] <= b
<1> DEFINE Bound(k) == \E b \in Nat : \A i \in 1..k : f[i] <= b
           S == {k \in 0..n : ~Bound(k)}
<1>1. SUFFICES ASSUME S # {} PROVE FALSE
  <2>1. n \notin S
    BY <1>1
  <2>2. Bound(n)
    BY <2>1
  <2> QED
    BY <2>2
<1>2. S \in SUBSET Nat
  OBVIOUS
<1>3. PICK k \in S : \A j \in S : <<j, k>> \notin OpToRel(<, Nat)
  <2> HIDE DEF S
  <2> QED
    BY <1>1, <1>2, NatLessThanWellFounded, WFMin
<1>4. k \in 0..n /\ ~Bound(k)
  BY <1>3
<1>5. k # 0
  <2>1. 0 \in Nat /\ \A i \in 1..0 : f[i] <= 0
    OBVIOUS
  <2>2. Bound(0)
    BY <2>1
  <2> QED
    BY <1>4, <2>2
<1>6. k - 1 \in 0..n /\ k - 1 < k /\ k \in 1..n
  BY <1>4, <1>5
<1>7. k - 1 \notin S
  <2> HIDE DEF S
  <2> QED
    BY <1>2, <1>3, <1>6 DEF OpToRel
<1>8. PICK b \in Nat : \A i \in 1..(k - 1) : f[i] <= b
  BY <1>6, <1>7
<1>9. f[k] \in Nat /\ b + f[k] \in Nat
  BY <1>6
<1>10. \A i \in 1..k : f[i] <= b + f[k]
  <2> TAKE i \in 1..k
  <2>1. f[i] \in Nat
    BY <1>6
  <2>2. CASE i = k
    BY <1>9, <2>2
  <2>3. CASE i # k
    <3>1. i \in 1..(k - 1)
      BY <1>6, <2>3
    <3>2. f[i] <= b
      BY <1>8, <3>1
    <3> QED
      BY <1>9, <2>1, <3>2
  <2> QED
    BY <2>2, <2>3
<1>11. Bound(k)
  BY <1>9, <1>10
<1> QED
  BY <1>4, <1>11

\* A bounded set of instants has its largest.
LEMMA LargestOf ==
    ASSUME NEW S \in SUBSET Nat, 0 \in S, NEW b \in Nat, \A x \in S : x <= b
    PROVE  Max(S) \in Nat /\ \A x \in S : x <= Max(S)
<1> DEFINE B == {c \in Nat : \A x \in S : x <= c}
<1>1. B \in SUBSET Nat /\ B # {}
  OBVIOUS
<1>2. PICK c \in B : \A d \in B : <<d, c>> \notin OpToRel(<, Nat)
  <2> HIDE DEF B
  <2> QED
    BY <1>1, NatLessThanWellFounded, WFMin
<1>3. c \in Nat /\ \A x \in S : x <= c
  BY <1>2
<1>4. c \in S
  <2>1. SUFFICES ASSUME c \notin S PROVE FALSE
    OBVIOUS
  <2>2. c # 0 /\ c - 1 \in Nat
    BY <1>3, <2>1
  <2>3. \A x \in S : x <= c - 1
    BY <1>3, <2>1, <2>2
  <2>4. c - 1 \in B /\ c - 1 < c
    BY <1>3, <2>2, <2>3
  <2> HIDE DEF B
  <2> QED
    BY <1>1, <1>2, <2>4 DEF OpToRel
<1>5. Max(S) \in S /\ \A x \in S : Max(S) >= x
  <2>1. \E m \in S : \A x \in S : m >= x
    BY <1>3, <1>4
  <2> QED
    BY <2>1 DEF Max
<1> QED
  BY <1>5

\* A provider's deadline is none before that of a ticket of its.
LEMMA DeadlineIsLatest ==
    ASSUME DiskTyped, NEW id, NEW u \in Open, Identity[At(u)] = id
    PROVE  waits[u][At(u)] <= DeadlineOf(id) /\ DeadlineOf(id) \in Nat
<1> DEFINE of == {v \in Open : Identity[At(v)] = id}
           S == {0} \cup {waits[v][At(v)] : v \in of}
           f == [i \in 1..Len(Plan) |-> waits[Plan[i]][At(Plan[i])]]
<1>1. Plan \in Seq(Ticket) /\ Len(Plan) \in Nat /\ DOMAIN Plan = 1..Len(Plan)
  BY SpawnAssumption
<1>2. \A t \in Ticket : waits[t][At(t)] \in Nat
  BY AtIsState DEF DiskTyped
<1>3. \A i \in 1..Len(Plan) : Plan[i] \in Ticket
  BY <1>1
<1>4. f \in [1..Len(Plan) -> Nat]
  BY <1>2, <1>3
<1>5. PICK b \in Nat : \A i \in 1..Len(Plan) : f[i] <= b
  <2> HIDE DEF f
  <2> QED
    BY <1>1, <1>4, InstantsAreBounded
<1>6. \A t \in Ticket : waits[t][At(t)] <= b
  <2> TAKE t \in Ticket
  <2>1. PICK i \in 1..Len(Plan) : Plan[i] = t
    BY <1>1 DEF Ticket, Range
  <2> QED
    BY <1>5, <2>1
<1>7. of \subseteq Ticket /\ u \in of
  BY DEF Open
<1>8. S \in SUBSET Nat /\ 0 \in S /\ waits[u][At(u)] \in S
  <2> HIDE DEF of
  <2> QED
    BY <1>2, <1>7
<1>9. \A x \in S : x <= b
  <2> HIDE DEF of
  <2> QED
    BY <1>6, <1>7
<1>10. DeadlineOf(id) = Max(S)
  BY DEF DeadlineOf
<1> HIDE DEF S
<1>11. Max(S) \in Nat /\ \A x \in S : x <= Max(S)
  BY <1>8, <1>9, LargestOf
<1> QED
  BY <1>8, <1>10, <1>11

\* What is due is of a provider that no ticket waits for.
LEMMA DueRest ==
    ASSUME DiskTyped, HeardStands, NEW tickets \in SUBSET Ticket
    PROVE  \A i \in DOMAIN Due(tickets) : Rested(Due(tickets)[i])
<1> SUFFICES ASSUME NEW i \in DOMAIN Due(tickets), NEW u \in Open,
                    Identity[At(u)] = Identity[Due(tickets)[i].in]
             PROVE  heard[u] <= now
  BY DEF Rested
<1> DEFINE t == Due(tickets)[i].ticket
<1>1. t \in Ticket /\ Due(tickets)[i].in = At(t) /\ Deadline(t) <= now
  BY DueItems
<1> HIDE DEF t
<1>2. u \in Ticket /\ now \in Nat /\ heard[u] \in Nat /\ waits[u][At(u)] \in Nat
  <2>1. u \in Ticket
    BY DEF Open
  <2>2. now \in Nat
    BY SpawnAssumption DEF DiskTyped
  <2>3. At(u) \in State
    BY <2>1, AtIsState
  <2> QED
    BY <2>1, <2>2, <2>3 DEF DiskTyped
<1>3. Identity[At(u)] = Identity[At(t)]
  BY <1>1
<1>4. waits[u][At(u)] <= Deadline(t) /\ Deadline(t) \in Nat
  BY <1>3, DeadlineIsLatest DEF Deadline
<1> QED
  BY <1>1, <1>2, <1>4 DEF HeardStands

LEMMA MovedAt ==
    ASSUME DiskTyped, NEW t \in Ticket, NEW to \in State, Move(t, to), start' = start
    PROVE  At(t)' = to /\ \A u \in Ticket \ {t} : At(u)' = At(u)
<1>1. trail' = [trail EXCEPT ![t] = Append(trail[t], to)] /\ trail \in [Ticket -> Seq(State)]
  BY DEF Move, DiskTyped
<1>2. \A u \in Ticket \ {t} : trail'[u] = trail[u]
  BY <1>1
<1>3. trail'[t] = Append(trail[t], to) /\ trail[t] \in Seq(State)
  BY <1>1
<1>4. Append(trail[t], to) # <<>> /\ Last(Append(trail[t], to)) = to
  BY <1>3 DEF Last
<1> QED
  BY <1>2, <1>3, <1>4 DEF At

\* A move takes the visit's wait with it, and what was heard.
LEMMA MoveParks ==
    ASSUME DiskTyped, HeardStands, NEW t \in Ticket, NEW to \in State, Move(t, to),
           UNCHANGED <<now, start>>
    PROVE  HeardStands' /\ \A item : Rested(item) => Rested(item)'
<1>1. At(t)' = to /\ \A u \in Ticket \ {t} : At(u)' = At(u)
  BY MovedAt
<1>2. /\ waits' = [waits EXCEPT ![t][At(t)] = IF to = At(t) THEN waits[t][At(t)] ELSE 0]
      /\ heard' = [heard EXCEPT ![t] = IF to = At(t) THEN heard[t] ELSE 0]
  BY DEF Move, DiskTyped
<1>3. waits \in [Ticket -> [State -> Nat]] /\ heard \in [Ticket -> Nat] /\ now \in Nat
  BY SpawnAssumption DEF DiskTyped
<1>4. \A u \in Ticket \ {t} : heard'[u] = heard[u] /\ waits'[u] = waits[u]
  BY <1>2, <1>3
<1>5. CASE to = At(t)
  <2>1. heard'[t] = heard[t] /\ waits'[t][to] = waits[t][to]
    BY <1>2, <1>3, <1>5
  <2>2. \A u \in Ticket : At(u)' = At(u) /\ heard'[u] = heard[u] /\ waits'[u][At(u)] = waits[u][At(u)]
    BY <1>1, <1>4, <1>5, <2>1
  <2>3. HeardStands'
    BY <2>2 DEF HeardStands
  <2> QED
    BY <2>2, <2>3 DEF Rested, Open
<1>6. CASE to # At(t)
  <2>1. heard'[t] = 0
    BY <1>2, <1>3, <1>6
  <2>2. HeardStands'
    BY <1>1, <1>3, <1>4, <2>1 DEF HeardStands
  <2>3. ASSUME NEW item, Rested(item) PROVE Rested(item)'
    BY <1>1, <1>3, <1>4, <2>1, <2>3 DEF Rested, Open
  <2> QED
    BY <2>2, <2>3
<1> QED
  BY <1>5, <1>6

LEMMA WaitParks ==
    ASSUME DiskTyped, HeardStands, NEW t \in Ticket, NEW s \in State, NEW until \in Nat,
           Wait(t, s, until), UNCHANGED <<now, start, trail>>
    PROVE  HeardStands'
<1>0. /\ waits[t][s] \in Nat /\ heard[t] \in Nat /\ now \in Nat
      /\ waits \in [Ticket -> [State -> Nat]] /\ heard \in [Ticket -> Nat]
  BY SpawnAssumption DEF DiskTyped
<1> DEFINE longest == Max({waits[t][s], until})
           latest == Max({heard[t], until})
<1>1. longest \in Nat /\ longest >= waits[t][s] /\ longest >= until
  BY <1>0, MaxOfTwo
<1>2. latest \in {heard[t], until}
  BY <1>0, MaxOfTwo
<1>3. waits' = [waits EXCEPT ![t][s] = longest]
  BY DEF Wait, DiskTyped
<1>4. heard' = IF At(t) = s THEN [heard EXCEPT ![t] = latest] ELSE heard
  BY DEF Wait, DiskTyped
<1>5. \A u \in Ticket : At(u)' = At(u) /\ At(u) \in State
  BY AtIsState DEF At
<1> HIDE DEF longest, latest
<1> SUFFICES ASSUME NEW u \in Ticket PROVE heard'[u] <= waits'[u][At(u)] \/ heard'[u] <= now
  BY <1>5 DEF HeardStands
<1>6. heard[u] <= waits[u][At(u)] \/ heard[u] <= now
  BY DEF HeardStands
<1>7. CASE u = t /\ At(t) = s
  <2>1. heard'[u] = latest /\ waits'[u][At(u)] = longest
    BY <1>0, <1>3, <1>4, <1>7
  <2> QED
    BY <1>0, <1>1, <1>2, <1>6, <1>7, <2>1
<1>8. CASE ~(u = t /\ At(t) = s)
  <2>1. heard'[u] = heard[u] /\ waits'[u][At(u)] = waits[u][At(u)]
    BY <1>0, <1>3, <1>4, <1>5, <1>8
  <2> QED
    BY <1>6, <2>1
<1> QED
  BY <1>7, <1>8

\* A wait that is cleared was past as its worker started.
LEMMA ResumesParks ==
    ASSUME DiskTyped, HeardStands, NEW t \in Ticket, NEW worker, worker.in \in State,
           worker.started \in 0..now, waits' = Resumes(t, worker), UNCHANGED <<now, start, trail, heard>>
    PROVE  HeardStands'
<1>0. /\ now \in Nat /\ waits \in [Ticket -> [State -> Nat]] /\ heard \in [Ticket -> Nat]
  BY SpawnAssumption DEF DiskTyped
<1>1. waits' = [waits EXCEPT ![t][worker.in] = IF worker.started >= waits[t][worker.in] THEN 0
                                              ELSE waits[t][worker.in]]
  BY DEF Resumes, DiskTyped
<1>2. \A u \in Ticket : At(u)' = At(u) /\ At(u) \in State
  BY AtIsState DEF At
<1> SUFFICES ASSUME NEW u \in Ticket PROVE heard[u] <= waits'[u][At(u)] \/ heard[u] <= now
  BY <1>2 DEF HeardStands
<1>3. /\ heard[u] <= waits[u][At(u)] \/ heard[u] <= now
      /\ heard[u] \in Nat /\ waits[u][At(u)] \in Nat
  BY <1>0, <1>2 DEF HeardStands
<1>4. waits'[u][At(u)] = waits[u][At(u)] \/ worker.started >= waits[u][At(u)]
  BY <1>0, <1>1, <1>2
<1> QED
  BY <1>0, <1>3, <1>4

ParkedAsIs ==
    /\ UNCHANGED <<start, trail, waits, heard>> /\ now <= now'
    /\ \/ queue' \in {queue, <<>>}
       \/ pc = "fill" /\ queue' = Tail(queue)
       \/ now' = now /\ \E tickets \in SUBSET Ticket : queue' = Due(tickets)

\* A step that says and clears no wait, and queues what is due if anything.
LEMMA AsIsParks ==
    ASSUME SpawnTyped, SpawnTyped', ParkInv, ParkedAsIs
    PROVE  ParkInv'
<1>1. DiskTyped /\ UNCHANGED <<start, trail, waits, heard>> /\ now <= now' /\ now \in Nat /\ now' \in Nat
  BY SpawnAssumption DEF SpawnTyped, DiskTyped, ParkedAsIs
<1>2. \A u \in Ticket : At(u)' = At(u) /\ heard[u] \in Nat /\ waits[u][At(u)] \in Nat
  BY <1>1, AtIsState DEF At, DiskTyped
<1>3. HeardStands'
  BY <1>1, <1>2 DEF ParkInv, HeardStands
<1>4. ASSUME NEW item, Rested(item) PROVE Rested(item)'
  BY <1>1, <1>2, <1>4 DEF Rested, Open
<1>5. QueueRests'
  <2>1. CASE queue' = queue
    BY <1>4, <2>1 DEF ParkInv, QueueRests
  <2>2. CASE queue' = <<>>
    <3>1. DOMAIN <<>> = {}
      OBVIOUS
    <3> QED
      BY <2>2, <3>1 DEF QueueRests
  <2>3. CASE pc = "fill" /\ queue' = Tail(queue)
    <3>1. queue # <<>> /\ queue \in Seq(Item)
      BY <2>3 DEF SpawnTyped, PlacesStand, BatchTyped, Item
    <3>2. \A i \in DOMAIN Tail(queue) : i + 1 \in DOMAIN queue /\ Tail(queue)[i] = queue[i + 1]
      BY <3>1
    <3>3. \A i \in DOMAIN queue' : Rested(queue'[i])
      BY <2>3, <3>2 DEF ParkInv, QueueRests
    <3> SUFFICES ASSUME NEW i \in DOMAIN queue' PROVE Rested(queue[i])'
      BY DEF QueueRests
    <3>4. PICK item : item = queue'[i]
      OBVIOUS
    <3>5. Rested(item)'
      BY <1>4, <3>3, <3>4
    <3> QED
      BY <3>4, <3>5 DEF Rested
  <2>4. CASE now' = now /\ \E tickets \in SUBSET Ticket : queue' = Due(tickets)
    <3>1. PICK tickets \in SUBSET Ticket : queue' = Due(tickets)
      BY <2>4
    <3>2. \A i \in DOMAIN queue' : Rested(queue'[i])
      BY <1>1, <3>1, DueRest DEF ParkInv
    <3> SUFFICES ASSUME NEW i \in DOMAIN queue' PROVE Rested(queue[i])'
      BY DEF QueueRests
    <3>4. PICK item : item = queue'[i]
      OBVIOUS
    <3>5. Rested(item)'
      BY <1>4, <3>2, <3>4
    <3> QED
      BY <3>4, <3>5 DEF Rested
  <2> QED
    BY <2>1, <2>2, <2>3, <2>4 DEF ParkedAsIs
<1> QED
  BY <1>3, <1>5 DEF ParkInv

LEMMA ParkStart == Init => ParkInv
<1> SUFFICES ASSUME Init PROVE ParkInv
  OBVIOUS
<1>1. queue = <<>> /\ DOMAIN <<>> = {}
  BY DEF Init
<1>2. \A t \in Ticket : heard[t] = 0 /\ now = 0
  BY DEF Init
<1> QED
  BY <1>1, <1>2 DEF ParkInv, HeardStands, QueueRests

LEMMA MovedOnParks ==
    ASSUME SpawnTyped, ParkInv, NEW t \in Ticket, NEW to \in State, Move(t, to),
           UNCHANGED <<now, start, queue>>
    PROVE  ParkInv'
<1>1. HeardStands' /\ \A item : Rested(item) => Rested(item)'
  BY MoveParks DEF SpawnTyped, ParkInv
<1>2. QueueRests'
  <2> SUFFICES ASSUME NEW i \in DOMAIN queue' PROVE Rested(queue[i])'
    BY DEF QueueRests
  <2>1. PICK item : item = queue'[i]
    OBVIOUS
  <2>2. Rested(item)'
    BY <1>1, <2>1 DEF ParkInv, QueueRests
  <2> QED
    BY <2>1, <2>2 DEF Rested
<1> QED
  BY <1>1, <1>2 DEF ParkInv

LEMMA CallbackParks ==
    ASSUME SpawnTyped, SpawnTyped', ParkInv, Callback
    PROVE  ParkInv'
<1> DEFINE call == Head(calls)
<1>1. /\ UNCHANGED <<now, start, queue>> /\ pc = "calls" /\ calls # <<>>
  BY DEF Callback, SpawnTyped, PlacesStand
<1>2. call.ticket \in Ticket /\ call.in \in State /\ ~Finished(call.in)
  <2> DEFINE X == [ticket : Ticket, in : {s \in State : ~Finished(s)}]
  <2>1. calls \in Seq(X)
    BY DEF SpawnTyped, BatchTyped
  <2> HIDE DEF X
  <2>2. Head(calls) \in X
    BY <1>1, <2>1
  <2> QED
    BY <2>2 DEF X
<1>3. CASE At(call.ticket) = call.in
  <2>1. Move(call.ticket, Edge[At(call.ticket)])
    BY <1>3 DEF Callback
  <2>2. Edge[At(call.ticket)] \in State
    BY <1>2, <1>3, SpawnAssumption
  <2> HIDE DEF call
  <2> QED
    BY <1>1, <1>2, <2>1, <2>2, MovedOnParks
<1>4. CASE At(call.ticket) # call.in
  <2>1. UNCHANGED <<trail, waits, heard>>
    BY <1>4 DEF Callback
  <2>2. ParkedAsIs
    BY <1>1, <2>1, SpawnAssumption DEF ParkedAsIs, SpawnTyped, DiskTyped
  <2> QED
    BY <2>2, AsIsParks
<1> QED
  BY <1>3, <1>4

LEMMA SettleParks ==
    ASSUME SpawnTyped, SpawnTyped', ParkInv, Settle
    PROVE  ParkInv'
<1> DEFINE t == exit.ticket
           worker == exit.worker
<1>1. UNCHANGED <<now, start, queue>> /\ pc = "settle" /\ queue = <<>>
  BY DEF Settle, pass, SpawnTyped, PlacesStand
<1>2. t \in Ticket /\ worker.in \in State /\ Edge[worker.in] \in State /\ worker.started \in 0..now
  BY SettleShape
<1>3. \/ UNCHANGED <<waits, heard, trail, answered>>
      \/ \E until \in Nat : Wait(t, worker.in, until) /\ UNCHANGED <<trail, answered>>
      \/ waits' = Resumes(t, worker) /\ UNCHANGED <<heard, trail, answered>>
      \/ At(t) = worker.in /\ Move(t, Edge[worker.in])
  BY SettleShape
<1> HIDE DEF t, worker
<1>4. QueueRests'
  <2>1. DOMAIN queue' = {}
    BY <1>1
  <2> QED
    BY <2>1 DEF QueueRests
<1>5. PICK t0, worker0 : t0 = t /\ worker0 = worker
  OBVIOUS
<1>6. CASE UNCHANGED <<waits, heard, trail, answered>>
  <2>1. ParkedAsIs
    BY <1>1, <1>6, SpawnAssumption DEF ParkedAsIs, SpawnTyped, DiskTyped
  <2> QED
    BY <2>1, AsIsParks
<1>7. CASE \E until \in Nat : Wait(t, worker.in, until) /\ UNCHANGED <<trail, answered>>
  <2>1. PICK until \in Nat : Wait(t, worker.in, until) /\ UNCHANGED <<trail, answered>>
    BY <1>7
  <2>2. HeardStands'
    BY <1>1, <1>2, <2>1, WaitParks DEF SpawnTyped, ParkInv
  <2> QED
    BY <1>4, <2>2 DEF ParkInv
<1>8. CASE waits' = Resumes(t, worker) /\ UNCHANGED <<heard, trail, answered>>
  <2>1. HeardStands'
    BY <1>1, <1>2, <1>8, ResumesParks DEF SpawnTyped, ParkInv
  <2> QED
    BY <1>4, <2>1 DEF ParkInv
<1>9. CASE At(t) = worker.in /\ Move(t, Edge[worker.in])
  BY <1>1, <1>2, <1>9, MovedOnParks
<1> QED
  BY <1>3, <1>6, <1>7, <1>8, <1>9

LEMMA ParkKeeps == SpawnTyped /\ ParkInv /\ [Next]_vars => ParkInv'
<1> SUFFICES ASSUME SpawnTyped, ParkInv, [Next]_vars PROVE ParkInv'
  OBVIOUS
<1>1. SpawnTyped' /\ now \in Nat /\ now <= now
  <2>1. now \in Nat
    BY SpawnAssumption DEF SpawnTyped, DiskTyped
  <2> QED
    BY <2>1, TypesKeep
<1>2. /\ Open \subseteq Ticket
      /\ Open \ stalled \in SUBSET Ticket /\ Open \ (Busy \cup stalled) \in SUBSET Ticket
  BY DEF Open
<1>3. CASE Callback \/ Settle
  BY <1>1, <1>3, CallbackParks, SettleParks
<1>4. ASSUME NEW t \in Ticket, NEW to \in State, PersonMove(t, to) PROVE ParkInv'
  <2>1. UNCHANGED <<now, start, queue>> /\ Move(t, to)
    BY <1>4 DEF PersonMove, run, pass
  <2> QED
    BY <2>1, MovedOnParks
<1>5. CASE Begin \/ Interrupt \/ Tick \/ UNCHANGED vars
  <2>1. UNCHANGED <<start, trail, waits, heard, queue>> /\ now <= now'
    BY <1>1, <1>5 DEF Begin, Interrupt, Tick, vars, run, disk, history, pass
  <2> QED
    BY <1>1, <2>1, AsIsParks DEF ParkedAsIs
<1>6. CASE ReadPass
  <2>1. UNCHANGED <<now, start, trail, waits, heard>>
    BY <1>6 DEF ReadPass, disk, history
  <2>2. queue' = <<>> \/ queue' = Due(Open \ stalled)
    BY <1>6 DEF ReadPass, Ended, NoPass
  <2>3. ParkedAsIs
    BY <1>1, <1>2, <2>1, <2>2 DEF ParkedAsIs
  <2> QED
    BY <1>1, <2>3, AsIsParks
<1>7. CASE Fill
  <2>1. UNCHANGED <<now, start, trail, waits, heard>> /\ pc = "fill" /\ queue' = Tail(queue)
    BY <1>7 DEF Fill, history
  <2> QED
    BY <1>1, <2>1, AsIsParks DEF ParkedAsIs
<1>8. CASE Refill \/ Slice
  <2>1. UNCHANGED <<now, start, trail, waits, heard>> /\ queue' = Refills
    BY <1>8 DEF Refill, Slice, disk, history
  <2>2. queue' = <<>> \/ queue' = Due(Open \ (Busy \cup stalled))
    BY <2>1 DEF Refills, Refillable
  <2>3. ParkedAsIs
    BY <1>1, <1>2, <2>1, <2>2 DEF ParkedAsIs
  <2> QED
    BY <1>1, <2>3, AsIsParks
<1>9. CASE EndPass \/ Crash
  <2>1. UNCHANGED <<now, start, trail, waits, heard>> /\ queue' \in {queue, <<>>}
    BY <1>9 DEF EndPass, Crash, disk, history, pass, Ended, NoPass
  <2> QED
    BY <1>1, <2>1, AsIsParks DEF ParkedAsIs
<1>10. ASSUME NEW t \in Ticket, NEW arm \in Arm, Judge(t, arm) \/ Ends(t, arm) PROVE ParkInv'
  <2>1. UNCHANGED <<now, start, trail, waits, heard, queue>>
    BY <1>10 DEF Judge, Ends, pass
  <2> QED
    BY <1>1, <2>1, AsIsParks DEF ParkedAsIs
<1>11. ASSUME NEW t \in Ticket, Retry(t) \/ MoveLog(t) PROVE ParkInv'
  <2>1. UNCHANGED <<now, start, trail, waits, heard, queue>>
    BY <1>11 DEF Retry, MoveLog, run, pass, history
  <2> QED
    BY <1>1, <2>1, AsIsParks DEF ParkedAsIs
<1> QED
  BY <1>3, <1>4, <1>5, <1>6, <1>7, <1>8, <1>9, <1>10, <1>11 DEF Next, RunStep, WorkerEnds, Operator

-----------------------------------------------------------------------------
(* The theorems.                                                           *)

SpawnInv == SpawnTyped /\ BooksInv /\ ParkInv

\* The invariant, inductive.
LEMMA SpawnInvariant == Spec => []SpawnInv
<1>1. Init => SpawnInv
  BY TypesStart, BooksStart, ParkStart DEF SpawnInv
<1>2. SpawnInv /\ [Next]_vars => SpawnInv'
  BY TypesKeep, BooksKeep, ParkKeeps DEF SpawnInv
<1> QED
  BY <1>1, <1>2, PTL DEF Spec

\* The variables have their types, and no attempt, grant or give-back is
\* forgotten or counted twice, whichever of the worker's thread
\* (agent_spawn_records.rs), the run's give-back (provider_unavailable.rs) and
\* the operator's `rhei retry` writes the record first.
THEOREM RecordsAlwaysAddUp == Spec => []RecordsAddUp
<1>1. SpawnInv => RecordsAddUp
  <2> SUFFICES ASSUME SpawnInv PROVE RecordsAddUp
    OBVIOUS
  <2>1. /\ now \in 0..MaxNow /\ answered \subseteq Ticket \X Arm
        /\ DOMAIN workers \subseteq Ticket \X Arm /\ stalled \subseteq Ticket
        /\ waits \in [Ticket -> [State -> Nat]]
        /\ pc \in {"fill", "pool"} => queue # <<>> \/ workers # <<>>
    BY DEF SpawnInv, SpawnTyped, DiskTyped, BatchTyped, WorkersTyped, PlacesStand
  <2>2. RecordsAgree
    BY DEF SpawnInv, BooksInv
  <2> QED
    BY <2>1, <2>2 DEF RecordsAddUp, RecordsAgree, Agrees
<1> QED
  BY <1>1, SpawnInvariant, PTL

\* A visit of an arm costs no more attempts than the largest budget its
\* settings ever named and the grants it was given, and no more than Free of
\* its endings cost nothing, across any number of runs, crashes and moves
\* (spawn admission in agent_spawn_plan.rs).
THEOREM SpawnsStayBounded == Spec => []SpawnsAreBounded
<1>1. SpawnInv => SpawnsAreBounded
  BY DEF SpawnInv, BooksInv
<1> QED
  BY <1>1, SpawnInvariant, PTL

\* No worker is started for a provider while a deadline it named to any ticket
\* in its state is ahead (run_work_items.rs, run_provider_waits.rs).
THEOREM ParkedIdentitiesStayAtRest == Spec => ParkedIdentitiesRest
<1>1. SpawnInv /\ [Next]_vars =>
        [\A pair \in DOMAIN workers' \ DOMAIN workers :
           \A u \in Open : Identity[At(u)] = Identity[workers'[pair].in] => heard[u] <= now]_vars
  <2> SUFFICES ASSUME SpawnInv, [Next]_vars, NEW pair \in DOMAIN workers' \ DOMAIN workers,
                      NEW u \in Open, Identity[At(u)] = Identity[workers'[pair].in]
               PROVE  heard[u] <= now
    OBVIOUS
  <2>1. Fill
    <3>1. SUFFICES ASSUME ~Fill PROVE DOMAIN workers' \subseteq DOMAIN workers
      OBVIOUS
    <3>2. DOMAIN <<>> = {}
      OBVIOUS
    <3>3. ASSUME NEW t \in Ticket, NEW arm \in Arm, Ends(t, arm)
          PROVE  DOMAIN workers' \subseteq DOMAIN workers
      BY <3>3 DEF Ends
    <3>4. ASSUME NEW t \in Ticket, NEW arm \in Arm, Judge(t, arm)
          PROVE  DOMAIN workers' \subseteq DOMAIN workers
      BY <3>4 DEF Judge, Without
    <3>5. CASE \/ Begin \/ ReadPass \/ Callback \/ Settle \/ Refill \/ Slice \/ EndPass
               \/ Tick \/ Crash \/ Operator \/ UNCHANGED vars
      BY <3>2, <3>5 DEF Begin, ReadPass, Callback, Settle, Refill, Slice, EndPass, Tick, Crash, Operator,
                        Interrupt, Retry, MoveLog, PersonMove, vars, run
    <3> QED
      BY <3>1, <3>3, <3>4, <3>5 DEF Next, RunStep, WorkerEnds
  <2> DEFINE item == Head(queue)
  <2>2. pc = "fill" /\ queue # <<>> /\ queue \in Seq(Item)
    BY <2>1 DEF Fill, SpawnInv, SpawnTyped, PlacesStand, BatchTyped, Item
  <2>3. 1 \in DOMAIN queue /\ item = queue[1]
    BY <2>2
  <2>4. Rested(item)
    BY <2>3 DEF SpawnInv, ParkInv, QueueRests
  <2>5. workers' = With(workers, <<item.ticket, item.arm>>, Spawned(item))
    BY <2>1, FillShape
  <2> HIDE DEF item
  <2>6. pair = <<item.ticket, item.arm>> /\ workers'[pair] = Spawned(item)
    BY <2>5 DEF With
  <2>7. workers'[pair].in = item.in
    BY <2>6 DEF Spawned
  <2> QED
    BY <2>4, <2>7 DEF Rested
<1> QED
  BY <1>1, SpawnInvariant, PTL DEF Spec, ParkedIdentitiesRest
=============================================================================
