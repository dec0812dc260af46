---------------------------- MODULE SpawnRecords ----------------------------
(***************************************************************************)
(* The attempts a visit has, and the waits its provider makes it take      *)
(* (rhei-cli/src/cli: agent_spawn_records.rs, agent_spawn_plan.rs,         *)
(* spawn_record_writes.rs, retry_command.rs, provider_limits.rs,           *)
(* provider_unavailable.rs, run_provider_waits.rs, run_agent_mode.rs).     *)
(*                                                                         *)
(* A visit is what lies between two moves of its ticket.  It may spawn     *)
(* each of its arms as often as its budget and the grants of `rhei retry`  *)
(* allow; the count is in a record beside the log, charged by the worker's *)
(* thread as the worker ends and given back by the run as it judges the    *)
(* exit.  An ending its provider caused leaves a wait in the plan, which   *)
(* keeps every ticket of that provider from being worked until it is past. *)
(*                                                                         *)
(* The run is the continuous mode's, goes on after an error and has a slot *)
(* for every arm.  Admission, programs, polls, reverted edits, withheld    *)
(* edges, states that count their visits and legacy names are left out.    *)
(***************************************************************************)
EXTENDS Integers, FiniteSetsExt, SequencesExt, Subsequences

CONSTANTS
    Plan,           \* the tickets, as the plan lists them
    State,
    Arms,           \* state -> the arms it fans out to; a finished one has none
    Width,          \* as many as any of them has
    Identity,       \* state -> the provider of its arms
    Edge,           \* state -> where a finished visit goes
    Starts,         \* the states the tickets may be placed in
    ByHand,         \* the moves a person makes
    Attempts,       \* start -> the budgets the settings may name, edited at any
                    \* time
    Free,           \* endings of an unreached provider that cost nothing
    Backoffs,       \* the wait after each of these
    Longest,        \* and after any more
    MaxNow,
    MaxUpsets,      \* start -> interrupts, faults, commands and runs after
                    \* a run that ended, for each way the tickets may start
    None

Ticket == Range(Plan)
Arm == UNION {Range(Arms[s]) : s \in State}
Finished(s) == Arms[s] = <<>>

ASSUME SpawnAssumption ==
    /\ Plan \in Seq(Ticket)
    /\ Arms \in [State -> Seq(Arm)] /\ Width \in Nat
    /\ \A s \in State : Len(Arms[s]) <= Width
    /\ \A s \in State : Finished(s) \/ Edge[s] \in State \ {s}
    /\ Starts \subseteq [Ticket -> State]
    /\ ByHand \subseteq State \X State
    /\ \A s \in Starts : /\ Attempts[s] \subseteq Nat \ {0}
                         /\ \E most \in Attempts[s] : \A n \in Attempts[s] : n <= most
    /\ None \notin [ticket : Ticket, in : State, arm : Arm]
    /\ MaxNow \in Nat /\ MaxUpsets \in [Starts -> Nat]
    /\ Free \in Nat /\ Backoffs \in [1..Free -> Nat] /\ Longest \in Nat \ {0}

\* Each is twice the one before.
ASSUME BackoffAssumption ==
    \A n \in 1..Free : Backoffs[n] = IF n = 1 THEN 1 ELSE 2 * Backoffs[n - 1]

VARIABLES
    now,            \* the clock
    \* On disk.
    start,          \* ticket -> the state it was placed in
    trail,          \* ticket -> the states it was moved to, its ledger lines
    waits,          \* ticket -> state -> the instant nextAttemptAt, 0 for none
    answered,       \* the arms whose outputs of this visit are there
    records,        \* name -> its spawn record
    logs,           \* the transcripts: <<name, attempt>>
    \* The run.
    pc, stopping,
    budget,         \* the budget its settings name
    calls, queue, solo, offered, stalledBefore, stalled, advanced, progress,
    workers,        \* <<ticket, arm>> -> its worker
    exit,           \* the exit the run is judging
    \* Bounds.
    upsets,
    \* What the properties ask, and the code keeps nowhere.
    tally,          \* visit of an arm -> what was paid and given for it
    heard           \* ticket -> the latest deadline its provider named this visit

disk == <<start, trail, waits, answered, records, logs>>
pass == <<calls, queue, solo, offered, stalledBefore>>
judged == <<stalled, advanced, progress>>
run == <<pc, stopping, budget, pass, judged, workers, exit>>
history == <<tally, heard>>
vars == <<now, disk, run, upsets, history>>

Resting == {"off", "over"}

\* A worker ended with its work done, with outputs owed, or as a failure; its
\* provider was never reached, or fell silent once it had answered, and no
\* output is there; it named an instant to come back at; the run was stopped.
Ending == {"done", "owing", "failed", "unreached", "silent", "limited", "interrupted"}

ExitZero == {"done", "owing", "unreached", "silent"}
Unavailable == {"unreached", "silent"}
Unpaid == {"limited", "interrupted"}

With(f, x, value) == [y \in DOMAIN f \cup {x} |-> IF y = x THEN value ELSE f[y]]
Without(f, x) == [y \in DOMAIN f \ {x} |-> f[y]]

-----------------------------------------------------------------------------
(* What is on disk.                                                        *)

At(t) == IF trail[t] = <<>> THEN start[t] ELSE Last(trail[t])

Open == {t \in Ticket : ~Finished(At(t))}

Moves(t) == Len(trail[t])

Arrivals(t, s) ==
    Cardinality({i \in DOMAIN trail[t] : trail[t][i] = s}) + (IF start[t] = s THEN 1 ELSE 0)

\* The number a log of an uncounted state has in its name.
Entry(t, s) == IF Arrivals(t, s) = 0 THEN 1 ELSE Arrivals(t, s)

Name(t, s, arm) == <<t, s, Entry(t, s), arm>>

Visit(name, moves) == <<name[1], name[2], moves, name[4]>>

\* A first attempt has nothing before it in its visit.
Blank(moves) ==
    [moves |-> moves, attempt |-> 0, charged |-> 0, grants |-> 0, unavailable |-> 0, paid |-> FALSE]

OfVisit(name, moves) == name \in DOMAIN records /\ records[name].moves = moves

\* The record of the attempt before, when it was this visit's.
Previous(t, s, arm) ==
    LET name == Name(t, s, arm)
    IN IF OfVisit(name, Moves(t)) THEN records[name] ELSE Blank(Moves(t))

\* (Mutant) One attempt more than the budget.
SpentLate(record, allowed) == record.charged > allowed + record.grants

Spent(record, allowed) == record.charged >= allowed + record.grants

\* A transcript stands where the next one would be opened.
Unaccounted(t, s, arm) == <<Name(t, s, arm), Previous(t, s, arm).attempt + 1>> \in logs

Pending(t) == Kept(Arms[At(t)], {arm \in Arm : <<t, arm>> \notin answered})

\* The latest deadline any ticket has for the provider, in the state it is in.
DeadlineOf(id) == Max({0} \cup {waits[u][At(u)] : u \in {v \in Open : Identity[At(v)] = id}})

\* (Mutant) Every ticket waits for itself alone.
OwnDeadline(t) == waits[t][At(t)]

Deadline(t) == DeadlineOf(Identity[At(t)])

\* A move ends the visit, and the wait of the state that is left.
Move(t, to) ==
    /\ trail' = [trail EXCEPT ![t] = Append(@, to)]
    /\ waits' = [waits EXCEPT ![t][At(t)] = IF to = At(t) THEN @ ELSE 0]
    /\ answered' = {pair \in answered : pair[1] # t}
    /\ heard' = [heard EXCEPT ![t] = IF to = At(t) THEN @ ELSE 0]

Upset == upsets < MaxUpsets[start] /\ upsets' = upsets + 1

NoTally == [costly |-> 0, forgiven |-> 0, granted |-> 0]

Tally(visit) == IF visit \in DOMAIN tally THEN tally[visit] ELSE NoTally

Tallied(visit, field, n) ==
    IF n = 0 THEN tally ELSE With(tally, visit, [Tally(visit) EXCEPT ![field] = @ + n])

-----------------------------------------------------------------------------
(* The pass.                                                               *)

NoPass ==
    /\ calls' = <<>> /\ queue' = <<>> /\ solo' = FALSE /\ offered' = {} /\ stalledBefore' = 0

Ended(how) ==
    /\ pc' = how
    /\ NoPass
    /\ stalled' = {} /\ advanced' = FALSE /\ progress' = FALSE
    /\ budget' = 0 /\ exit' = None

Init ==
    /\ now = 0
    /\ start \in Starts
    /\ trail = [t \in Ticket |-> <<>>]
    /\ waits = [t \in Ticket |-> [s \in State |-> 0]]
    /\ answered = {} /\ records = <<>> /\ logs = {}
    /\ pc = "off" /\ stopping = FALSE /\ budget = 0
    /\ calls = <<>> /\ queue = <<>> /\ solo = FALSE /\ offered = {} /\ stalledBefore = 0
    /\ stalled = {} /\ advanced = FALSE /\ progress = FALSE
    /\ workers = <<>> /\ exit = None
    /\ upsets = 0
    /\ tally = <<>>
    /\ heard = [t \in Ticket |-> 0]

Begin ==
    /\ pc \in Resting
    /\ IF pc = "over" THEN Upset ELSE UNCHANGED upsets
    /\ pc' = "top" /\ stopping' = FALSE
    /\ budget' \in Attempts[start]
    /\ UNCHANGED <<now, disk, pass, judged, workers, exit, history>>

\* The arms of every ticket, ticket by ticket, each with Width places.
Listing ==
    [n \in 1..Len(Plan) * Width |->
        LET t == Plan[((n - 1) \div Width) + 1]
            k == ((n - 1) % Width) + 1
        IN IF k \in DOMAIN Arms[At(t)] THEN [ticket |-> t, in |-> At(t), arm |-> Arms[At(t)][k]]
           ELSE None]

\* Those to spawn, of the tickets given, whose provider is not waited for.
Due(tickets) ==
    Kept(Listing, {item \in [ticket : tickets, in : State, arm : Arm] :
                      <<item.ticket, item.arm>> \notin answered /\ Deadline(item.ticket) <= now})

TicketsOf(items) == {item.ticket : item \in Range(items)}

ReadPass ==
    /\ pc = "top"
    /\ IF stopping \/ Open = {}
       THEN Ended("over")
       ELSE LET mine == Open \ stalled
                moving == Kept(Plan, {t \in mine : Pending(t) = <<>>})
            IN /\ calls' = [i \in DOMAIN moving |-> [ticket |-> moving[i], in |-> At(moving[i])]]
               /\ queue' = Due(mine)
               /\ solo' = (Len(queue') = 1)
               /\ offered' = TicketsOf(queue')
               /\ stalledBefore' = Cardinality(stalled)
               /\ advanced' = FALSE
               /\ pc' = CASE calls' # <<>> -> "calls"
                          [] calls' = <<>> /\ queue' # <<>> -> "fill"
                          [] OTHER -> "tail"
               /\ UNCHANGED <<stalled, progress, budget, exit>>
    /\ UNCHANGED <<now, disk, stopping, workers, upsets, history>>

\* A move that needs no worker.  A ticket that went elsewhere is refused it.
Callback ==
    /\ pc = "calls"
    /\ calls' = Tail(calls)
    /\ LET t == Head(calls).ticket
       IN IF At(t) = Head(calls).in
          THEN Move(t, Edge[At(t)]) /\ advanced' = TRUE
          ELSE UNCHANGED <<trail, waits, answered, heard, advanced>>
    /\ pc' = CASE Tail(calls) # <<>> -> "calls"
               [] Tail(calls) = <<>> /\ queue # <<>> -> "fill"
               [] OTHER -> "tail"
    /\ UNCHANGED <<now, start, records, logs, stopping, budget, queue, solo, offered, stalledBefore,
                   stalled, progress, workers, exit, upsets, tally>>

AfterFill == IF workers' = <<>> THEN "tail" ELSE "pool"

Spawn(t, s, arm) ==
    LET planned == Previous(t, s, arm)
    IN /\ logs' = logs \cup {<<Name(t, s, arm), planned.attempt + 1>>}
       /\ workers' = With(workers, <<t, arm>>,
            [in |-> s, name |-> Name(t, s, arm), planned |-> planned, started |-> now,
             ending |-> "running", instant |-> 0])

\* The next item gets its worker, under the state it was listed in.  Neither
\* that nor its provider's wait is asked again.
Fill ==
    /\ pc = "fill"
    /\ queue' = Tail(queue)
    /\ LET item == Head(queue)
           t == item.ticket
           refused == \/ Unaccounted(t, item.in, item.arm)
                      \/ Spent(Previous(t, item.in, item.arm), budget)
       IN \/ /\ stopping
             /\ stalled' = IF solo THEN stalled ELSE stalled \cup {t}
             /\ UNCHANGED <<logs, workers>>
          \/ /\ ~stopping /\ refused
             /\ stalled' = stalled \cup {t}
             /\ UNCHANGED <<logs, workers>>
          \/ /\ ~stopping /\ ~refused
             /\ Spawn(t, item.in, item.arm)
             /\ UNCHANGED stalled
    /\ pc' = IF Tail(queue) = <<>> THEN AfterFill ELSE "fill"
    /\ UNCHANGED <<now, start, trail, waits, answered, records, stopping, budget, calls, solo, offered,
                   stalledBefore, advanced, progress, exit, upsets, history>>

-----------------------------------------------------------------------------
(* The worker's end, and what the run makes of it.                         *)

Leaves(t, worker) == At(t) = worker.in /\ Moves(t) = worker.planned.moves

\* (Mutant) The record is written as it was planned.
PersistedAsPlanned(worker, paid) ==
    [worker.planned EXCEPT !.attempt = @ + 1, !.charged = @ + paid, !.paid = (paid = 1)]

\* What the thread writes, under the record's lock: a grant made since the
\* spawn was planned stays.
Persisted(worker, paid) ==
    LET stored == IF OfVisit(worker.name, worker.planned.moves)
                  THEN records[worker.name] ELSE worker.planned
    IN [stored EXCEPT !.attempt = worker.planned.attempt + 1, !.charged = @ + paid,
                      !.paid = (paid = 1)]

Ends(t, arm) ==
    /\ <<t, arm>> \in DOMAIN workers
    /\ LET worker == workers[<<t, arm>>]
       IN /\ worker.ending = "running"
          /\ \E how \in Ending, instant \in 0..MaxNow + 1 :
                LET paid == IF how \in Unpaid THEN 0 ELSE 1
                    visit == Visit(worker.name, worker.planned.moves)
                IN /\ how = "interrupted" => stopping
                   /\ CASE how = "limited" -> instant > now
                        [] how \in Unavailable -> instant = now
                        [] OTHER -> instant = 0
                   /\ workers' = [workers EXCEPT ![<<t, arm>>].ending = how,
                                                 ![<<t, arm>>].instant = instant]
                   /\ answered' = IF how = "done" /\ Leaves(t, worker)
                                  THEN answered \cup {<<t, arm>>} ELSE answered
                   /\ \/ /\ records' = With(records, worker.name, Persisted(worker, paid))
                         /\ tally' = Tallied(visit, "costly", paid)
                         /\ UNCHANGED upsets
                      \* The record could not be written; the worker's end stands.
                      \/ /\ Upset
                         /\ UNCHANGED <<records, tally>>
    /\ UNCHANGED <<now, start, trail, waits, logs, pc, stopping, budget, pass, judged, exit, heard>>

\* The give-back: free while the provider never answered, and Free times.
GivenBack(record, ending) ==
    LET n == record.unavailable + 1
        free == ending = "unreached" /\ n <= Free /\ record.paid
    IN [record EXCEPT !.unavailable = n, !.charged = IF free THEN @ - 1 ELSE @,
                      !.paid = @ /\ ~free]

\* The plan is read again, and whatever record is there is rewritten.
Judge(t, arm) ==
    /\ pc = "pool"
    /\ <<t, arm>> \in DOMAIN workers /\ workers[<<t, arm>>].ending # "running"
    /\ workers' = Without(workers, <<t, arm>>)
    /\ LET worker == workers[<<t, arm>>]
           name == worker.name
           stayed == At(t) = worker.in
           owes == stayed /\ worker.ending \in ExitZero /\ <<t, arm>> \notin answered
           rewrites == owes /\ worker.ending \in Unavailable /\ name \in DOMAIN records
           record == IF rewrites THEN GivenBack(records[name], worker.ending) ELSE None
           more == stayed /\ (Pending(t) # <<>> \/ \E pair \in DOMAIN workers' : pair[1] = t)
       IN /\ exit' = [ticket |-> t, worker |-> worker, stayed |-> stayed, owes |-> owes,
                      more |-> more, record |-> record]
          /\ records' = IF rewrites THEN With(records, name, record) ELSE records
          /\ tally' = IF rewrites
                      THEN Tallied(Visit(name, record.moves), "forgiven",
                                   records[name].charged - record.charged)
                      ELSE tally
    /\ pc' = "settle"
    /\ UNCHANGED <<now, start, trail, waits, answered, logs, stopping, budget, pass, judged, upsets, heard>>

\* The wait before the visit's n-th retry of an unavailable provider.
Backoff(n) == IF n <= Free THEN Backoffs[n] ELSE Longest

\* (Mutant) What is heard last is what is waited for.
WaitAnew(t, s, until) ==
    /\ waits' = [waits EXCEPT ![t][s] = until]
    /\ heard' = IF At(t) = s THEN [heard EXCEPT ![t] = Max({@, until})] ELSE heard

\* The later deadline wins.
Wait(t, s, until) ==
    /\ waits' = [waits EXCEPT ![t][s] = Max({@, until})]
    /\ heard' = IF At(t) = s THEN [heard EXCEPT ![t] = Max({@, until})] ELSE heard

\* (Mutant) Whoever answers ends the wait.
ResumesAnyhow(t, worker) == [waits EXCEPT ![t][worker.in] = 0]

\* A worker started before its end cannot end a wait.
Resumes(t, worker) ==
    [waits EXCEPT ![t][worker.in] = IF worker.started >= @ THEN 0 ELSE @]

\* As it was said when the spawn was planned.
LastAttempt(worker) == worker.planned.charged + 1 >= budget + worker.planned.grants

Stall(t) == stalled' = stalled \cup {t} /\ UNCHANGED advanced

StaysPut == UNCHANGED <<trail, answered>>

Interrupted(t, worker) ==
    /\ worker.ending = "interrupted"
    /\ StaysPut /\ UNCHANGED <<waits, heard, stalled, advanced>>

Limited(t, worker) ==
    /\ worker.ending = "limited"
    /\ IF exit.stayed THEN Wait(t, worker.in, worker.instant) ELSE UNCHANGED <<waits, heard>>
    /\ StaysPut /\ UNCHANGED <<stalled, advanced>>

MovedOn(t, worker) ==
    /\ worker.ending \notin Unpaid /\ ~exit.stayed
    /\ advanced' = TRUE
    /\ StaysPut /\ UNCHANGED <<waits, heard, stalled>>

Failed(t, worker) ==
    /\ worker.ending = "failed" /\ exit.stayed
    /\ Stall(t)
    /\ StaysPut /\ UNCHANGED <<waits, heard>>

\* No spawn follows the last attempt, so nothing waits for one.
ProviderGone(t, worker) ==
    /\ exit.owes /\ worker.ending \in Unavailable
    /\ IF exit.record # None /\ ~(exit.record.paid /\ LastAttempt(worker))
       THEN Wait(t, worker.in, worker.instant + Backoff(exit.record.unavailable))
       ELSE UNCHANGED <<waits, heard>>
    /\ Stall(t)
    /\ StaysPut

\* The provider answered, and outputs are owed all the same.
OutputsOwed(t, worker) ==
    /\ exit.owes /\ worker.ending \notin Unavailable
    /\ waits' = Resumes(t, worker)
    /\ Stall(t)
    /\ StaysPut /\ UNCHANGED heard

\* A visit is left when no other arm of it is at work or still to be, unless
\* its ticket has moved meanwhile.
WorkDone(t, worker) ==
    /\ worker.ending \in ExitZero /\ exit.stayed /\ ~exit.owes
    /\ LET leaves == ~exit.more /\ At(t) = worker.in
       IN \/ /\ leaves
             /\ Move(t, Edge[worker.in])
             /\ advanced' = TRUE
             /\ UNCHANGED stalled
          \/ /\ ~leaves
             /\ waits' = Resumes(t, worker)
             /\ IF exit.more THEN UNCHANGED <<stalled, advanced>> ELSE Stall(t)
             /\ StaysPut /\ UNCHANGED heard

\* What the exit comes to, as it was read.
Settle ==
    /\ pc = "settle"
    /\ LET t == exit.ticket
           worker == exit.worker
       IN \/ Interrupted(t, worker) \/ Limited(t, worker) \/ MovedOn(t, worker)
          \/ Failed(t, worker) \/ ProviderGone(t, worker) \/ OutputsOwed(t, worker)
          \/ WorkDone(t, worker)
    /\ exit' = None
    /\ pc' = IF solo THEN "tail" ELSE "refill"
    /\ UNCHANGED <<now, start, records, logs, stopping, budget, pass, progress, workers, upsets, tally>>

Busy == {pair[1] : pair \in DOMAIN workers}

\* What a refill starts.
Refillable == Due(Open \ (Busy \cup stalled))

Refills == IF stopping THEN <<>> ELSE Refillable

Refill ==
    /\ pc = "refill"
    /\ queue' = Refills
    /\ pc' = CASE Refills # <<>> -> "fill"
               [] Refills = <<>> /\ workers # <<>> -> "pool"
               [] OTHER -> "tail"
    /\ UNCHANGED <<now, disk, stopping, budget, calls, solo, offered, stalledBefore, judged,
                   workers, exit, upsets, history>>

\* A pool beside a wait looks every second whether there is work.
Slice ==
    /\ pc = "pool" /\ ~solo
    /\ \E t \in Open : waits[t][At(t)] # 0
    /\ Refills # <<>>
    /\ queue' = Refills /\ pc' = "fill"
    /\ UNCHANGED <<now, disk, stopping, budget, calls, solo, offered, stalledBefore, judged,
                   workers, exit, upsets, history>>

-----------------------------------------------------------------------------
(* The end of a pass.                                                      *)

MoreClaimable == Cardinality(stalled) > stalledBefore /\ offered \ stalled # {}

\* (Mutant) A deadline that is past is waited for by nobody.
WaitsAhead == \E t \in Open : Deadline(t) > now

\* A wait counts until it is cleared, past or not.
Awaited == \E t \in Open : Deadline(t) # 0

EndPass ==
    /\ pc = "tail"
    /\ \/ /\ advanced
          /\ pc' = "top" /\ progress' = TRUE
          /\ UNCHANGED <<pass, stalled, advanced, budget, exit>>
       \/ /\ ~advanced /\ MoreClaimable
          /\ pc' = "top"
          /\ UNCHANGED <<pass, judged, budget, exit>>
       \/ /\ ~advanced /\ ~MoreClaimable
          /\ (progress /\ stalled # {}) \/ Awaited
          /\ pc' = "top" /\ stalled' = {} /\ progress' = FALSE
          /\ UNCHANGED <<pass, advanced, budget, exit>>
       \/ /\ ~advanced /\ ~MoreClaimable
          /\ ~(progress /\ stalled # {}) /\ ~Awaited
          /\ Ended("over")
    /\ UNCHANGED <<now, disk, stopping, workers, upsets, history>>

-----------------------------------------------------------------------------
(* Beside it.                                                              *)

Tick ==
    /\ now < MaxNow /\ now' = now + 1
    /\ UNCHANGED <<disk, run, upsets, history>>

Interrupt ==
    /\ pc \notin Resting /\ ~stopping /\ Upset
    /\ stopping' = TRUE
    /\ UNCHANGED <<now, disk, pc, budget, pass, judged, workers, exit, history>>

\* A crash takes the workers with it.  Their logs stay, and what was written.
Crash ==
    /\ pc \notin Resting
    /\ Upset
    /\ \E wrote \in SUBSET {pair \in DOMAIN workers :
                              workers[pair].ending = "running" /\ Leaves(pair[1], workers[pair])} :
          answered' = answered \cup wrote
    /\ workers' = <<>>
    /\ Ended("off")
    /\ UNCHANGED <<now, start, trail, waits, records, logs, stopping, history>>

PersonMove(t, to) ==
    /\ Upset
    /\ t \in Open /\ <<At(t), to>> \in ByHand
    /\ Move(t, to)
    /\ UNCHANGED <<now, start, records, logs, run, tally>>

Names(t) == {Name(t, At(t), arm) : arm \in Range(Pending(t))}

\* `rhei retry`: what is exhausted by the settings of now is granted as much
\* again.
Retry(t) ==
    /\ Upset
    /\ t \in Open
    /\ \E more \in Attempts[start] :
        LET exhausted == {n \in Names(t) : OfVisit(n, Moves(t)) /\ Spent(records[n], more)}
            visits == {Visit(n, Moves(t)) : n \in exhausted}
        IN /\ exhausted # {}
           /\ records' = [n \in DOMAIN records |->
                            IF n \in exhausted THEN [records[n] EXCEPT !.grants = @ + more]
                            ELSE records[n]]
           /\ tally' = [v \in DOMAIN tally \cup visits |->
                            IF v \in visits THEN [Tally(v) EXCEPT !.granted = @ + more]
                            ELSE tally[v]]
    /\ UNCHANGED <<now, start, trail, waits, answered, logs, run, heard>>

\* The remedy of a refused name: its transcript is moved away.
MoveLog(t) ==
    /\ t \in Open \ Busy
    /\ \E arm \in Range(Pending(t)) :
        /\ Unaccounted(t, At(t), arm)
        /\ logs' = logs \ {<<Name(t, At(t), arm), Previous(t, At(t), arm).attempt + 1>>}
    /\ UNCHANGED <<now, start, trail, waits, answered, records, run, upsets, history>>

RunStep ==
    \/ ReadPass \/ Callback \/ Fill \/ Settle \/ Refill \/ Slice \/ EndPass
    \/ \E t \in Ticket, arm \in Arm : Judge(t, arm)

WorkerEnds == \E t \in Ticket, arm \in Arm : Ends(t, arm)

Operator ==
    \/ Interrupt
    \/ \E t \in Ticket : Retry(t) \/ MoveLog(t) \/ \E to \in State : PersonMove(t, to)

Next == Begin \/ RunStep \/ WorkerEnds \/ Tick \/ Crash \/ Operator

Spec == Init /\ [][Next]_vars

\* The run goes on, every worker has a finite time, and so does the clock.
\* Nobody has to begin a run or to give a command.
FairSpec == Spec /\ WF_vars(RunStep) /\ WF_vars(WorkerEnds) /\ WF_vars(Tick)

-----------------------------------------------------------------------------
(* Properties.                                                             *)

\* The variables have their types, and a record says of its visit what was
\* paid for it: no attempt, grant or give-back is forgotten or counted twice,
\* whichever of the worker's thread, the run and the operator comes first, and
\* but for the endings whose record could not be written.
RecordsAddUp ==
    /\ now \in 0..MaxNow /\ answered \subseteq Ticket \X Arm
    /\ DOMAIN workers \subseteq Ticket \X Arm /\ stalled \subseteq Ticket
    /\ waits \in [Ticket -> [State -> Nat]]
    /\ pc \in {"fill", "pool"} => queue # <<>> \/ workers # <<>>
    /\ \A name \in DOMAIN records :
          LET record == records[name]
              paid == Tally(Visit(name, record.moves))
          IN /\ record.charged = paid.costly - paid.forgiven
             /\ record.grants = paid.granted
             /\ record.charged <= record.attempt

\* A visit "may be spawned at most `attempts` plus attended grants times"
\* (rhei-run.spec.md:382), but for the endings that cost nothing: however its
\* runs were interrupted, crashed or overtaken by moves, and whatever the
\* settings said in each.
SpawnsAreBounded ==
    \A visit \in DOMAIN tally :
        /\ tally[visit].costly - tally[visit].forgiven <= Max(Attempts[start]) + tally[visit].granted
        /\ tally[visit].forgiven <= Free

\* While a provider that named a deadline is waited for, none of its arms is
\* started for any ticket (rhei-run.spec 3.3).
ParkedIdentitiesRest ==
    [][\A pair \in DOMAIN workers' \ DOMAIN workers :
         \A u \in Open : Identity[At(u)] = Identity[workers'[pair].in] => heard[u] <= now]_vars

Waiting(t) == t \in Open /\ waits[t][At(t)] # 0

MayTryAgain(t) ==
    \E arm \in Range(Pending(t)) :
        ~Spent(Previous(t, At(t), arm), budget) /\ ~Unaccounted(t, At(t), arm)

Going == pc \notin Resting /\ ~stopping

\* A ticket that waits for its provider and has attempts left is worked again
\* when the wait is past; the run does not end before.  The clock of the model
\* ends at MaxNow.
ParkedAreRetried ==
    \A t \in Ticket :
        Going /\ Waiting(t) /\ MayTryAgain(t)
            ~> t \in Busy \/ ~Waiting(t) \/ Deadline(t) > MaxNow \/ stopping \/ pc = "off"

AllSpent ==
    \A t \in Open : /\ Pending(t) # <<>>
                    /\ \A arm \in Range(Pending(t)) : Spent(Previous(t, At(t), arm), budget)

\* "`rhei run` still halts on an exhausted visit until a grant exists"
\* (rhei-retry.spec.md:91).
SpentVisitsHalt ==
    Going /\ workers = <<>> /\ exit = None /\ AllSpent
        ~> ~Going \/ ~AllSpent
=============================================================================
