# A TLA+ model of rhei

`rhei` runs plans. A plan is a set of tickets in markdown files; a state
machine says along which edges a ticket moves; agents, programs and people move
the tickets through short-lived `rhei` commands, and `rhei run` starts the agents.
There is no server: every command is a process of its own that reads files,
takes file locks, writes files and exits. What has to hold, holds because of the
order in which those processes read, lock, check, write and undo. That order is
what these modules model.

Paths below are relative to the repository; `cli/` stands for
`crates/rhei-cli/src/cli/` and `budget/` for `crates/rhei-core/src/budget/`.

## 1. The system

### Components, their state and how they meet

| Component | State | Operations | What makes it correct |
|---|---|---|---|
| Budget account (`budget/admission.rs`, `replay.rs`, `window.rs`, `unpriced.rs`) | replayed from a chain of receipts: reservations, applied edges per ticket, contract, currency, highest day | reserve, start, release, release travel, charge an edge, settle spend, adjust | no allowance passes its bound, nothing consumed is given back, days never reopen |
| Budget journal and witness (`journal.rs`, `append.rs`, `authority.rs`, `classify.rs`, `diagnosis.rs`) | two append-only files with a lock each | open, append with undo, adopt, diagnose, remedy | one append-only log through crashes, torn writes and lost files |
| Identities and roots (`account.rs`, `identity.rs`, `roots.rs`, `cli/budget_forget.rs`) | a shared index from project root to account | locate, mint, adopt, retract | one account per project |
| A run's use of the budget (`cli/budget_runtime.rs`, `budget_settle.rs`, `budget_travel.rs` and the spawn paths of `cli/run_agent_*.rs`, `run_parallel_*.rs`) | a claim per ticket, in the run's memory only | admit, note start, record spend, charge an edge, settle | what a process used stays charged; what was not used comes back |
| Ticket transitions (`cli/system_transition_execution.rs` and its helpers) | a ticket's heading in one file, its visit counters in its rhei's manifest, a result file | move with callbacks, visit limit and budget charge | a move happens whole or not at all, parents end last, loops are bounded |
| Claims and releases (`cli/claim_transaction.rs`, `claim_revalidation.rs`, `next_command.rs`, `release_command.rs`) | the assignee in a heading | claim, take in place, release, undo, recovery move | one owner at a time, failed claims leave nothing |
| Transition ledger (`cli/transition_ledger.rs`, `locked_runtime_journal.rs`) | one history file for a whole project | lock, append, truncate back | no line of another process is lost |
| Ready set and halts (`cli/ready_*.rs`, `crates/rhei-core/src/workspace`) | none of its own | which ticket may move, why a plan halts | nothing starts before its priors |
| Subtree supervision (`cli/subtree_supervision*.rs`) | a block per supervisor in metadata: held or released, with unread checkpoints | hold on entry and at each checkpoint, release on the state's edge onto itself, withhold that edge after an empty visit | supervisor and subtree never at work together, no subtree let go that cannot move |
| Run loop and pool (`cli/run_*.rs`) | workers out, stalled tickets, holds for empty visits | pass, moves without a worker, batch, exit, refill, another try | limits of the pool, nothing untried, every run ends |
| Spawn records, retries, provider waits (`cli/agent_spawn_*.rs`, `spawn_record_writes.rs`, `retry_*.rs`, `provider_*.rs`) | a record per invocation, beside its log; a deadline per ticket and state in metadata | charge, give back, grant; wait, resume | attempts stay within budget and grants, deadlines are kept, who waited is tried again |
| Run lock and registry (`cli/snapshot_continue_lock.rs`, `run_registry*.rs`, `headless_*.rs`) | `.rhei/run.lock`, an entry per run | acquire, publish, sweep | one run per execution root, live entries stay |
| Forced moves and recovery (`cli/operator_*.rs`, `crates/rhei-core/src/root_access*.rs`), removals (`cli/remove_*.rs`) | a write-ahead marker, a guard per root | preview, confirm, lock, publish, install, replay | all or nothing across crashes, and as confirmed |
| Completion, reset, notes, evidence, seals, snapshots, accounting, summaries | files of their own | see `PROJECT.json` | |
| Plan language, state machine validation, templates, prompts, command line, screens, bindings, packaging | none at run time | pure functions of text, or display | outside a state-machine model |

How they meet. A command reads the plan without a lock and picks its ticket. It
takes the *writer locks* (`flock`) of the rhei's manifest and of the ticket's file, in
that order, and reads again. A move charges its edge to the budget account
(account lock inside writer locks), writes the two files, runs the callbacks of its
edge while it holds the locks, and appends a line to the project's ledger (ledger
lock innermost). A run holds `run.lock` of its execution root for its whole life,
and that lock being free is the only evidence another run has that it is dead.
Between one use of the account and the next a run keeps a *claim* in memory. Which workers are
out is in the run's memory too: a command beside it reads the plan alone. Every command
holds a shared *guard* of its roots while it works; a forced move takes the exclusive ones.

### What is hard here

* Every decision is made at least twice: on an unlocked read, and again under the
  locks. What is not looked at the second time may be stale.
* The account's receipts come from callers that die between two of them.
* Two files can never be written at once, and a write can be cut short or fail
  after it succeeded. Each writer has an undo of its own, and each undo can fail.
* Callbacks run in the middle: they refuse, fail, redirect the move to another edge,
  or cannot be started, each with its own way out of the handler.
* What a run may start depends on what it has running and on what has moved since it last
  tried, and each of its steps reads the plan again while people move tickets.
* An attempt is charged by the worker's thread, given back by the run and granted by a person,
  each to the visit it believes in, while the ticket may move. A provider's deadline is kept
  for every ticket of that provider, and somebody has to end it.
* Locks cover one rhei. The history, the budget and the dependencies of a ticket do
  not stop there.

`PROJECT.json` lists each of these at its line under `hazards`, with the properties
aimed at it, or with the reason why none is yet.

## 2. The modules

```
BudgetLedger  <--EXTENDS--  BudgetVisits          DurableLog  <--refined by--  BudgetJournal
                                                  TicketMoves <--refined by--  PlanTransition
                                                  WholeHops   <--refined by--  ForcedRecovery
                                                  RootGuards  <--EXTENDS-----  ForcedRecovery
                          Subsequences <--EXTENDS--  Supervision <--EXTENDS--  SupervisedRun
                          Subsequences <--EXTENDS--  SpawnRecords
                          Subsequences <--EXTENDS--  PlanTransition
```

The theorems about `BudgetLedger`, `BudgetJournal`, `BudgetVisits`, `PlanTransition`, `ForcedRecovery`, `Subsequences`,
`SupervisedRun` and `SpawnRecords` are in a module of each one's name with `Proofs` (section 4).

Each `MC*.tla` module gives one of them its small constants. A definition whose
comment starts with "(Mutant)" is a wrong variant of the one after it: a run with the
variant in its place must, and does, refute the property it is listed with.

### BudgetLedger

One action is one transaction of one caller: `Account::open` takes the lock,
replays the chain, checks, and appends at most one receipt. Replay is what gives the
chain its meaning, so the state is the replayed one. `Append...` operators are the
effect of a receipt in `State::apply`; the actions are the methods of `Journal`.

| Module | Code |
|---|---|
| `reservations[r]` | a `Reservation` in `replay.rs` |
| `contract` | `Contract::Window` (`None`) or `Contract::Lifetime` (the number) |
| `highestDay`, `EffectiveDay` | the highest recorded day and `effective_day` in `window.rs` |
| `readOnly` | the chain has a receipt kind of a newer build |
| `Reserve(request, arms, first, bounds)` | `reserve`: `preview`'s checks, then one receipt with an arm per invocation |
| `ChargeReserved`, `ChargeStandalone` | `charge_travel` with and without a reservation |
| `SettleSpend` | `settle_spend_in_context` |
| `Adjust` | `adjust`; refused below what is already consumed or outstanding |

Callers are unconstrained: any of them makes any call in any order, under any
bounds the settings may have resolved to and with any clock. What holds here holds
whatever `rhei run` does. `Adjust` refuses an allowance below what is outstanding;
this is why a lifetime allowance can be lowered and still never be overdrawn.

### BudgetVisits

What `rhei run` really calls. A run is launched, holds the lock of its root, and
dies at any point (`Stop`), which empties its memory and frees its lock. `stage` is
where the visit of one item is; `claims` is `held_claims()` in
`cli/budget_runtime.rs`. An admission is several steps under the account's lock
(`OpenAdmission`, `ReleaseAbandoned` one receipt at a time, `Weigh`), since a crash may come
between its receipts; every other use of the account is one step. `spawned` and
`cost` are history: which process was really created and what it was measured to
cost. With `AppendsMayFail` the account may be unreachable at any call, and because
receipts around a visit are best effort, any subset of them may be missing.

Sequential runs wait for their invocation. A pooled run waits on other threads:
`Exit` may come while its main thread does something else, and everything else is
serialized (`Busy`).

### BudgetJournal and DurableLog

`DurableLog` is what an account promises: a log that is only extended at its end, and of
which every transaction sees the whole. `BudgetJournal` has the two files as
sequences of receipts and perhaps a fragment, the transaction's phase, every point at
which a write may fail or be cut short, the undo that follows and may fail as well,
crashes between any two steps, accidents, and the commands a refusal prints.
`Classify` is `classify.rs`, in the order of its checks.

One account at one root is modelled, so the readings that need a second root
(`foreign_tail`, `held_elsewhere`) and retiring an identity are not. Accidents leave at
least one of the two files intact: losing both is the residual risk
the design states. None strikes the journal while an append is cutting it back, and
the witness is only lost between transactions. An operator runs a remedy while no
transaction is open.

### PlanTransition and TicketMoves

`TicketMoves` says what commands do to a ticket, seen from outside: `Move`,
`Claim`, `Take`, `Drop`, each in one step, each move one line in the history.
`PlanTransition` is the handler:

| Action | Code |
|---|---|
| `StartClaim`, `StartTake`, `StartMove`, `StartRelease` | what a command decides on an unlocked read |
| `Acquire` | the writer locks, one at a time, and the read under the last one |
| `Refuse`, `Route` | the checks under the locks, the `on_leave` callback and its redirect |
| `Charge`, `RefuseCharge` | `budget_charge_applied_edge`, before anything is written |
| `OpenLedger` | a claim takes the ledger lock here and remembers its length |
| `WriteManifest`, `WriteTask`, `WriteFails` | the two files, one after the other |
| `EnterAccepts`, `EnterFails`, `EnterBreaks` | the ways `on_enter` can end |
| `Assign`, `Commit`, `ClaimFails`, `Restore` | a claim's owner, its line, its undo, and the recovery move after it |
| `Record`, `RecordFails`, `Finish` | an ordinary move's line, its result, the closed ticket |
| `Take`, `Drop`, `Crash` | a claim in place, a release, the death of a process |

`cmd[p].before` is the content of the files as read under the locks; writes are made
from it, as in the code, and not from the current plan. The refinement hides what a
command has written before its line (`Provisional`): until then it can be undone.

Left out: profiles, polls, artifact checks, the strict seal; conditions, gates and
supervision, which are in `Supervision`; root access, which is in `RootGuards`; every terminal state counts as a successful one; the
assignee is the process; `--task` selection covers the automatic one, which picks
among the same tickets. The budget is a counter per ticket (`TravelLimit`), whose own
model is `BudgetLedger`. A callback's outcome is a nondeterministic choice.

### RootGuards, ForcedRecovery and WholeHops

`WholeHops` is what an operator gets: a forced move rewrites all of its files and
appends its pair of lines in one step, or does nothing, and whatever commands and
hands write in between stays. Two accidents are its exceptions, and part of it: a loss of power may take the
newest writes, never a correction or what is under one, and this or an edit by hand may leave a correction
*stuck*, after which nothing changes but by further accidents. `RootGuards` has the guards of the project's roots,
shared by commands and exclusive to operators, and the run locks. `ForcedRecovery` has the
processes:

| Action | Code |
|---|---|
| `Begin`, `EnterRoot`, `RefusedAtMarker`, `Leave` | `RootAccessGuard::acquire`: no marker, the guard, no marker still; then its drop |
| `WriteFile`, `WriteLine` | what any command does under its guards |
| `PreviewForce`, `PreviewRecovery` | what a person is shown and confirms, before any lock |
| `LockRuns`, `TakeGuard` | the run locks, then the guards one root at a time in their order |
| `Publish` | the images are taken again, under the locks, and the marker made durable |
| `InstallImage`, `AppendPair`, `SyncLedger`, `Unmark` | `forced_commit` in its order |
| `Recheck`, `Truncate`, ... | `forced_replay`: marker and decision as confirmed, the torn pair cut off, the images of its direction |
| `Decision` | `forced_decision`: forward after the whole pair, back after part of it, refuse any third content |
| `Stop`, `PowerLoss`, `Edit` | a process dies between any two steps; lines and files that nobody has waited for are lost; a file is edited by hand |

A file is the set of the writes in it, so that a write that disappears is seen. What commands write they hand to
the system and do not wait for: `disk` is the part of the ledger that is on the disk (`append_line` flushes and `forced_commit`
syncs), and `older[f]` what a file may be found to hold instead (`write_file_atomic_locked` renames and syncs nothing). A byte of
the ledger is a pair of its writer and its place, and the pair of lines can be cut at any byte.

Taken as given: an operator's replacing a file, the marker and its removal included, is one durable
step with the directory's sync (so a kill between the marker's unlink and that sync, then other commands, then a loss of power that
brings the marker back, is left out, and nothing below speaks of it);
an edit by hand is on the disk at once; the per-file locks a forced move takes are subsumed by the exclusive
guards, which every command of the project respects; a guarded command takes the guards of all
its roots; hands edit only while no exclusive guard is held; the safeguards that refuse
under the locks all end in `GiveUp`. A guard whose lock file cannot be opened is skipped by
readers, as the design accepts; this is left out. The run locks of all roots are one lock.

### Supervision and SupervisedRun

`Supervision` is the plan as every command and every run reads it: `Ready` with the
barrier, `ReleasedNothing` for the test of an empty visit, and `Move`, the one move all of
them apply, with what it does to the mover's block and to the supervisor above that
hears of it. `SupervisedRun` is `rhei run` around it, with the commands of people beside. `Subsequences`
has the filter of a sequence that they and other modules need, by the places of what it keeps, so that the prover can reason about it.

| Module | Code |
|---|---|
| `block[t]` | `supervision` in a ticket's metadata: phase and checkpoints |
| `Holds`, `HeldAbove`, `Due`, `Ready` | `supervision_holds_subtree`, `supervision_verdict`, `find_ready_tasks_in_view` |
| `Owner`, `Hears` | `nearest_in_scope_supervising_owner`, `SupervisionTransition::checkpoint` |
| `ReadPass`, `Callback`, `CallbacksDone`, `EndPass` | a pass of `run_agent_mode` |
| `Fill`, `Refill` | `schedule_agent_work_items`, `refill_parallel_worker_pool` |
| `Ends`, `Handle` | the end of a worker, and `handle_parallel_agent_exit` when the run gets to it; `solo` is the batch of one, which has no pool |
| `stalled`, `heldAt` | `stalled_tasks`, `EmptyVisitHolds` |
| `answered` | the outputs of this visit are on disk, so no worker is started again |
| `Die` | an interrupt, an error without `--continue-on-error`, a crash |
| `Claim`, `GiveBack`, `Transition` | `rhei next --task`, `rhei release`, `rhei transition` |

`tried`, `empty`, `steered` and `alone` are history, for the properties only. One ticket has
one worker: fan-out has its own accounting in `BudgetVisits`. A hold's mark and the
judgement it belongs to are one step. Left out: polls and deadlines,
programs, provider waits (in `SpawnRecords`), gates answered inside the run, tickets that cannot be
prompted, dry runs. The machine and the tree are constants.

### SpawnRecords

The same run seen from its workers: how often each may be spawned, and when. Tickets are independent
here and the run has a slot for every arm, so that what keeps a worker from being started is its record or its
provider alone.

| Module | Code |
|---|---|
| `records[name]` | a `SpawnRecord`; the name is that of its log without the attempt |
| `trail[t]`, `Moves`, `Entry` | the ticket's lines in the ledger, the visit key and the entry number counted from them |
| `logs` | transcripts, opened before the worker runs; one without a record refuses the next spawn (`Unaccounted`) |
| `waits[t][s]` | `providerLimits` in metadata: `nextAttemptAt` of a ticket in a state |
| `Fill` | `spawn_parallel_agent_work_item`: the name, the budget, the spawn |
| `Ends` | the worker's thread: its ending, and `persist_spawn` under the record's lock |
| `Judge`, `Settle` | `handle_parallel_agent_exit`: the plan is read and the record rewritten, then what the exit comes to; a ticket may move in between |
| `GivenBack`, `Backoff`, `Wait`, `Resumes` | `record_provider_unavailable`, `unavailable_backoff_minutes`, `set_provider_limit_metadata`, `provider_limit_resumed` |
| `Refill`, `Slice` | the refill after an exit, and the one a pool makes every second beside a wait |
| `EndPass` | another pass after progress, for the untried, for the stalled, for a deadline; or the end |
| `Retry`, `PersonMove`, `MoveLog` | `rhei retry` under the settings of its moment, `rhei transition`, the remedy of a refused name |
| `Interrupt`, `Crash` | a signal; the death of the run with its workers, logs and outputs staying |

An ending is a member of `Ending`; how it is recognized in an agent's output is left out. `Backoffs` is a table of the waits that
double (`BackoffAssumption`), `Listing` every arm of every ticket in the order a batch is read. The run is the continuous mode's
and goes on after an error. Every arm of a state is of one provider. `tally` and `heard` are history: what was charged, forgiven and granted for
a visit, and the latest deadline its provider named. The sleep of the end of a pass is no step: the pass after
it reads a clock that may have gone on. Left out: polls, programs, reverted edits, withheld visits, states that count their
visits, legacy names, spawn failures and panics, `--parallel` limits (`SupervisedRun` has them), `--until-idle`, and the error edges of a machine: a
failed worker leaves its ticket where it is.

## 3. The runs

| Run | Instance | Question | States |
|---|---|---|---|
| `budget_ledger` | 3 reservations, 1 ticket, 2 days, 2 sets of bounds, allowances 1 and 3 | do all limits hold for any callers at all | 532 thousand |
| `budget_journal` | 5 receipts | is the account one log through every failure, accident and remedy | 5.5 thousand |
| `visits_pool` | 2 pooled runs of 2 roots, a fanout of 2, account may be unreachable | does recovery leave live claims alone | 1.83 million |
| `visits_sequential` | 2 sequential runs of 2 roots, 2 tickets, reachable account | is every process charged, at its own cost, and no stalled visit | 241 thousand |
| `transition` | 2 workers, 3 commands in all, parent and child in one file, a third ticket in a rhei that shares the ledger | is each command one whole move or nothing; tree, loop counters, claims under stale looks and redirects | 98 thousand |
| `transition_faults` | the same, every fault and crash | is a written line kept, was it paid for, does each command return | 285 thousand |
| `recovery` | 2 operators, 1 command, 2 roots, 2 files, pairs of 3 bytes, 2 stops, 1 loss of power, 1 edit | is a forced move whole, decidable and as confirmed, and when is it not; does everybody get his guards | 621 thousand |
| `spawn_records` | 1 provider; a ticket of two states with two upsets, a fan-out of 2 with one, 2 undisturbed tickets; budgets 1 and 2, 1 free ending, clock 0..1 | charges, grants and give-backs of a visit; deadlines kept and ended | 241 thousand |
| `supervised` | 4 tickets in 3 levels with 2 supervisors, 2 runs, `--parallel 2`, 1 command | barrier, empty visits, gates, the pool, the end of a run | 172 thousand |

And three runs in which the code and a statement of the repository disagree
(section 5): `visits_dead_claim`, `supervised_next`, `spent_visits`.

### Bounds, and why they are enough

* Three reservations are an ancestor, its descendant and a third to compete with them, or
  a fanout of two against one; limits of 1 to 3 are reached in a few steps. Two days are
  a clock that goes forward and back. Two sets of bounds are settings that were lowered. There is one
  currency in the run, so the refusal of a second is not reached.
* Five receipts are two undone ones between acknowledged ones. A counter-example to any
  classification needs a common prefix, a differing line and a torn one.
* Two runs are enough for each to be the other's recovery. Four reservations are one per
  run and item. A run is not launched again; its successor is the other run.
* Two workers race for one ticket, or hold one lock each. `MaxCommands` is shared by
  them: three are a move in, a move out and a move back, which is what the limit of one
  visit needs, or two beside another worker's. The
  machine of `MCPlanTransition` has a passive initial state, a state with a visit
  limit, a loop, an end, and the state a failed claim is parked in.
* `transition` puts the `on_enter` callback on `todo -> work`, so
  there a ticket never *ends* provisionally (section 5 says what happens when it
  does). `transition_faults` takes redirects into the limited state as well.
* A recovery is killed once and repeated, or a forced move is killed and its recovery is, which
  is two stops. One loss of power, before or after either, takes any of the lines and files written since the last sync; it
  stops every process besides. Three writes are a file and a line, or two of either, under a forced move. Four previews are two operators who each look before and after the other. Two
  files are one that exists and one that does not; three bytes are a pair torn early or late.
* The tree of `MCSupervisedRun` has a supervisor of a supervisor, a leaf under each, one listener for every move and
  one for finished children only, a brief each for two tickets, one state that
  two leaves share and that takes one at a time, and a gate. Two visits are one to release and one
  that exhausts. Two runs are a crash and the run after it. One command is a person's move at any
  point; what it leaves behind is then the run's.
* In `spawn_records` an *upset* is whatever is not the run's own course: an interrupt, a crash, a record that could not be written,
  a person's move, a retry, a run begun after one that ended. Two are a crash and the retry after it, a move and the move
  back, a lost record and another; tickets that nobody disturbs get none, so that there are two of them. Budgets of
  one and two are a first attempt, a last one, and settings edited in between. A clock of one tick tells waits that are ahead from waits that are past; deadlines may
  lie beyond it, and those `ParkedAreRetried` does not ask about. The six free endings of the code are one here, the backoff one and two ticks.

Symmetry over reservations and over workers is used only in runs without a
liveness property; no definition distinguishes their members. `CHECK_DEADLOCK FALSE` is
in the `Visits`, `ForcedRecovery`, `SupervisedRun` and `SpawnRecords` configurations: every run there may have ended, the
bounds on commands and ceremonies may be spent, and nobody has to begin another.

### Fairness

Four specifications assume some. `FairSpec` of `PlanTransition`: weak fairness of each
process's next step inside a command. `flock` is granted to somebody when it is free, a process has finitely
many commands, and nothing else delays a command but its callbacks. That a
callback returns is an assumption: its bound is optional and unset by
default. Weak fairness is enough although locks are taken in competition, since the
other process also runs finitely many commands; starvation by an endless stream of
commands is not excluded by the code and not claimed.

`Spec` of `ForcedRecovery`: a command that is inside leaves, an operator who has confirmed goes on, and
gives up under the locks if he can do nothing else. Nobody has to begin or to confirm
anything. The number of commands is bounded here too, and for the same reason: `flock` lets readers overtake a writer.

`FairSpec` of `SupervisedRun`: a run that is under way goes on, and its workers end. Every
worker the run starts has a finite timeout (`ensure_orchestrator_timeout`), and the
loop waits for nothing else. The formula is written out as what weak fairness of `GoesOn` means, since
that step is enabled exactly while a run is under way; the two parts of `RunTypeOK` about
`pc` check that.

`FairSpec` of `SpawnRecords`: weak fairness of the run's steps, of the end of workers, for the same reason, and of the clock.
Interrupts, crashes, commands and the begin of a run have none; `ParkedAreRetried` speaks of a run until it is
interrupted or dies. A grant that would let a spent visit go on is nobody's duty, which is why it asks for
attempts that are left.

## 4. What is proved

Eight modules hold theorems, each about the module it extends and for every value of its
constants: any number of processes, tickets, receipts, files and roots, any tree and
machine. The constants are assumed to be what the modules' `ASSUME`s say, and nothing more; where a
theorem needs a hypothesis besides, it is part of its statement and is named here. A theorem
without a property in its second column states one that no run repeats.

The bounds of the runs (`MaxCommands`, `MaxReceipts`, `MaxStops` and the like) are constants too,
so a theorem holds for every bound, which is to say without one.

### BudgetLedgerProofs

| Theorem | States |
|---|---|
| `LedgerTypeCorrect` | `[]LedgerTypeOK` (no run repeats it) |
| `LifetimeIsSafe` | `[]LifetimeNeverOverdrawn` |
| `DayIsSafe` | `[]DayNeverOverdrawn` |
| `EnvelopeIsSafe` | `[]DescendantsWithinEnvelope` |
| `ConsumptionIsKept` | `ConsumptionOnlyGrows` |
| `DaysStayClosed` | `DaysNeverReopen` (no run repeats it) |
| `TravelIsSafe` | `[]TravelNeverOverdrawn` |
| `EdgesCountedOnce` | `[]EdgesAreCountedOnce` (no run repeats it) |
| `MoneySettlesOnce` | `SettledOnce` (no run repeats it) |

Assumed of the constants: days, bounds and amounts are
natural numbers, allowances positive, `None` is none of them. Reservations need not be
finite; that an admission has finitely many arms is part of `LedgerNext`.

The argument. None of the limits is inductive alone. `LedgerInv` adds two facts to them: no reservation is
dated after the highest day on the chain (`WindowsRecorded`), which makes a day that is
not the effective one closed; and an ancestor is on the chain
(`AncestorsRecorded`), without which a fresh id could arrive with descendants already
under it. `StepShape` then sorts the steps into three: all but two keep what
the limits are counted from, or lower it (`KeepsLedger`, `KeepPreserves`); an admission
adds exactly its arms to the exposure of one day (`ReserveAdds`,
`ReservePreserves`); and `Adjust` changes the contract against an exposure it checked
(`AdjustPreserves`). The first two action properties follow from the same invariant and the
shape of each receipt.

Travel needs only the type invariant beside itself. `TravelShape` sorts the steps: all
but three keep every reservation's unit or drop it (`KeepsTravel`); an admission holds
one unit, on its first arm, after weighing the ticket's exposure; charging a held unit
moves one reservation from the held set to the applied one (`EdgeConverts`), which
leaves the exposure as it was; and a charge of its own is weighed by itself.
`ExposureChecked` and `AppliedEdgesMatch` conclude from these cases. `SettlesStay` goes
through the receipts one by one: only a first settle writes an amount.

### BudgetJournalProofs

| Theorem | States |
|---|---|
| `JournalInvariant`, `JournalWellTyped` | `[]JournalInv`, `[]JournalTypeOK` (no run repeats them) |
| `JournalBehindWitness` | `[]JournalNeverAhead` |
| `FailuresAloneAreHarmless` | `[]FailureAloneIsNotDamage` |
| `RemediesSuffice` | `[]RemediesConverge` |
| `JournalIsDurable` | `AppendOnlyLog`: the two files implement `DurableLog` |

`JournalInv` says who knows the log. Between transactions (`AtRest`) it is the witness, and the journal
then holds receipts of the witness only (`WitnessDecides`), or it is a journal that
replays, of an account whose witness was lost (`WitnessLost`). Inside one
(`InTransaction`) it says for each phase what either file can be: the log or the log and
the one line to come. `Undamaged` is the same without accidents, where both are known to the last receipt. A
property of the files alone is not inductive: whether a journal that is behind is harmless depends on the phase
in which its writer died, and that after a failed undo the witness may be ahead by exactly one receipt
is what lets the next transaction acknowledge it. `Continues` bounds this by one, and is
what makes every step of the files a step or a stutter of the log. `RemediesSuffice` runs over the readings of
`Classify` and shows for each that the printed command leads to one that is settled or to one
whose command settles it (`SettledStays`).

### BudgetVisitsProofs

| Theorem | States | Hypotheses |
|---|---|---|
| `ClaimsStayOutstanding` | `[]LiveClaimsAreOutstanding` | none |
| `ProcessesAreNeverRefunded` | `[]ProcessesStayConsumed` | `~AppendsMayFail` |
| `VisitsSettleTheirOwn` | `[]SettledAtOwnCost` | `~AppendsMayFail`, `Pooled = {}` |
| `StalledVisitsGiveBack` | `[]StalledVisitsLeakNothing` | `~AppendsMayFail`, `Pooled = {}` |

The hypotheses are those of the runs, and they are needed: receipts around a visit are best effort, and with the
account away at the wrong moment a process that ran is refunded (section 5); in a pool the first
arm of a fanout settles the visit for all. The first theorem has neither.

Recovery decides by the locks of roots, visits are identified by what a run keeps in memory, and neither is on
the chain. `ClaimsInv` therefore ties them: two runs at work have different roots (`RunsApart`), and a claim names
reservations that are on the chain, of the run's own root and ticket, and not released
(`ClaimHolds`). `ConsumedInv` adds the stage at which a started reservation can no longer be
given back. `SequentialInv` is about one visit from admission to its
end: one item of a run is at work (`OneAtWork`), claims belong to such items and say of them exactly how far they are
(`ClaimsFit`), an arm is one visit's for ever (`ArmsApart`), and a cost is known only of a process that ran.
TLC checked it, too, before it was proved.

### PlanTransitionProofs

| Theorem | States | Hypotheses |
|---|---|---|
| `PlanInvariant` | `[](PlanInv /\ MarkInv)` (no run repeats it) | none |
| `CommandsHoldTheirLocks` | `[]PlanTypeOK` | none |
| `EndedTicketsAreWhole` | `[]TerminalSubtree` | none |
| `ClaimsAreNotStolen` | `NoClaimStolen` | none |
| `LinesAreForEver` | `HistoryIsKept` | none |
| `LinesHaveTheirCharge` | `[]LinesArePaid` | none |
| `ClaimsComeAfterTheirPriors` | `[]ClaimsFollowPriors` | `EndsAreFinal` |
| `NoVisitTooMany` | `[]VisitLimitHolds` | `RedirectsAreFree` |
| `VisitsAreInTheHistory` | `[]VisitsMatchLedger` | `Faults \subseteq {"claim"}`, `NoneIsNoCommand` |
| `CommandsAreAtomic` | `AtomicMoves`: the commands implement `TicketMoves` | `Faults \subseteq {"claim"}`, `NoneIsNoCommand` |

Those without a hypothesis hold under every fault and crash of `transition_faults`. The others
fail without theirs, for reasons section 5 lists:

* `EndsAreFinal`: no `on_enter` callback sits on an edge that ends a ticket. With one, a
  claim in another rhei may read the end of its prior and the callback take that end back.
* `RedirectsAreFree`: no `on_leave` callback sends a ticket into a state that limits its visits. A redirect
  is not checked against the limit.
* `Faults \subseteq {"claim"}`: of the faults only a failing claim, which has an undo. A crash or a failed write between the
  metadata and the line leaves a count without its line, and half a move in the files.
* `NoneIsNoCommand`: `None` is not a record of a command's fields. This is a fact about the model value and not about the program; it
  is a hypothesis and no `ASSUME` because TLC cannot enumerate such records.

The argument. A command writes what it computed from what it read, and the property is about
the files. `PlanInv` says that between the two nothing comes: past its first step a command holds the locks of the
files it is about (`Holds`), the files are, by its place in the handler, what it read or what it made of it
(`FilesStand`), the edge was one of the machine with everything below it ended (`Admitted`), and what it
may put back had nothing unfinished under an ended ticket (`BeforeWhole`). Every one of the theorems starts from it.
`MarkInv` is for the claim that takes its bytes back: nothing behind its mark is a line yet, since it holds the
ledger's lock. `PaidInv` counts the line that is owed by a command that has charged
and not yet written. `PriorInv` and `LimitInv` say the same of what a command has read as of what
stands in the files. `CountInv` says who may be between a count and its line (`Writing`), and that a rhei in
which nobody is has them equal (`Settled`, `Counted`).

The refinement needs no invariant besides. What `TicketMoves` sees of a ticket (`Seen`) depends on who is in the middle of
it, and by the locks that is one command at most (`OthersAreElsewhere`). Its first write disappears behind what it
found (`WritesUnseen`), and what it puts back is what was seen all along (`RestoresUnseen`). So a command shows in one step
only: the line of a claim is a `Claim` (`CommitIsAClaim`), that of an ordinary move a `Move` which, where it ends the
ticket, already has no owner (`RecordIsAMove`, `FinishesUnseen`). The history is `Kept(ledger, Line)`: fragments and what a
claim cuts off are none of it (`FragmentsUnread`, `CutUnread`), and who appends a line finds no fragment before it
(`OnlyLinesThere`, from `CountInv`), so that the line arrives whole (`HistoryGrows`).

### ForcedRecoveryProofs

| Theorem | States | Hypotheses |
|---|---|---|
| `RecoveryWellTyped` | `[]RecoveryTypeOK` (no run repeats it) | none |
| `NobodyBesideAMarker` | `[]NoCommandBesideAMarker` | none |
| `ReplaysKeepToTheConfirmation` | `[]ReplaysWhatWasConfirmed` | none |
| `OnlyLossesLeaveItUndecided` | `[]EvidenceDecides` | none |
| `ForcedMovesAreWhole` | `HopsAreWhole`: forced moves implement `WholeHops` | none |
| `ResolvableWhereEarlierWritesLast` | `[]Resolvable` (no run repeats it) | `[][PowerLoss => NamedIsOnDisk]_vars` |

None of the properties assumes that ordinary writes are waited for, since the code does not wait for them. `EvidenceDecides` says what that
comes to: where the evidence refuses, a hand has edited a file, or the power was lost and a write the
marker was made on is missing. The last theorem is its positive half: if no loss of power finds anything the marker
names, lines or files, off the disk (`NamedIsOnDisk`), and no hand edits a file, then every pending move can be resolved. That hypothesis
is about the machine the program runs on, and section 5 says why nothing in the code ensures it.

`RecoveryInv` has a layer for each question.

* `LockInv`: who holds which guards at which stage, so that one operator at most is past them.
* `HopInv`: what he has done so far, in terms of his stage and place (`AtWork`, `Written`, `Installed`).
* `LedgerFits`, `FilesFit`: what a dead one left is the ledger the marker was published on with some
  bytes of the pair (`Begun`), and images of which each is one before or one after; or else power was lost, and the ledger is a
  part of what it was, or a file misses a write.
* `DiskFits`, `OlderFits`: what a loss of power cannot take. The corrections made so far are on the disk; what a file may be found to hold
  instead has less in it, misses nothing as old as a correction, and is of interest only while nothing was installed in that file.
* `Numbered`: every write has a number of its own, later ones a larger one, so that bytes of the pair are nobody else's.

The evidence property alone is not inductive: that it decides follows from where a process can have died. For the refinement,
each step is a `Hop`, a `Write`, a `Line`, an accident or a stutter of what `WholeHops` sees (`View`): under a marker all is hidden until the whole pair
is on the disk, which is the `Hop` (`HopOrNot`); a loss of power is a `Lose` (`LossIsLose`), since the corrections are
on the disk; and a marker becomes stuck by a loss or an edit only (`Disturbs`).

### SubsequencesProofs and SupervisedRunProofs

| Theorem | States | Hypotheses |
|---|---|---|
| `PoolInvariant` | `[]PoolInv` (no run repeats it) | none |
| `RunWellTyped` | `[]RunTypeOK` | none |
| `PoolIsLimited` | `[]PoolKeepsItsLimits` | none |
| `GatesKeepTheirHold` | `[]GateKeepsTheHold` | none |
| `ApartWithoutClaims` | `[]NeverTogether` | `"claim" \notin Beside`, `EntryIsGuarded` |
| `SupervisorsAreWoken` | `[]NotStranded` | `"claim" \notin Beside`, `EntryIsGuarded`, `TreeOfTickets`, `MovesAreNews`, `SupervisorsAreFree` |
| `EmptyVisitsWait` | `OneEmptyVisitPerAdvance` | none |
| `EverythingIsTried` | `[]NothingUntriedAtTheEnd` | none |

Those without a hypothesis hold for every tree of tickets, every machine, any number of slots and runs, and whatever
people do beside a run. What the two others need:

* A claim beside a run is the run `supervised_next`, which TLC refutes (section 5).
* `EntryIsGuarded`: only a supervising state and the gates a supervisor parks at (`ParkedAt`) lead
  to a supervising state, and only a supervising state leads to such a gate. In each of the machines that ship, `supervising` is
  entered from itself and from `human-review`, and that gate from `supervising`. Otherwise a ticket that is
  worked like any other could be moved into supervision by hand while workers below it are out, and no step rechecks them.
  The instance TLC runs satisfies it (`EntryAssumption`).
* `TreeOfTickets`: the tickets above a ticket are a chain, and a prior of a ticket is below all that the ticket is below.
* `MovesAreNews`: a supervisor that listens for its children has nobody further below, and where one hears only of ends, a
  ticket that is no supervisor reaches an end by each of its moves. Otherwise a move further
  down, or one to a second working state, may leave the subtree stuck with the supervisor none the wiser.
* `SupervisorsAreFree`: a supervisor that is itself below another waits for no prior and no brief, and a supervising state's
  timeout leads to another state, since a timeout onto itself releases without asking what the visit left.

The machines of the template `supervised-delivery` and of the example `subtree-supervision`, with
plans laid out as theirs are (one supervisor, steps of one move that wait for each other), meet all of these. The instance of the
runs meets the tree and neither of the last two: its guide is below another supervisor, waits for a brief, and hears of its child only.
The runs and the theorem therefore say something about different plans.

The argument. `RunInv` says what is known at each place of the loop: whether there is a batch, a
pool, a worker whose end is not handled yet. `SlotsStand` counts workers and the batch together, since a slot is
taken from the batch before it has a worker; that no ticket is in both, and that tickets of both are apart in a state
that is not concurrent, is in it because the pool's limits are not inductive without. `Kept` and its lemmas are used here:
a batch is what a filter leaves of the ready tickets, and is therefore as distinct and as complete as they are.

`GateInv` says of a ticket's block what `GateKeepsTheHold` says of readiness: a supervisor
at its gate that came there by a move holds its subtree. `TogetherInv` is about who is engaged, which is more than
who is worked: a ticket of the batch, a claimed one and one with a worker. If a supervisor is engaged and holds, nothing below it
is; and if something below is engaged, the supervisor is in no position to be. It is the latter
that `EntryIsGuarded` keeps.

`WakeInv` is why a subtree that was let go is not stranded (`GoesOnBelow`). Three steps could strand it. A release: it comes of
an edge onto itself, which a visit takes only while its shape shows a ticket that can move, and nothing but a
person's move changes that shape during the visit, for the subtree is held (`ShapeIsFresh`, which rests on `TogetherInv`). A
claim that ends: who is claimed was not released before (`ClaimIsHeld`). And a move below, after which what moved may be what
can move no more: by `OwnerIsNearest` it is heard by the supervisor, which is then held and due, or by one between the two,
which is held and can itself go on, since it started as a supervisor (`BornToSupervise`) and thus waits for nothing. TLC checked the
four parts, too, on two instances that meet the hypotheses, one of them with ends as the only news.

An empty visit is judged when the worker has ended and acted on when the next batch is read. `EmptyInv` ties the two: a hold
is of the ledger's length it was judged at or of an earlier one (`HoldsStand`), and what has one is in no batch.
`TriedInv` is about the end of a run. What was ready at the reading of a pass is called, queued, worked, stalled or accounted for
(`Accounted`), a stall is of no later time than the last progress (`StallsAge`), and where nothing moved
since, the plan is as it was read (`AsRead`). From these a pass that finds nothing to start has
left nothing untried. TLC checked the parts, too, before they were proved.

### SpawnRecordsProofs

| Theorem | States | Hypotheses |
|---|---|---|
| `RecordsAlwaysAddUp` | `[]RecordsAddUp` | none |
| `SpawnsStayBounded` | `[]SpawnsAreBounded` | none |
| `ParkedIdentitiesStayAtRest` | `ParkedIdentitiesRest` | none |

They hold for every plan and machine, any fan-outs and providers, budgets that are edited between runs, and any number of
interrupts, crashes, moves, retries and lost record writes. What they need of the constants is in `SpawnAssumption`: the budgets
the settings may name have a largest one, and `None` is no item of a batch.

The argument for the first two. Three writers come to a record: the worker's thread, the run, and the operator. None of them says
which visit it means, and the number in a record's name is a count that a later visit may repeat. `NamesInv` says whose a record is: its name is the
count of arrivals at the moves it was written for (`Named`), moves are only ever appended (`TrailGrows`),
and so a visit of an arm has one name (`SameVisit`), while two workers never share one (`WorkersAreApart`). On that rests
`WorkersStand`, about a worker that is out: what it was planned by is still what is charged in its
record and no less is granted there, or it is the first of its visit and nothing was paid (`UpToDate`). This is why the thread may add its charge to
whatever is stored, and why writing the record as it was planned, the listed mutant, loses a grant. `RecordsAgree` is
`RecordsAddUp` with one part more, that as much was given back as there are endings counted in `unavailable` at the
most; without it the bound on what costs nothing is not inductive. The steps of the module are reduced to five that matter to the books
(`BookStep`), and each of the five has its lemma.

For the third, `ParkInv`: what a ticket heard last is in the wait of its state or is past
(`HeardStands`), which a move keeps by taking both, and a cleared wait since its worker started after it; and nothing is queued for a
provider that an open ticket waits for (`QueueRests`), which is kept between the reading of a batch and its last spawn,
since no exit is judged in between. TLC checked these invariants, too, before they were proved.

### What stays with TLC

* `NotStranded` of `SupervisedRun`, beyond the plans and machines of `SupervisorsAreWoken`. It is not true of all of them: a
  supervisor that hears only of ends is not woken when a child moves to a state whose brief nobody has written, nor when a ticket
  elsewhere fails that a child waits for. The instance of the runs has neither, and there TLC finds it to hold.
* Liveness (`EveryCommandReturns`, `CeremoniesEnd`, `RunsEnd`, `ParkedAreRetried`): proofs under fairness and of
  `ENABLED` are beyond the prover.
* The three refuted properties of section 5.

## 5. Where the code and its documents disagree

Each of the first three is a run that TLC refutes; `PROJECT.json` quotes the sentence at stake.

* `visits_dead_claim`: a run of the root a crashed run held asks whether that root's
  lock is free while it holds the lock itself. It takes the dead run for
  alive, keeps its reservation, and can be refused for it.
* `supervised_next`: `rhei next --task` judges readiness by the plan, also under the
  lock, and the plan does not say which workers a run has out. A supervisor that a
  move below has just made due can be claimed while the run's worker on another ticket below it goes on.
* `spent_visits`: a visit whose provider fell silent leaves a wait, and the visit's last ending leaves none and clears
  none. The wait that is past counts as due now at the end of every pass, and the spawn it waits for is refused for the
  spent budget at the start of the next: the run goes round twice a second and does not halt.

Met while modelling, and without a run. Against a sentence of the documents:

* The first arm of a fanout to exit settles the whole visit, and the record of a sibling that
  still runs lands nowhere (`cli/run_parallel_agent_exit.rs:532`).
* When the evidence of an `on_enter` callback cannot be opened, a claim returns without the
  undo every other failure of it gets (`cli/system_transition_execution.rs:927`).
* An `on_leave` redirect is checked for its rule and its subtree, and not for the visit
  limit of the state it goes to (`cli/system_transition_execution.rs:589`).
* A claim looks at a prior of another rhei without that rhei's lock, sees a state that is written and not
  yet committed, and stands when its callback takes that state back (`cli/claim_revalidation.rs:23`).
* A batch is read at the top of a pass and started after the pass's own moves: when one of these makes a
  supervisor due, a ticket below it is dispatched all the same (`cli/run_parallel_schedule.rs:22`).
* A forced move makes durable a marker that names a digest of the whole ledger,
  and the images of files other commands had written, and syncs the ledger last. Such lines and files may be lost with the power
  in between; the digest, or an image, then fits nothing, and no recovery is possible
  (`cli/operator_transaction.rs:111`), although every interruption is to be recoverable at every boundary (`docs/functional-spec/rhei-recover.spec.md:266`). `ForcedRecovery` has these
  losses: `WritesLost` and `Stuck` are their outcome.
* A state has one wait. Where its arms are of two providers, the second to report replaces the deadline of the first (`cli/provider_limits.rs:339`),
  although every active record is to suppress its provider.
* The edge that releases a subtree drops every checkpoint, one that a person's move delivered during the
  visit included. Such a move also makes an otherwise empty visit count, so
  that the subtree may be let go with nothing in it that can move (`cli/subtree_supervision.rs:214`).

And because no document says otherwise: a start
receipt that cannot be written leads to a refund of a process that ran
(`cli/budget_runtime.rs:456`); the pool's spawn path leaves the claim of a visit that
could not be prompted (`cli/run_parallel_spawn.rs:244`); an ordinary move whose `on_enter` cannot
be spawned keeps what it wrote (`cli/system_transition_execution.rs:957`); a release
drops whatever claim it finds (`cli/release_command.rs:45`); an exit judged before a person's move writes its wait after it, for a state
the ticket has left (`cli/run_provider_waits.rs:24`); when a worker's record could not be written, the give-back rewrites whatever
record is there, which is the one before (`cli/spawn_record_writes.rs:149`); a retry under a larger budget, while a charge is about to be given back, leaves
the visit with both.

No property is checked where one of these would hide it: the runs of `BudgetVisits` and of
`PlanTransition` are split by their faults, `supervised` lets people move tickets and give claims back while a
run goes on but claim only between runs, `recovery` takes lines and files with the power and `EvidenceDecides` and `HopsAreWhole`
name what comes of it, `SettledAtOwnCost` is asked of visits with one arm, `ParkedAreRetried` asks for attempts that are left, and `NotStranded` leaves out supervisors whose
subtree a person let go, or moved during their visit (`steered`).

## 6. What is not modelled, and the plan

Out of reach, or without a state to model: the plan language, validation of state machines, templates, prompts,
the command line, screens, bindings and packaging. These, with their tests, are the greater part of the
repository's lines. Everything below is reachable, in this order.

1. **PendingRemoval** over `RootGuards`: the resumed removal of `cli/remove_pending.rs`, where a second resumer
   works from a marker it read before the locks.
2. **Polls and programs** in `SupervisedRun` and `SpawnRecords`: the states with a schedule and a bound of their own, and withheld visits' give-back.
3. **RunRegistry**: run lock, publication by launcher and child, sweeps, headless start.
4. **BudgetRoots**: several roots and accounts, the shared index, foreign tails, retirement.
5. **ResetComplete**, **SnapshotStore**, **NoteStore** and the template union, the last two as pure
   algorithms against a reference definition.

## 7. Running it

```
tlc -workers 2 -config MCTransition.cfg MCPlanTransition
for m in BudgetLedger BudgetJournal BudgetVisits PlanTransition ForcedRecovery Subsequences SupervisedRun SpawnRecords; do
    tlapm ${m}Proofs.tla
done
```

`PROJECT.json` names the configuration of every run, the lines of the repository each
definition stands for (`map`), and the wrong variant each property refutes (`mutants`).
