# Workhorse in TLA+

Workhorse is a durable task queue that lives in PostgreSQL. Producers enqueue tasks, workers in
several languages claim them under a lease, and the SQL functions of `sql/schema/current.sql` decide
every transition. This directory holds TLA+ models of those functions and of the TypeScript worker
that calls them, the TLC configurations that check them on small instances, and TLAPS proofs that hold
for every instance.

Contents: [the system](#the-system), [what is modelled](#what-is-modelled),
[what the runs check](#what-the-runs-check), [what is proved](#what-is-proved),
[what is only model-checked](#what-is-only-model-checked),
[what is not modelled](#what-is-not-modelled).

## The system

| Part | State | What makes it correct |
| --- | --- | --- |
| Task lifecycle | `task`, `task_runtime`, `task_outcome`, `attempt_history`, the fence and ready sequences | a task is never lost and never decided twice; only the newest claim decides; a cancellation sticks; attempts and execution time are counted once |
| Durable waits | `task_wait`, `task_signal_wait`, `task_human_wait` | a wait ends; an answer is kept; no task runs past an open wait |
| Maintenance tick | `maintenance_state` | everything overdue is settled although a tick takes few rows, skips locked ones and may fail half way |
| Dependencies, children | `task_dependency`, two counters per row | a dependent settles exactly when its last prerequisite does, as its policy says, whatever the order |
| Task groups | `task_group`, shards, members, callbacks | exactly one outcome finishes a group, and callbacks are enqueued once |
| Admission | policies, capacity shards, token buckets, budgets | active leases stay within each limit; free capacity is not left unused |
| Fast tier | `fast_task_runtime`, `fast_task_outcome` | the promises of the lifecycle for batches that lock row by row |
| Checkpoints, replay | the durable state of a task | a handler that restarts reads what it stored; a replay tells what the live task does |
| Task attempt (worker) | abort signal, lease window, timers, statements in flight | a handler stops before its task may run elsewhere; what is reported is what PostgreSQL did |
| Heartbeats (worker) | the schedule of rounds, the reserved connection | rounds leave in time and answer the leases they were sent for |
| Dispatch, runs, process (worker) | slots, cohorts, registry row, shutdown timers | a worker holds no more than it may, and ends when it is asked to |

A worker calls SQL functions with the task id, its worker id and the fence it was given; a call is one
transaction. The functions lock the runtime row and then test it, so two calls on one task are
ordered, but a worker learns that it lost a task only from the answer to a later call. The tick is a
function that every worker calls once per interval. Outcomes fire triggers in their own transaction,
which resolve dependents and count group members. `pg_notify` wakes workers, and polling covers lost
notifications.

What is hard about it is listed line by line under `hazards` in `PROJECT.json`: calls of stale workers;
boundaries (deadline, execution timeout, end of lease) that pass at any moment and are noticed in any
order; answers that are lost after their commit; deliveries that race with the end of a wait;
transactions that read before they lock, or lock in different orders; crashes; ticks that fail in one
phase; clocks read twice in one transaction; counters kept beside the rows they count.

## What is modelled

| Module | Contents |
| --- | --- |
| `TaskLifecycle` | every transition of a full-tier task without prerequisites, on a queue without policies |
| `TaskLifecycleProps` | its invariants, action properties and liveness properties |
| `TaskContract` | what a client may rely on: an abstract task with a status, an attempt, a token and a wish to stop |
| `TaskRefinement` | the mapping from the tables of `TaskLifecycle` to `TaskContract` |
| `Dependencies` | prerequisites, the resolver and its cascade, statement by statement under row locks |
| `TaskGroups` | sharded counting of members, sealing, finishing, cancellation and repair, statement by statement |
| `Admission` | claims that share capacity shards, rates and budgets; releases and the wake-ups they send |
| `FastTier` | batches of the fast tier, lock by lock |
| `DurableStore` | the SQL functions that a handler reaches through its context, as operators on a store |
| `HandlerReplay` | `replayHandler` beside the live worker that it stands for |
| `TaskAttempt` | one activation of a handler, with the row it works on |
| `HeartbeatSchedule` | when rounds and busy retries leave, and what an answer does |
| `ReservedConnection` | the connection that the workers of a pool share for their rounds |
| `WorkerDispatch` | the dispatch loop, its claims, executions and fused completions |
| `WorkerRun` | the runs of a worker object and its registry row |
| `WorkerProcess` | the process runner: boot, signals, probe, shutdown deadline, exit |
| `MCTaskLifecycle`, `MCWorker`, `MCProgress`, `MCHeartbeats`, `MCRelations`, `MCDatabase`, `MCTiers` | instances for TLC, with one `.cfg` per question |
| `TaskLifecycleProofs` | the inductive invariant of the lifecycle, and what follows from it alone |
| `TaskFencingProofs` | what a step leaves alone; the theorems about fences and execution budgets |
| `TaskLedgerProofs` | the invariant of the attempt ledger and of the wait rows, and its theorems |
| `TaskContractProofs` | what a step may write; the lifecycle implements the contract |
| `TaskAttemptInvariant`, `TaskAttemptProofs` | the inductive invariant of an activation, and its theorems |
| `WorkerProofs` | the invariants of the process runner and of the registry row, and their theorems |
| `HeartbeatProofs` | the invariants of the schedule, the connection and the shared rounds, and their theorems |
| `FastTierProofs` | the invariant of the transactions of the fast tier, and its theorems |

The `map` in `PROJECT.json` gives the source lines of each definition. Definitions whose name ends in a
word after an underscore and which stand under a comment `Faulty:` are mutated forms of the definition
after them, used to see that a property notices the fault.

### The lifecycle

State. `runtime[t]` is the row of `task_runtime` and `NoRow` when there is none; `outcome[t]` the row
of `task_outcome`; `history[t]` the rows of `attempt_history` in order; `waits[t]` the rows of the
three wait tables. `def[t]` is the part of `task` that the transitions read. `issued` is what workers
remember: each claim `<<worker, task, fence>>` ever handed out. A worker may call with any of them, as
late and as often as it likes, which covers slow workers, retried calls, duplicated calls and crashes
(a worker that never calls again). `scanDue` says that the spacing of the expired-lease scan is over.

Actions. One per SQL function, named after it: `ClaimOne` is `claim_one_v1`, `Fail` is `fail_v1`, and so
on. An action is the whole function, so a call that finds a boundary passed takes the branch that
settles it. `Tick` is `tick_v1`: promotion and then the three scans of `recover_expired_v1`, over the
rows that are not `locked`, each in the order of its index and within the shared `Limit`; `failed` is the
phase whose exception the tick caught. What closing an attempt writes is a record `[row, out, entries]`,
so that `fail_v1`, `expire_owned_v1` and recovery share `Retried`, `Closed` and the operators that choose
between them, as the SQL functions do.

Data. Times are naturals and a NULL timestamp is `Never`. Payloads, names and workers are model
values. Results, errors, events, notifications and validation of arguments are left out: no transition
reads them. A rejected call changes nothing and is a stuttering step. A retry delay is any member of
`RetryDelays`. The clock is read once per call. In the functions that read it more than once, a later
reading can only turn an accepted call into a refused one, with one exception: `release_owned_v1`, where
the distance between the readings is the parameter `late`, at most `Slip`.

### Transactions that lock row by row

`Dependencies`, `TaskGroups`, `Admission` and `FastTier` are about what happens between two statements, so
a transaction there is a process: `tx[x]` (`claim[c]` in `Admission`) holds where it is, the locks it
has and waits for, and what it wrote. Under READ COMMITTED a statement reads what was committed when it
began, with the writes of its own transaction on top; writes become visible at the commit. A circle of
waits is a state of the model, from which PostgreSQL's deadlock detector aborts one transaction where the
code expects it to. In these modules the checks of owner and fence that `TaskLifecycle` models are only
named, not repeated.

In `Dependencies` the deadline of a task that waits passes at any time (`late`). A resolver that releases such
a dependent ends it in the same transaction, after the cascade of the rejected ones, and that outcome
resolves the next level in turn: `tx[x].overdue` holds what is still to end, the innermost release first.
In `FastTier` a statement that rechecks a row after waiting for its lock keeps the lock whatever it finds,
a failure is retryable or not, and claims take rows in the order `ClaimOrder`, which priority and due time
give them and which need not be that of identities. A claim that waits longer than its lock timeout gives up
what it picked; the fused one keeps what it completed.

`HandlerReplay` runs an activation and its replay side by side over one `DurableStore`: each call is
answered by the live context and by `replayHandler` from the state exported when the activation began. The
operation of a new checkpoint begins in one step and ends or throws in a later one, so calls of the same
name overlap it, in the live context and in the replay, and the replay may have stopped when it ends.

### The worker

`TaskAttempt` is the object of that name with the path of `executeTask` and `settleFailure` that drives
it. `a` holds its fields, `pc` the place of `executeTask`, `call` the statement that path awaits, `ask` the
expiry request of the expiration timer, `beat` the heartbeat round and `age` the time since it left; `row`
and `left` are PostgreSQL's side. A statement is sent, may commit, and is then answered or fails, so an
answer can be lost after its commit. Times are countdowns, so the model needs no horizon. A timer fires
any time after it is due, as behind a blocked event loop.

`HeartbeatSchedule` has the schedule in the same countdowns; `ReservedConnection` has the workers that
hold and close the shared connection, the transaction in flight with the rounds that joined it, and
the parked connect. `WorkerDispatch` keeps executions and claims in bags of records, because they have no
identity that the loop uses. `WorkerRun` has registry statements in two stages (sent, applied), since
one may commit long after its run ended. `WorkerProcess` has one state per worker and the timers and
promises of the runner. In these modules a step runs from one `await` to the next.

## What the runs check

A run asks one question of a part of the system; where a question needs several instances (one that
makes batches cross, one in which deadlines bite), the MC module holds all of them, and the variable
`part`, chosen initially and never changed, says which one runs. The variables of the others are fixed.
A property that names a part is about that instance. A property that a theorem also states is the one
of the component, and the MC module extends the component: TLC and the prover read the same formula.

| Run | Parts and bounds | Question |
| --- | --- | --- |
| `lifecycle` | 1 task, 1 worker with up to 3 claims, all waits, 4 time units, `Slip = 1` | Do rows stay well formed, are attempts and execution time counted once, does the boundary reached first decide, are outcomes, cancellations and answers final? Is every step a step of the contract? |
| `release_race` | 1 task, `Slip = 1` | Does a release that meets the timeout between two clock readings keep the task claimable? It does not. |
| `worker` | one attempt with all boundaries (`races`), with late claims and rounds (`window`); dispatch with cohorts and faults (`shares`), pauses (`slots`), tasks without a handler (`drain`) | Is a handler aborted only for what PostgreSQL reached, is the recorded outcome the real one, does the local window close before the lease ends? Are slots and shares kept? |
| `progress` | the attempt (`ends`, `lost`), connection (`gate`), dispatch (`wakes`), `runs`, process (`exits`) and `task`, fair | Does what was asked to end come to an end, and is what waits noticed, when handlers and statements may hang? Is the process honest about its end, and does the registry name the run that dispatches (`runs`: two runs, two stops)? |
| `heartbeats` | 2 or 3 workers on one connection (`sessions`, `sizes`, `queue`); 2 tasks and 5 lease objects, with the proportions of the defaults (`rounds`) | Is the session idle between its uses, do shared rounds get their own rows, do rounds leave in time and answer their own leases? |
| `heartbeat_stray` | the part `sessions` | Does a returned client carry no round? It may. |
| `relations` | 3 tasks with two policies (`resolution`), 4 of which two may be released too late (`overdue`), a group of 2 members in 2 shards (`counts`, `locks`), 2 transactions | Do dependents follow their edges, do groups count their members, does nobody wait in a circle? |
| `relations_progress` | 6 tasks whose cascades cross (`crossed`), a group with an uncounted outcome (`drift`), fair | Does no task stay blocked, and does every sealed group finish? |
| `database` | 2 backends on 2 shards (`wakes`, `caps`), 2 queues and budgets (`budgets`), a rate of 3 (`rate`); activations of 3 calls over 2 names (`steps`, `timers`, `children`) | Do limits hold without idle room, and does a replay tell what the live task does? |
| `admission_stale_share` | the part `shards` | Is a release serialized with claims when a synchronization changes the share? It is not. |
| `tiers` | 2 fast rows with crossing batches (`locks`, `batches`), 1 with every operation (`ends`) | Can only a claim deadlock, does the fast tier decide under the lock? |
| `tiers_progress` | crossing batches (`locks`); 2 full-tier tasks that compete for ticks of one row, with leases, cancellations and delayed starts (`leases`), with a deadline and a timeout (`crowd`); 1 that waits and is retried, in a queue that may be paused (`waiting`); fair | Does every batch end although some wait in a circle, and do ticks settle all that is overdue, with nothing assumed of workers? |

Bounds. In `TaskLifecycle`, `Horizon` stops the clock, `MaxFence` the claims, and a claim or heartbeat is
taken only if its lease ends within the horizon, so that every lease can run out inside the run. Two
attempts let a retry end in a failure; the definitions put the deadline before the timeout and the
timeout before the deadline. One task is enough where the properties are about one row, because rows meet
only in the claim order, the limit of a tick and the sequences; the other runs have two. Two concurrent
transactions are the fewest that race, and each instance of the row-locking modules has the rows that two
of them need to cross. Two shards are enough to borrow, and `MaxShards` is a constant for that reason.
Three calls and three activations let a handler store, suspend, return and ask again. `Outside` names
which of cancellation, shutdown and late commits of an abandoned round may happen to an attempt: `races`
leaves out the last, which `window` has, so that each instance stays small. Transactions, workers and
lease tasks are interchangeable where `Symmetry` is used; runs with liveness do not use it.

Deadlock checking is off where the program may stop: a process that exited, a task that ended, a handler
without calls left, transactions that wait in a circle that a property speaks of. It stays on in the
lifecycle runs (a tick is always possible) and in `heartbeats`.

Fairness. `TaskLifecycle!FairSpec`: weak fairness of `Advance` and of `ScanBecomesDue`, since time passes,
and strong fairness of `CleanTick`, a tick that meets no lock and no error. Every worker ticks once per
`maintenanceIntervalMs` and a row lock lasts one short transaction, so ticks that meet a lock or fail
cannot be all there are. It must be strong: a tick that skipped a locked row may close the gate of the
lease scan behind it, which disables the clean tick that would have recovered the row until the gate
opens again. Nothing is assumed of workers, producers and operators. `MCTiers!FairSpec`
assumes this in each full-tier instance, and of the fast tier that transactions go on and that a transaction
gets a row that is free again and again.
`MCProgress!FairSpec`: the event loop runs due timers and continuations, and in the parts that say so
statements are answered. Nothing is assumed of handlers (except in `wakes`, where a slot is free only
once its handler returned), of heartbeat rounds, of the expiry request, of the adapter and, in `runs`, of
registry statements; the poll timer is off in `wakes`, so that a task is claimed through its
notification. A pool that is asked for ever lends a connection at last (strong fairness, as a refused
connect is tried again). `MCRelations!FairSpec`: statements go on, and a transaction that waits for a
row gets it at some time although others take it again and again, because PostgreSQL queues the waiters
of a row; an aborted cascade is sent again, as the worker does; maintenance looks at a group now and then.

### Disagreements between code and documentation

`release_race`. `release_owned_v1` accepts a release while `attempt_timeout_at > clock_timestamp()` but
charges `clock_timestamp() - acquired_at`, and `clock_timestamp()` moves within a statement. If the timeout
passes between the two, the row becomes `ready` with no execution time left. `claim_one_v1` excludes such
a row, and since `attempt_timeout_at` was cleared no recovery scan finds it: without a deadline it stays
ready for ever. The comment above the check says that a release never hides an expiry the database was
about to record. What holds for any distance between the readings is `BudgetKept`: a release overcharges by
less than that distance, a claimed task always has execution time left, and repeated releases do not add
up. `lifecycle` checks it with `Slip = 1`, and `BudgetKeptAlways` proves it.

`heartbeat_stray`. `close()` of the reserved connection waits for the rounds in flight when it is called and
then looks only at `closed`. If another worker held the reservation, sent a round and closed in between,
the client goes back to the pool while that round still sends its statements on it.

`admission_stale_share`. `notify_concurrency_capacity_v1` keeps the share it computed from its first read
of the policy after it read the policy again, so a release next to a change of `max_active` may wake
nobody. The fallback poll finds the room later.

Three smaller ones were met while modelling, and no run is kept for them. A task that joins a group after
the first statement of its cancel can end in a deadlock with that cancel, which is why `locks` has a fixed
set of members. `notify_budget_capacity_v1` looks for waiting queues before its lease stops counting, so
a task enqueued in between is found by polling only; `wakes` is about queue limits. A new wait whose
target has passed returns at once in a live handler while its replay stops there; `StopsWithLive` is the
direction that holds.

## What is proved

TLC shows a property for the instances above, TLAPS for every value of the constants that satisfies the
assumption of the module:

- `ConstantsAssumption` and `FiniteAssumption` (lifecycle): numbered tasks, of which any set can be
  counted, any workers, definitions, delays, waits and limits; `Never` lies beyond every time the clock
  can produce, leases, limits and wait spans are positive, and null values are not worker or wait names.
- `AttemptAssumption` (attempt): lease and timer lead are naturals, and each boundary is a natural or not
  set, which a negative number stands for.
- `ProcessAssumption` (process): finitely many workers (as many of them as there are is all of them), with
  or without a probe. `WorkerRun` needs no assumption.
- `ScheduleAssumption` (schedule): interval, lease, retry delays and ages of claims are naturals, and a round
  is bounded by at least one time unit and at most the interval, as `heartbeatRoundBoundMs` computes it.
- `RoundAssumption` (connection): the times and the numbers of batches of rounds are naturals.
- `FastAssumption` (fast tier): the number of tasks, lease, timeout, deadlines and places in the claim order
  are naturals.

| Theorem | Module | Statement |
| --- | --- | --- |
| `TypeCorrect` | `TaskLifecycleProofs` | `Spec => []TypeOK` |
| `OneHomeAlways` | `TaskLifecycleProofs` | a task has a runtime row or an outcome, never both, never neither |
| `DeadlineRestoredAlways` | `TaskLifecycleProofs` | only a task suspended on a signal or a decision has a deadline other than its own |
| `OutcomeFinalAlways` | `TaskFencingProofs` | nothing touches a finished task |
| `CancelSticksAlways` | `TaskFencingProofs` | a task asked to stop keeps its claim and the end of its lease until it is canceled |
| `SuccessByLatestClaimAlways` | `TaskFencingProofs` | only the newest claim makes a task succeed, and no two active rows share a fence |
| `BudgetKeptAlways` | `TaskFencingProofs` | an owned task times out exactly when its execution time is used, and any other was overcharged by less than the distance of two clock readings of one release |
| `AttemptLedgerAlways` | `TaskLedgerProofs` | attempts are closed once, without a gap, under growing fences, within the limit |
| `ConstraintsHoldAlways` | `TaskLedgerProofs` | every row written satisfies the CHECK constraints of the schema |
| `OpenWaitSuspendsAlways` | `TaskLedgerProofs` | an open wait of an unfinished task suspends it, in the attempt that created it |
| `SucceededInTimeAlways` | `TaskLedgerProofs` | a task succeeds before the deadline it was given |
| `FirstBoundaryDecidesAlways` | `TaskContractProofs` | an attempt is closed against its owner only for a boundary that was reached, of deadline and timeout the earlier one |
| `AnswersKeptAlways` | `TaskContractProofs` | a delivered answer is never replaced or withdrawn |
| `ContractKeptAlways` | `TaskContractProofs` | `TaskLifecycle` implements `TaskContract` |
| `LapsedOutsideWindowAlways` | `TaskAttemptProofs` | recovery takes no task from an attempt whose lease window is open |
| `ConfirmedAbortAlways` | `TaskAttemptProofs` | a handler is aborted for a boundary only after PostgreSQL reached it |
| `RecordedTruthAlways` | `TaskAttemptProofs` | the outcome recorded is how PostgreSQL ended the claim |
| `HandlerStartsOwnedAlways` | `TaskAttemptProofs` | no handler starts on a task that recovery has taken back |
| `ProcessPromisesAlways` | `WorkerProofs` | the adapter outlives the runs, readiness is true, and an exit is clean only after a clean end of all runs |
| `RegistryAlways` | `WorkerProofs` | no registration brings back the row of a stopped run, and a run that dispatches finds its own row |
| `RoundsInTimeAlways` | `HeartbeatProofs` | regular rounds keep their interval, none is empty, a busy retry ends inside the windows it renews, one lost round costs no lease |
| `AnswerForItsLeaseAlways` | `HeartbeatProofs` | an answer touches only the leases its round was sent for |
| `ConnectionKeptAlways` | `HeartbeatProofs` | a transaction starts on an idle session, and a reservation that left has neither holder nor connection |
| `RoundsShareAlways` | `HeartbeatProofs` | rounds that share a transaction get the rows of their own batches, and none is passed over twice |
| `FastLocksInOrder` | `FastTierProofs` | transactions of the fast tier wait in a circle only through a claim |
| `FastDecisions` | `FastTierProofs` | recovery takes only what is due, a cancellation is kept, no batch succeeds a task past a boundary |

### The arguments

Rows. `Inv` of the lifecycle is the type invariant, `RowOK` of each task, and where a task lives. `RowOK` says
what the properties alone do not: an active row has an owner, a fence and no open wait; any other row
has neither an owner nor a cancellation; only a row that waits without a time has a deadline other than that
of its task. `OneHome` is not inductive without it: `DeadlineSettlement` closes a canceled row with its
owner, so it must be known that a canceled row has one. There is one lemma per action, and each uses
the lemmas on settlements: what `Retried`, `Closed` and the others write satisfies the row invariant,
whoever calls them. `QuietStep` is the key to two action properties: no step changes a finished task, and a
step changes one that was asked to stop only by canceling it.

Fences and budgets. `FenceInv` says that every fence handed out is at most `fenceSeq`, and that the fence of
an active row is the largest handed out for its task. Every action but the claim keeps the fence of a row
or ends the row (`Shape`), so only a claim that reused a number could break it. The budget theorem
rests on the same shape: a step charges a row the time it was held, only before the timeout and, if it is a
release, at most `Slip` more. A row that was overcharged beyond its time is never claimed again, so the
excess is never carried into a second charge.

Ledger. `AttemptLedger` compares `attempt_history` with the outcome, and says nothing of a task that still
runs, so it is not inductive. `LedgerInv` adds the open attempt: its number is one more than the entries
closed (`Numbered`), its fence exceeds all of theirs and is not below that of a wait (`Fenced`), and an open
wait is the one that the row is suspended on, in the current attempt (`Waiting`). The clause that does
the work is that the wait of the current attempt with the largest fence is newer than every closed
attempt: a recovery that closes a suspended task charges it to the claim that suspended it, and must
not repeat a fence of the ledger. `Fits` is the form in which one lemma per kind of settlement is stated; the
actions share them, as the SQL functions share the code.

First boundary. The lemmas `...Fair` say of each settlement which boundary it may name. The action property
follows from them and from `TickFair`, which covers a tick whose scans settle many rows at once.

Contract. `Standing` maps a definition, a row and an outcome to the abstract standing of a task. Each
settlement keeps the contract (`...Keeps`), each call changes one standing as the contract allows
(`...Allowed`), a tick changes several, and a claim is a `Start` under the next token.

Attempt. The properties compare the worker's knowledge with PostgreSQL's, and what lies between the two is
in flight. `Inv` of `TaskAttemptInvariant` therefore follows the answers: an answer on its way, to the
statement of `executeTask` (`Answers`) or to the expiry request (`Asked`), tells the verdict of the row,
and a verdict never changes (`KnownStays`); the statement awaited fits the place (`Awaits`); a
heartbeat that left `age` ago opens no window beyond the lease (`Reported`); and a window that closed has
aborted the handler (`Closed`). The lemmas are of three kinds: what each method of the attempt does to
its fields (`...Sound`), what each statement does to the row (`...Follows`), and one per group of actions.

Process. `ProcessInv` follows the phases of a process: before the runs nothing is shared, while it serves
every worker is starting, up or leaving, from the shutdown on none is, and once the adapter closes all have
settled and their failures are known.

Registry. A statement may be applied long after the run that sent it has returned, so `RegistryInv` follows
statements rather than runs: whatever may still write a row is followed by a deregistration that waits for
it (`Covered`), a row that no failed statement explains is that of the current instance and somebody knows of
it (`Known`), and from its readiness check on a run has no statement of an earlier one beside it (`Alone`).

Schedule. `ScheduleInv` ties the timer to the slot of the next regular round, the round in flight to the slot
it left at, and each lease to the time since the last regular round: the window that is left and that time
together outlast two intervals and a round. The last clause is what a lost round spends; the property only
says that something remains.

Connection. `ConnectionInv` ties the session of the reserved client to the transaction in flight: a session
that is not idle is that of a transaction which still sends on that client, and every way in which a
transaction ends on a reserved client commits, rolls back, or discards the client.

Shared rounds. `RoundsInv` ties rounds, queue and transaction together: a round waits at most once, a live
member is a round that has not settled and knows its batches, and a round that a heartbeat has passed over
has no earlier deadline than the leader of a transaction that can still be joined, so it joins. That each
round gets its own rows is a fact about sums: the rows of member `i` begin after `Offset(members, i - 1)`, and
`Offset` and `Only` (what the loops of `endTransaction` and `join` compute) are recursive functions.
`Induction` and `Recursion` of `HeartbeatProofs`, derived from the well-foundedness of the naturals
(`NatLessThanWellFounded`, `WFMin`), give their equations and what they compute.

Fast tier. `FastInv` says what a transaction knows of the rows it holds while others run: no two hold a row, a
transaction writes only what it holds and only as a row may change (`May`), a claim has picked ready rows,
recovery has written rows past a boundary, and a heartbeat or completion holds only rows below those it has
yet to lock. In a circle of waits without a claim, look at the batch that waits for the greatest row: whoever
holds that row waits for a greater one, by the last clause.

The strengthened invariants of attempt, process, runs, schedule, connection and fast tier were first checked by
TLC on the instances of the runs. One proof obligation failed for a reason of the model: the `CASE` by which
`Expired` chose what to confirm had overlapping arms, of which TLC takes the first and TLA+ any. Its arms are
disjoint now, and so are those of the other modules. For the sake of the proofs `FastTier` keeps the rows it
has yet to lock as a set from which it takes the least, and `ReservedConnection` filters its queue with a
recursive function.

## What is only model-checked

- `BatchesEnd`, `MaintenanceSettles`, `EndsWhenAsked`, `NothingStaysUnnoticed` and `RelationsSettle`: liveness under
  fairness needs reasoning about ENABLED, which the prover does not do.
- `DispatchKept`: the counts are over bags of executions and claims, and the prover's library has no theory
  of bags (it lacks operators that `WorkerDispatch` uses, so no proof can extend that module).
- `DependentsFollowEdges`, `GroupCountsMembers`, `NoDeadlock`, `NoIdleRoom`, `LimitsHold` and `CapHolds`:
  invariants of transactions in the middle of their statements, with sums over edges, members, shards and
  leases. A proof would have to develop those sums by induction first, as `HeartbeatProofs` does for
  `Offset`, and an invariant of every statement of every transaction; neither has been done.
  `ClosedToMembers` needs no sums, but the same invariant of the transactions.
- `ReplayFaithful`: it needs an invariant that relates the exported state, the live store and what both
  activations were answered so far; no proof has been attempted.
- `NoStrayTransaction`, `NoIdleShare` and `BudgetIntact` are refuted.

## What is not modelled

- Ingress (idempotency keys, debounce, throttle, batches): the plain enqueue is an action of
  `TaskLifecycle`; keys and windows would be a component that no other module depends on.
- Schedules and cron, redrive, purge: to the modelled parts these are enqueues and ends of histories.
- Retention, statistics and cold export: they work on history that no modelled part reads again.
- `retry_delay_v1`: the lifecycle takes any delay of a set, which covers whatever it computes.
- The notification listener: `WorkerDispatch` takes a notification as an event that may come late.
- Operator reads, dashboard, telemetry and adapters change no state of the queue. Migrations are DDL. The
  SDKs in other languages call the same SQL functions; the TypeScript one stands for them.

Inside the modelled parts, left out are: join modes of child sets and the repair of dependency counters;
prerequisites and keys of tasks added to a group; per-key limits, rates of budgets and the rebalance of a
stored bucket; attempt history, retry delays and the tier switch of the fast tier; progress reports and size
limits of the durable store; several queues of one worker, maintenance passes and middleware. The header
of each module says so where it matters, and `components` in `PROJECT.json` lists every part.
