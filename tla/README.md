# Verification of the PostgreSQL job queue

TLA+ models of the job queue in `src/`, TLC instances that model-check them, and
TLAPS proofs of what matters most for every value of the constants. The system
distributes jobs to asyncio workers through one PostgreSQL table: a worker claims
a row for the duration of a lease, renews the lease while the handler runs, and
reports success or failure; any worker puts rows with expired leases back.

## Inventory

| Component (source) | State | Operations | Interacts with |
|---|---|---|---|
| jobs table and SQL functions (`schema.sql`) | one row per job: status, owner, lease, attempts, schedule, priority | INSERT ... ON CONFLICT, `claim_next_job`, `renew_job_lease`, `recover_expired_leases`, `process_dead_letters` | everything, through single-statement transactions and row locks |
| QueueManager (`queue_manager.py`) | none; each call is one to four transactions | enqueue, batch, claim, mark running, complete, fail, renew, recover, bury, statistics, registry | pool, all tables |
| Worker (`worker.py`) | `_running`, `_current_job`, handlers, one renewal task per handler | poll, heartbeat and recovery loops; `_execute`, `_handle_failure` | QueueManager; other workers only through the tables |
| AbstractQueueBackend (`abstract_backend.py`) | the contract | abstract methods with their promises | implemented by QueueManager |
| workers table (`schema.sql`, `queue_manager.py`) | one row per worker id: status, current job, last heartbeat, counters | upsert, heartbeat, increment, delete | two loops of a worker write the same row |
| Prometheus exporter (`prometheus_exporter.py`) | `_metrics`, the page of the last scrape that succeeded | scrape, render | reads jobs and workers statement by statement |
| metrics collector (`metrics.py`) | ring buffer `_snapshots`; table `metrics_snapshots` | capture, persist | QueueManager's statistics; the dashboard reads its buffer |
| dashboard (`dashboard.py`) | the screen | look, two queries, draw | collector, in the same event loop |
| connection pool (`database.py`) | one global pool | lazy `init_pool`, `acquire`, `close_pool` | every statement |
| main, models, chaos tests, deployment | - | start-up and shutdown, workload | - |

What is hard here:

- *Interleaving at every await.* asyncpg commits each statement by itself, so
  `fail_job` decides on a row it no longer holds, and `complete_job` writes a row
  it does not check. Correctness hangs on the lease being valid meanwhile.
- *Interleaving inside a statement.* Under READ COMMITTED a statement finds its
  rows in a snapshot and waits for their locks; what it found may be gone.
- *Time.* A lease must outlast everything between two renewals. Late renewals
  make two workers hold one job.
- *Crashes, cancellations, exceptions* at each of the dozen statements of an
  attempt, including an exception after the statement committed.
- *Liveness*: every enqueued job must settle, whatever finite trouble there is.
- *Observation*: the registry is overwritten from two loops with values read
  earlier; the exporter and the dashboard put together what they read at
  different times, and carry on after half of it failed.

What makes each part correct:

- statements: what concurrent ones do is what atomic ones do one after another.
- table and workers: claims are unique; a row in progress can always be recovered;
  a job is written off only after its attempts; a settled job stays settled; one
  handler per job at a time; one completion per job; every job settles.
- lease timing: no lease runs out under a worker at work.
- registry: live workers are registered and shown as active, stopped ones are not, and
  what the row says converges to what the worker does.
- enqueue: one row per key, and its event at most once.
- exporter, collector, dashboard: counters do not go back, history has no holes,
  one screen shows one moment, and all of them catch up.

`PROJECT.json` lists all components and every hazard with its line and properties.

## Modules

| Module | Models |
|---|---|
| `JobTable` | the jobs table: one variable per column that some WHERE clause or branch reads, one action per SQL statement |
| `JobTransactions` | `JobTable`'s statements as PostgreSQL runs them, and the producers; implements `JobTable` |
| `JobQueue` | `JobTable` with any number of workers: poll loop, renewal tasks, recovery loop, faults; runs `JobTable`'s statements, implements `QueueBackend` |
| `QueueBackend` | the abstract contract: who may move a job from which status to which |
| `LeaseTiming` | one attempt in discrete time: poll loop next to its renewal loop |
| `WorkerRegistry` | the workers table: register, heartbeats of both loops, shutdown, crash, restart |
| `PrometheusExporter` | `collect_loop` over jobs that change as `QueueBackend` lets them, and a changing workers table |
| `MonitoredQueue` | `JobQueue`'s workers and `PrometheusExporter` on one database |
| `MetricsCollector` | collector and dashboard in one event loop |
| `MC...` | instances for TLC: id assignments, limits, symmetry |
| `...Proofs` | theorems and their TLAPS proofs |

The definitions that start with a comment "Mutation" are plausible bugs, which
no specification uses: put in the place of the definition after them, each makes
TLC find some property violated (`PROJECT.json` says which).

**JobTransactions.** A session runs `stmt[s]` in steps: `Begin` takes the snapshot
(`todo[s]`, the rows that matched), `Visit` waits for a row's lock and checks the
WHERE clause again on its committed version (`held[s]`), `SkipLocked` is SKIP
LOCKED, `Commit` writes the held rows and lets go. Committed rows are
`JobTable`'s variables. A claim visits rows by `Priority`, a sweep in any order. Any
session may run any statement for any worker id and any job ever claimed, so the module
covers every caller, also those no worker of `JobQueue` would be. `EnqueueBatch` inserts
one job per transaction and logs its event in another one if the row was new; the
event's foreign key takes part in the locking. `Abort` is every way a statement
ends without effect. The refinement `Serializable` says that each commit is one atomic
statement of `JobTable`: `Serializable` is `JobTable!StatementByStatement`, which
`JobQueue` implements in its turn. A sweep writes *some* of the matching rows
(`RecoverExpiredLeases(S)`, `ProcessDeadLetters(S)`), those that matched when it
started; a lease may run out meanwhile. Lock waits
of `complete_job` and `fail_job` have no owner to check again: they write whatever
the row is by then.

**JobTable and JobQueue.** `pc[w]` names the statement the poll loop of worker `w`
awaits next; one action executes it:

| `pc` | Code |
|---|---|
| `poll` | `claim_next_job` |
| `log_claimed`, `mark_running`, `log_started`, `heartbeat_busy` | rest of `claim_job`; `mark_running` and its event; heartbeat |
| `handler` | the handler, with a `_lease_renewal_loop` in `renewing[w]` |
| `complete`, `log_completed`, `count_processed` | `complete_job`'s UPDATE and event; `increment_worker_stats` |
| `count_failed`, `read_attempts`, `requeue` / `give_up`, `log_outcome` | `increment_worker_stats`; `fail_job`'s SELECT, branch, UPDATE, event |
| `heartbeat_idle` | the `finally` clause |

Statements that touch no modelled column (`Bookkeep`) are kept as steps because a
worker can crash, be cancelled or see an exception there. `Finish` lets a
statement take effect and still raise; `Raise` lets it raise without effect;
`OnException` says which handler catches it. Leases are `none`, `valid` or
`expired`; jobs are `due` or `later`: exactly what the SQL compares with `NOW()`.
Any due row may be claimed, since any may be the first unlocked one. `Faults` and
`MaxFaults` say which faults a behaviour may have and how many. The fault
`expire` is a lease that runs out although its worker is at work (`KeptAlive`);
the lease of a dead worker runs out without one.

A worker that is down is `off` or `ended`. `off` is a process that is being started;
`register_worker` may raise there, and then `Worker.start` is over, main.py's
`gather(return_exceptions=True)` keeps the exception, and the worker has `ended`
in a process that lives on. `stop` and cancellation end it too. Only a crash of that
process, which restarts it, or `Deploy`, an operator's decision, makes such a worker
`off` again. `inflight[w]` holds the
renewals that were sent before their task was cancelled: `lease_task.cancel()` is not
awaited, so one may arrive (`LateRenewal`) when the worker has long gone on.

**LeaseTiming.** Clocks are countdowns. Each statement takes effect and returns
within `Delay`, including the wait for a pool connection and for the event loop;
up to `MaxMisses` renewals in a row may fail. Handlers take as long as they like.
A renewal that arrives after its task was cancelled is left out: it could only prolong
the lease.
The module turns the fault `expire` into a condition on the configuration:
`Lease >= (MaxMisses + 1) * (Interval + Delay) + 9 * Delay`.

**WorkerRegistry.** The poll loop as far as it touches the registry, the
heartbeat loop split where it reads `_current_job` and where its UPDATE takes
effect, and main.py's shutdown, after which the heartbeat of a `finally` clause
may still be on its way. Several workers may have one id and share a row, as
main.py's do when it runs in several processes; `Namesakes` are the others, and
`remover` remembers whose shutdown deleted the row last. A worker whose
registration raised has `ended`. A heartbeat grows older than the 30 seconds of
`get_queue_stats` at any time (`HeartbeatAges`), since every heartbeat may raise or hang.

**QueueBackend.** The refinement maps `state`, `holder`, `attempts` to columns
`status`, `worker_id`, `attempt_count`. Its point is `Held`: only the holder's report
moves a job on, although the SQL of `complete_job` and `fail_job` never checks that.

**PrometheusExporter.** `at` names the statement `collect_loop` awaits, `stats` is
what the round has read, `metrics` is `_metrics`. A count is represented by the rows it
counted. The jobs may change between any two statements by any step of
`QueueBackend`: what is shown of the counters holds on every backend that keeps the
contract, and on this one as far as `crash_only` shows that it does. When an exception
puts a completed job back (run `error_after_commit`), `jobqueue_completed_total` goes back
with it.

**MetricsCollector.** One action per stretch between two awaits of
`MetricsCollector.start` and `Dashboard.run`. A snapshot is the number of its capture.
`view` holds the dashboard's locals across its awaits, `screen` what it drew. An
INSERT may raise with or without effect, and `Shutdown` may cut it off either way.

**MonitoredQueue.** Every step is one of `JobQueue`, which leaves the exporter alone,
or one of `PrometheusExporter`, which only reads the jobs (`ExporterStep`). In
place of the contract there are workers that crash, are stopped or cancelled
between any two statements of a round.

## Runs

| Run | Faults allowed (how many) | Shows |
|---|---|---|
| `transactions` | rollback of any session at any step | concurrent statements serialize; a key's event is logged at most once; only sweeps can deadlock |
| `any_fault` | crash, stop, error, expire (2) | claims unique, no job written off early, no row stranded, owner checks pass only for the latest claim, at most one extra attempt and one repeated completion per fault and none without |
| `crash_only` | crash, cancel, stop (3); late renewals | one handler per job, `fail_job`'s decision never stale, completed once, settled for good, refinement of `QueueBackend`; one job has no handler |
| `live` | crash, stop, error, expire (2); late renewals | every enqueued job settles for good, unless every worker has ended and none is deployed |
| `lease_tight` | failing renewals | the lease bound suffices, at the shortest lease it allows |
| `registry` | crash, shutdown, error, early_error (3) | two workers with one id: a worker that runs has a row unless its namesake's shutdown deleted it, stopped ones are gone, a row that has lost its recency gets it back, rows converge to `_current_job`; one job has no handler |
| `monitored` | crash, cancel, stop (1); failed scrapes and restarts (1) | beside a real worker the counters of settled jobs never decrease and the page catches up with tables at rest |
| `collector` | statements that raise (2), shutdown | ring buffer, screen and table agree with what was captured, each missing row has an INSERT of its own that raised; snapshots reach the screen |

The faults of a run are the widest set under which all its properties hold, with
two exceptions where a theorem goes further: only `OwnerCheckIsFence` keeps "cancel"
out of `any_fault`, and the theorems on handlers and decisions allow "error", which
`AtMostOneCompletion` and the refinement keep out of `crash_only`.
The violation runs show how little it takes to break one beyond that:

| Violation run | What is enough |
|---|---|
| `error_after_commit` | an exception after `complete_job` committed: a completed job returns to pending |
| `cancelled_worker` | cancellation: the orphaned renewal task keeps the job leased for ever |
| `no_handler_busy` | no fault at all: the idle worker is shown busy for ever |
| `failed_counter` | no fault at all: `jobqueue_failed_total` decreases when the recovery loop of the one worker buries the job it failed |

The findings in `PROJECT.json` quote the sentence of the repository each contradicts.
Four more divergences need no run of their own:

- `recover_expired_leases` does not look at `max_attempts`: a crash on the last
  attempt gives the job another one, although readme.md:167 calls `max_attempts`
  the "attempts allowed before dead-lettering". `ExtraAttemptsBounded` without the
  term `faults` fails at once; with it, it says that this is all that happens.
- Worker ids repeat between processes (main.py:129, run three times by
  docker-compose), so the owner checks of `mark_running` and `renew_job_lease`
  cannot tell namesakes apart, which is why `OwnerCheckIsFence` is stated for
  distinct ids. The properties of the registry are stated for any ids, and
  `LiveIsRegistered` says what is left: the shutdown of one namesake deletes the row of all.
- A worker whose `register_worker` raises (worker.py:73) never runs again: main.py:160
  keeps the exception, the process lives on, and `restart: on-failure` does not apply.
  `EventuallySettled` without its premise fails after two such errors.
- The shipped lease of 30 s equals the statement timeout of 30 s (worker.py:28,
  database.py:25): one slow statement is enough for the lease to run out before the
  handler starts. `LeaseIsLongEnough` is false of it. And a lease that runs out under a live worker
  lets two workers complete the job, as readme.md:66 (at-least-once) admits
  and scale_story.md:190 does not. `RepeatsBounded` says how often: once more per
  fault.

### Bounds

*Job queue:* two workers and two jobs. Every property relates at most two workers (two
holders of a job) and each job's row is independent of the others except in the
sweeps, for which two rows suffice. `max_attempts` is 2, so that there is a retry
and a last attempt; `AttemptLimit` (3 to 5) leaves room for the extra
attempts that faults buy, and is the only cap on a counter that the code lets grow to
2^31 - 1. Two or three faults give every pair or triple of faults at every
statement. `MaxLate` bounds the workers with renewals in flight: one in `crash_only`
and `live`, whose properties a late renewal could endanger, none in the others, where
the proofs allow any number. Workers and jobs are symmetric in `any_fault`, only workers
in `crash_only`, where one job has no handler. `live` has one job (the
property is about one) and no symmetry.

*Transactions:* two sessions, two jobs of different priority, two worker ids: two
sweeps that lock two rows in opposite orders, a claim that skips a locked row for
the next one, a statement that waits for the lock of another and finds the row
changed. One attempt per job before it counts as exhausted; the constraint
`SecondClaim` lets only one job be claimed twice. Producers send one job alone
and both in a batch, which share a key. The proofs drop all of these.

*Registry:* two workers with one id, since workers with ids of their own share nothing;
the claims are capped at two, the jobs at two: one heartbeat composed for an
old job can meet a newer one. *Lease:* interval 3, delay 2 and one missed renewal;
the same run with a lease shorter by one violates the property. *Monitored:* one job and one
worker, since a counter goes back only if some job leaves its status; two attempts,
so that one is retried and one is the last, one fault and one failed scrape or
restart; the proofs are for any number of each. *Collector:* a buffer of three and five captures, so that it overflows
twice; two errors, so that an INSERT fails before and after it took effect.

### Fairness

`JobQueue!Fairness`: asyncio schedules every coroutine and statements are
answered or raise (`command_timeout`), hence weak fairness of `PollLoop` and
`RecoveryLoop`; this includes that handlers terminate, without which no job
settles. `Start` is weakly fair for a worker that is `off`: its process died, which
docker-compose's `restart: on-failure` answers, or was just deployed. A worker that has
`ended` need not come back: a process that stopped cleanly is not restarted, nor one
that lives on without it. So `EventuallySettled` has a premise, that not every worker
has ended for good.
Time passes (`ExpireLease`, `Tick`). A sweep may miss a row whose lease runs out after
its snapshot was taken, but the sweep after it does not: `SweepUp(j)` is
strongly fair, since weak fairness of the loop would let it miss the same row for
ever, and strongly because a loop takes its two sweeps in turn and pauses while
its worker is down.
Nothing is assumed of producers, faults or renewals. `ExpireLease` is disabled by
a live holder unless it is a fault, so fairness never takes a lease from a worker at work. `WorkerRegistry!Fairness` is
the same for its two loops, without assuming that handlers terminate, jobs come or
workers are started.
The loops of exporter, collector and dashboard are weakly fair each as a whole (in
`MonitoredQueue` nothing is assumed of the workers): they
go on after an exception (each catches it inside its `while`), and nothing is
assumed of the tables they read. That an exporter which died runs again is an
assumption: compose starts it, but gives it no restart policy. `JobTransactions` assumes no fairness and
has no liveness property; `JobQueue` takes from it that a statement is answered or raises.

Deadlock is checked in every run but `collector`, whose program ends with
`Shutdown`, and `registry`, where every worker may have ended or been shut down;
workers that poll an empty queue take a stuttering `PollEmpty` step.

## Proofs

`JobTransactionsProofs`, for any number of sessions, jobs and worker ids, and any
priorities and batches. The invariant has three parts: `TypeOK`; `LockInv`, that no row is locked
twice and that a locked row still matches its statement's WHERE clause, since
nobody else can write it and time never undoes a match; `LogInv`, that an event is
logged or on its way only for a key that is inserted, and never both. From `LockInv`,
`CommitIsAtomic` shows statement by statement that a commit is the atomic statement:
a session that holds no row writes nothing, one that holds one does what `JobTable`
says, a sweep takes some of the matching rows. Hence `StatementsSerialize`.
With `QueueRunsStatements` of `JobQueueProofs`, that every step of the workers, producers
and clocks is one such statement or none, this is one half of a chain from row locks to
the contract; `QueueImplementsBackend` is the other half. `LoggedOnce` is `LogInv`; `DeadlocksAreSweeps` needs only that a statement on one row
waits for nothing while it holds it.

`JobQueueProofs` holds for any set of workers, jobs and limits, any assignment of
ids, and any number of faults.

1. *Whatever the faults.* `TypeCorrect`, then three inductive invariants:
   a row names a worker exactly while leased (`LeasedRecoverable`); the attempt number
   a worker holds never exceeds the row's, and a claim raises it (`ClaimsUnique`); a
   worker about to give up has seen the attempts used up, and they never decrease
   (`FailedExhausted`).
2. *Owner checks* (distinct ids, no "cancel"). `OwnerChecksFence`: a row that names a
   worker's id carries the attempt number of that worker's latest claim
   (`OwnerIsLatest`), and a renewal task runs only for the handler of its worker
   (`RenewsForHandler`, which cancellation breaks); so a check of the id is as good as
   a check of the attempt, although the code keeps no such number.
3. *No lease runs out under a worker* (`"expire" \notin Faults`). The invariant
   `WorkersHoldJobs` is the heart: from the claim to the report the worker's row
   is in progress, names its id, has a valid lease and carries its attempt number. None of
   the properties is inductive without it: they speak of handlers and statuses, while
   what keeps others off the row is the lease. From it follow `HandlersExclusive` and
   `RetryDecisionsCurrent`.
4. *No statement raises either.* `ReportsAreExact` adds that a worker about to
   log the completion is the only one there will ever be for this job; hence
   `CompletedOnce`, `SettledForGood` and `QueueImplementsBackend`, step by step: each
   action maps to an action of `QueueBackend` or to a stutter.

`AttemptProofs` assumes a finite set of workers, and nothing of ids or faults.
`ExtraAttempts`, which also needs limits of at least one attempt, counts, per job, the attempts made, the
workers that lost the job and are about to requeue it all the same, and a row that
waits for its next claim. The invariant `Debt` bounds the sum by `max_attempts` plus the
faults so far. It is inductive only next to its first conjunct: no more workers have
lost the job than there were faults. That pays for the step in which one of them
reads `attempt_count`, or requeues the job under its current holder: both are
possible only below `max_attempts`. `CompletionsBounded` keeps the same kind of
account of completions. `RepeatsBounded` is not inductive, since a claim leads to a
handler two statements later: `Budget` adds up the completions recorded, the
workers that may still record one, and one for a row open to a claim, and bounds
them by one plus the faults. A claim, a requeue and the record of a completion
move a unit from one place to another; a new one appears only where a lease runs
out under a worker at work, or an exception sends a completed job to `fail_job`.

`LeaseTimingProofs`: `LeaseSuffices` proves the lease bound for every configuration.
The invariant `LeaseCovers` gives the time the lease must have left at each point of
the attempt. With the default interval of 10 s and lease of 30 s it leaves two
seconds for a statement when no renewal fails, and less than one when one does.

`WorkerRegistryProofs`: `LiveRegistered` and `StoppedGone` for any number of workers
and any assignment of ids. What is left of a worker whose row may be deleted is one
UPDATE (`LeavingIsOver`), so nothing but a start inserts a row, and nothing but a
namesake's stop takes it from a worker that runs.

`PrometheusExporterProofs`: `SettledCountersGrow`, for any finite set of jobs (a
hypothesis of the theorem), on any backend that keeps the contract. The
invariant `PagesBehind` says that a job shown as settled, on the page or in the
round under way, has that status now; so the rows counted later include those
counted before, and the cardinality of a finite superset is no smaller.

`MonitoredQueueProofs` puts the two together. The exporter writes nothing a worker
reads (`QueueUndisturbed`), so `JobQueue`'s theorems hold beside it; where they give
`StepIsBackendStep`, each step of a worker is one that `PrometheusExporter`
foresees: lemma `MonitorRunsExporter`. With it `SettledCountersGrow` becomes a theorem about
the exporter beside real workers, `MonitoredCountersGrow`. It needs `"expire"` and
`"error"` out of `Faults`, as the contract does; `MonitoredTypeCorrect` needs nothing.

`MetricsCollectorProofs`: the four invariants of the run for any buffer size.
`HistoryLatest` is inductive by itself; `ScreenConsistent` needs it of the buffer
and carries it over to `view` and `screen` (`PicturesAgree`); the two about the table
hold together (`RowsInv`): every row is an older snapshot than the one in flight. The
variable `insert_errors` counts the INSERTs that raised, so that the errors of the
dashboard or of a capture cannot pay for a missing row.

Only model-checked: liveness (`EventuallySettled`, `LiveIsShown`, `RegistryFollows`,
`PageFollows`, `ScreenFollows`), which is beyond the prover.

## Not modelled

- The connection pool: the programs await `init_pool` before they start a task, and no
  method acquires a second connection while it holds one. Two statements can be
  late for `close_pool`: a renewal of a `lease_task` that cancellation orphaned, and the
  last heartbeat of a `finally` clause. A closing pool raises; once it is closed,
  `get_pool` opens another, which nobody closes. For the tables each is a statement
  that takes effect or does not, and the models have both (`Renew` after `Cancel`,
  `LastHeartbeat`). What a wait for a connection costs is part of `Delay`.
- The counters `jobs_processed` and `jobs_failed` of workers rows, and the exporter's
  gauges per worker; throughput and timing figures.
- Payloads, results, queue names; the rows of `job_events` other than 'enqueued' and
  'completed'.
- Rendering of the page and of the panels, HTTP, logging; handlers and the demo
  producer; chaos tests, deployment, alert rules.
- PostgreSQL beyond READ COMMITTED row locking: `NOW()` is taken to be monotone,
  and is the start of the transaction, which a statement that waited for a lock
  reads a little late. A crash of PostgreSQL is an error for every worker.

## Plan

1. `LeaseTiming` next to `JobQueue`, so that its bound implies that no lease of a live
   worker runs out, instead of `"expire" \notin Faults`.
2. The counters of the registry next to the completions they count.
