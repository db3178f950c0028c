# A formal model of the job queue

TLA+ specifications of the Postgres-backed job queue, TLC configurations that
check them on small instances, and TLAPS proofs of their safety properties for
all instances. Paths are relative to the repository (`src/`).

## 1. The system

### Parts, state and operations

| Part | Source | State | Operations that change it |
|---|---|---|---|
| Store | `internal/store/jobs.go`, `migrations/` | tables `jobs`, `dead_letters` (UNIQUE `job_id`), `job_events` (outbox) | `Enqueue`, `Claim`, `Complete`, `Retry`, `Fail`, `ReapExpiredLeases`, `MarkEventsShipped`; each one SQL statement |
| Worker | `internal/worker/worker.go` | the job in hand (a copy of the claimed row) | `Run` (claim, poll, return on cancellation), `process` (run the handler, record the outcome), `execute` (panic becomes error) |
| Work process | `cmd/jobqueue/main.go`, `internal/store/store.go` | goroutines, signal context, connection pool, metrics server | start, SIGTERM, `g.Wait`, `Close`, `runReaper`, scrapes |
| Shipper | `internal/analytics/shipper.go`, `client.go`, `clickhouse/schema.sql` | the batch in hand, ClickHouse's `job_events` | `NewClient`, `shipOnce` = fetch, insert, mark |
| gRPC API | `internal/grpcserver/server.go`, `runServe` in `cmd/jobqueue/main.go` | streams in progress | `Submit`, `GetStatus`, the loop of `WatchStatus`, graceful stop |
| Handlers | `internal/handlers` | the file of `write_file` | return nil, an error, or panic; truncate and write |
| Metrics | `internal/metrics` | counters | increments in `process`; three queries per scrape |
| Reports, tracing, config, CLI | `internal/analytics/reports.go`, ... | none | none |

Clients submit through the API. Any number of `jobqueue work` processes share
the store; each runs several workers (named `worker-0`, `worker-1`, ... in every
process), one reaper and one shipper. All coordination goes through the tables:
`FOR UPDATE SKIP LOCKED` for claims, `lease_expires_at` and the reaper for
crashed workers, the outbox for ClickHouse.

### What makes it hard

* A worker does not renew its lease, and its report (`WHERE id = $1`) carries no
  proof that it still owns the job. Whatever happens between claim and report,
  the report is applied.
* Claims and reports may be applied without the worker knowing it, or not applied
  with only a log line to tell; the process may be killed or told to stop anywhere.
* The reaper handles all expired rows in one statement, so one refused row
  refuses them all.
* A shipper makes three separate calls to two databases, without a lock, at the
  same time as the shippers of the other processes.
* A statement is not instantaneous: several transactions lock, wait for, skip and
  test again the same rows.
* The file a handler writes and the counters are not part of any transaction.
* Workers, reaper, shipper and scrapes share one pool, and shutdown must close it
  after the last of them.

`PROJECT.json` lists these hazards at the lines where they bite, with the
properties that cover them.

## 2. The modules

| Module | Models | Checked by |
|---|---|---|
| `JobStore` | the three tables and the six statements, under an arbitrary caller | as the abstraction of `RowLocks` |
| `RowLocks` | EXTENDS `JobStore`: the statements as transactions, lock by lock | `MCJobStore` |
| `JobQueue` | EXTENDS `JobStore`: clients, processes, workers, reapers, time and faults | `MCJobQueue` |
| `JobLifecycle` | the abstract promise: what a client may observe of a job | refined by `JobQueue` |
| `Reports` | EXTENDS `JobQueue`: the reports computed from its events | `MCJobQueue` |
| `SideEffects` | EXTENDS `Reports`: the file of `write_file` and the counters | `MCSideEffects` |
| `WorkProcess` | one `work` process from start to exit, and its connection pool | itself |
| `Shipper` | outbox, ClickHouse and the shippers | `MCShipper` |
| `Api` | the gRPC server and the commands `enqueue`, `status` and `watch`, over `JobLifecycle` | itself |
| `RetryDelay` | `calculateRetryDelay` | itself |
| `JobStoreProofs`, `RowLocksProofs`, `JobQueueProofs`, `SideEffectsProofs` (with those of `Reports`), `WorkProcessProofs`, `ShipperProofs`, `ApiProofs`, `RetryDelayProofs` | theorems | tlapm |

Definitions whose comment starts with "Mistake:" are wrong versions of the
definition that follows them. No action uses them; each stands for a plausible
slip in the code, and replacing the right definition by it makes TLC report a
violation of the property named in the `mutants` of `PROJECT.json`.

### JobStore

`jobs[j]` is the row of job `j`; status `"absent"` means that the id has not been
drawn. Timestamps are kept relative to `now()`: `run_after` is what is left to
wait, `lease_expires_at` what is left of the lease (-1: past). `Tick` ages them.
Columns no statement looks at (type, payload, errors, trace context) are left
out. `priority` and the order by `run_after` are left out as well: because of
`SKIP LOCKED` a claim may return any eligible rows. Every method is one SQL
statement and one action, CTEs included. A statement that would write a second
letter for a job is disabled (`MayBury`): Postgres rolls it back.
`StoreSpec` lets anyone issue any statement at any time, so its properties hold
whatever the workers do. `GetStatus` and the other queries change nothing.

A reap frees a set of expired rows, not all of them: `now()` is that of the start of
the statement, and rows that others have locked and changed drop out.

### RowLocks

A session executes one statement at a time: it takes a snapshot (`Begin`; `todo` are
the rows the WHERE clause found in it), visits the rows in any order, locks those
that are free and still qualify (`LockRow`), passes over those that no longer do or
that `SKIP LOCKED` tells it to (`SkipRow`), or waits (`AwaitRow`); `Commit` writes
what the statement of `JobStore` writes into the locked rows. A transaction may be rolled
back at any point, and a session in a cycle of waits may be picked by the deadlock detector.
`ImplementsStore` is the step from this to the atomic statements that all other modules use.
It rests on two facts about the code: the claim's sub-select has `FOR UPDATE`, so
that `status = 'queued'` is tested again under the lock, and the reaper's condition is in the
`UPDATE` itself. A side result: as the row lock is held until the commit and the
event is inserted under it, the events of one job get ids in commit order, which `Shipper`
assumes.

Two simplifications. No time passes while a claim holds rows (it waits for nobody), so
that its lease counts from its commit. A reap tests again every row that was changed while it
was under way, except those claimed meanwhile, which leave its `todo` at the claim's commit (`LeftBy`): their
lease was given after the reap's `now()`, which the model, with one clock for all, does not keep.
`MarkEventsShipped` is not among the statements: it locks rows of `job_events`, which no other
statement locks, and no row of `jobs`. It is in `Shipper`.

### JobQueue

A worker is a pair of a process and a name. Its `pc` follows `Run` and `process`:
polling, executing, succeeded or errored (the handler has returned and the outcome
is not yet recorded), stopped. It holds `job` and `attempts`, the copy `Claim`
returned.

| Action | Code |
|---|---|
| `Submit` | `Server.Submit` |
| `ClaimJob`, `ClaimAnswerLost` | `Claim` in `Run`; the second one commits but its answer is lost, so `Run` logs and polls on |
| `HandlerSucceeds`, `HandlerErrs` | `execute`; errors, panics and unknown job types are `HandlerErrs` |
| `Report` | the statement `process` picks, then back to `Run`; a `Fail` refused by the constraint is only logged |
| `ReportLost` | the statement failed without effect and was logged (if only the answer was lost, the step is `Report`) |
| `WorkerReturns`, `Sigterm`, `Exit` | the cancelled context is seen by `Run` only (`WithoutCancel` in `process`); `g.Wait` |
| `Crash`, `Start` | SIGKILL, restart |
| `Reap` | `runReaper` |
| `TimePasses` | the clock |

**The lease regime.** Everything depends on whether a live worker records its
outcome before its lease ends. `HandlersMeetLease` says whether this is assumed.
With `FALSE`, time passes freely and handlers may take for ever. With `TRUE`, time
does not pass the end of a lease held by a live worker: the intended operation
(a lease of 30 s, and handlers that are shorter). The code does not enforce it:
`http_check` takes its timeout from the payload, 5 s by default and without an
upper bound (`internal/handlers/http_check.go:31-34`). Crashed processes and lost claims
let leases expire in both regimes.

### SideEffects

`os.WriteFile` is two steps, truncation and write, with crashes, errors and other
workers in between; `process` increments a counter and then issues its statement.
`midway` has the workers between the two halves, and every other step is a step of `JobQueue`.
All jobs are of type `write_file` and write a file of their own. The processes share
`WRITE_FILE_DIR`, as on one machine or a shared volume; the manifest gives each pod an
`emptyDir` instead, where a job's file is on the pods that ran it only. Counters add up over
processes and restarts, as `sum(increase(...))` does in Prometheus.

### WorkProcess

`main` follows `runWork`: connecting, serving (the metrics server is started),
clickhouse (in `NewClient`, workers and reaper running), waiting (in `g.Wait`), closing (in the
deferred `st.Close`), exited. Each goroutine is idle, in a database call, with its handler or
with ClickHouse, or has returned. A call that needs a connection takes one
(`using`) or queues up; the pool serves first come, first served. Calls of `Run`, the reaper and
the shipper end with the signal; `Complete`, `Retry` and `Fail` do not (`WithoutCancel`), and
scrapes have five seconds of their own. `Close` turns away who waits and blocks until
the connections are back. What the calls do is in `JobQueue` and `Shipper`. The other deferred calls,
`chClient.Close` and `shutdownTracing`, touch neither pool nor tables; they are left out, which
means that `ShutdownEnds` takes them to return.

### Shipper

An outbox row is its id, with its job and the month of its `occurred_at` given by
the constants `JobOf` and `MonthOf`. Rows appear when their statement commits. Ids
are drawn before the commit, so rows of different jobs appear in any order; those
of one job appear in order, since a statement locks the job's row before it
draws the id. `clickhouse[e]` counts the copies of a row; `Merge` is
`ReplacingMergeTree` at work. A failed insert may have been applied in full, not
at all, or for some of its partitions (`PARTITION BY toYYYYMM(occurred_at)`), each
of which ClickHouse writes as a whole. `Start` pings ClickHouse once and runs
without a shipper if there is no answer. `End` is a crash or a SIGTERM, which
cancels the context of every call of the shipper. `BatchSize` is at least 1;
configuration accepts a `SHIP_BATCH_SIZE` of 0, with which nothing is ever shipped.

### Api

A caller is one run of a command and makes one call. `Submit` and `GetStatus` are
one step each, with an answer, a lost answer or a failure. A call of `WatchStatus`
is `polling` (about to read the row), `sending` (with `snap[c]` in hand) or `waiting`, and
the jobs move in between. They move as `JobLifecycle` allows (`JobMoves`, `Submit`),
which is what `JobQueue` implements when handlers meet their lease; otherwise a late
report can undo the outcome a stream has ended with. `seen[c]` is what
the caller was sent, with updates equal to the one before left out: the handler sends
every poll, changed or not. `Sigterm` starts `GracefulStop`, which refuses new calls
and returns when the last stream has ended; `Serve` returns after it.

### Reports

Reports are operators on `job_events`, as if ClickHouse had caught up and merged
duplicates (`Shipper` is about what happens before that), with a window that
covers everything and a single bucket and job type. `DurationSamples` is the inner query of
`DurationPercentiles` for one job. It depends on `occurred_at`, which Postgres has in microseconds and
ClickHouse in milliseconds (`DateTime64(3)`, `clickhouse/schema.sql:30`). The time of an event is not
part of the state: the property is required for every way to give the events of a job
times from `Milliseconds`, equal ones and, after a clock was set back, decreasing ones included.

### RetryDelay

One step per iteration of the loop. `Half` is half the number of values of a
`time.Duration`, 2^63 in the code; `Doubled` wraps around. The settings are any two
durations, since the configuration does not validate them. The first attempt does not
enter the loop, so a base above the cap is not capped for the first retry: `DelayWithinSettings`
gives the base as the bound of the first attempt and the cap as that of the others. That the result is
never negative is what `RetryDelays \subseteq Nat` of `JobStore` rests on.

## 3. The runs

| Run | Instance | Shows |
|---|---|---|
| `store` | 2 jobs, 2 sessions, claims of up to 2, 5 events per job | `ImplementsStore`, `OnlyReapersDeadlock`; `FailureHasItsLetter`, `ColumnsFollowStatus`, `OutboxTracksTable`, `OneClaimPerAttempt` under any sequence of calls |
| `any_handler` | 2 jobs, 2 processes, 3 attempts, 2 faults, leases may be outlived | `NoAttemptRunsTwice`, `FailedOnlyWhenSpent`, `CompletedOnlyIfExecuted` |
| `timely` | 2 jobs, 2 processes of 2 workers, 2 faults, leases are met | `ExclusiveOwnership`, `AttemptsWithinMax`, `TerminalIsFinal`, `OutcomeCarriesItsAttempt`, `ImplementsLifecycle`; of the reports `BacklogIsUnsettled`; of files and counters `CompletedFileIsWhole`, `CountersFollowEvents` |
| `liveness` | 2 jobs, 2 processes, 2 faults, leases are met, fair | `EveryJobSettles`, `ExpiredLeaseIsReaped`, `ShutdownCompletes`; of the reports `SamplesAreSingleRuns`, with events in 2 different milliseconds |
| `late_reclaim`, `late_reaper` | leases may be outlived, no faults | violations, see below |
| `shipper` | 2 shippers, 4 events of 2 jobs in 2 months, batches of 2, 2 faults, fair | `ShippedIsStored`, `ShippedHistoryIsWhole`, `StoredHistoryIsPrefix`, `DuplicatesAreRetries`, `EventsGetShipped` |
| `shipper_resumes` | 3 events, 1 fault, fair | a violation, see below |
| `api` | 1 job, 2 callers, 2 attempts, 1 fault, any number of shutdowns, fair | `StreamEndsWithOutcome`, `UpdatesInOrder`, `StreamsEnd`, `DrainEnds` |
| `reports_workers` | no faults | a violation, see below |
| `retry_delay` | all settings of a 5-bit duration, 7 attempts | `DelayIsCappedBackoff`, `DelayWithinSettings` |
| `work_process` | 1 worker, reaper, shipper, 4 scrapes at a time on 5 connections, fair | `JobsInHandHaveAPool`, `OnlyScrapesCauseWaits`, `WorkersGetToWork`, `ReportsGetThrough`, `ShutdownEnds` |

Type invariants: `EffectsTypeOK` includes those of `JobQueue` and `JobStore`; `Api` and
`WorkProcess` check their own; those of `Shipper` and `RetryDelay` are proved and not run.

**Bounds.** `MaxAttempts` is 2: with 1 there would be no `Retry`, and it is the late
`Retry` that does the damage. Two processes with a worker each are the fewest
that interleave; a third worker on the same job would be in the position of one of the
two. The third attempt of `any_handler` is the one that should not exist. Two
sessions are the fewest that wait for each other, and two rows the fewest for a cycle; five
events per job are two attempts with their outcomes. Two
faults cover one fault during the recovery from another (a crash while a lost
claim is pending, a lost report after a crash, a restart during an outage). The second worker of
a process in `timely` is there for the counters: one crash takes a count from each of them. Seven clients on five connections make every goroutine of a process wait;
further workers bring a connection each. Four events with batches of two
make batches overlap, straddle a month and miss a row that commits late. Two callers
watch at different points of the job's life, which begins with a submission of one of them or
of another client (`JobArrives`); calls about different jobs have nothing in common but the
server. In 5
bits, seven attempts are enough for every base to overflow or meet the cap.
Two milliseconds make a sample, a tie and a reversal; the query compares the times of two
events at a time.
`AttemptBound` stops claims in the regime without a bound on attempts; in the
other one it is out of reach (9, with `AttemptsWithinMax` at 2). Jobs,
processes and worker names are symmetric; symmetry is used in the safety runs of the queue and the store only.

`Shipper` runs do not check for deadlock: with everything shipped, or with no
shipper left and no fault to come, nothing remains to be done. The same goes for `Api`
when all calls are answered and all jobs settled, and for `RetryDelay` when it has returned. A `WorkProcess` has nothing left to do when it has exited. The clock of the queue and
of the store never stops, so deadlock there is covered by the liveness properties.

**Fairness.** `JobQueue` assumes weak fairness of time, of each worker's claim,
handler, report and return, and of each process's exit, restart and reaper (`ReapAll`: a reap that finds no row locked takes them all). Goroutines
are scheduled by the Go runtime, the polls and tickers fire, Kubernetes
restarts pods (`k8s/worker.yaml`), and handlers return because the regime says so. No
fairness is assumed of submissions or faults. Faults are bounded, that is,
they stop for long enough. `Shipper` assumes weak fairness of a shipper's steps and
of restarts, none of commits and none of the return of ClickHouse, which is a
premise of the property instead. `Api` assumes weak fairness of a stream's handler, of the
server's exit and restart, and of the moves of submitted jobs. The last is `EveryJobSettles` of
`JobQueue` and it matters: with no `work` process running, a watched job keeps
its stream open and a stopping server from stopping. `WorkProcess` assumes that
goroutines run, the database answers and handlers return. Of ClickHouse it assumes
nothing but that its client gives up once the context is cancelled, and of signals and scrapes
nothing. That the database answers is a real assumption for reports, whose context has neither a
deadline nor a cancellation: one that hangs keeps the process from exiting.

## 4. What the checks found

The first two need a worker that outlives its lease, which nothing in the
code prevents (see the lease regime above).

1. **A dead-lettered job is claimed again** (`late_reclaim`). Worker A claims the job;
   its lease runs out; the reaper requeues the job and worker B claims it for the last
   attempt; B's lease runs out too and the reaper fails the job; now A's handler
   errs, and since A's copy has attempts left it calls `Retry`, which matches by
   id only.
   That claim may be one more than `max_attempts` allows: with the constants of
   `LateReclaim.cfg`, `AttemptsWithinMax` fails as well.
2. **The reaper stops working** (`late_reaper`): if the job of 1 is claimed and left
   running once more, reaping it means a second letter, the constraint refuses
   the whole statement, and it does so on every tick, for every expired job in
   the table.
3. **Shipping does not resume** (`shipper_resumes`) in a process that started
   while ClickHouse was unreachable, although the README says that events
   accumulate "until a connection succeeds".
4. **The report counts workers of different processes as one** (`reports_workers`):
   worker ids repeat in every process, and `BacklogVsWorkers` counts distinct ids.

Further remarks, without a run of their own:

* With the constants of `LateReclaim.cfg`, `OutcomeCarriesItsAttempt` fails as well: the event
  of a late outcome takes the attempts of the row, which another claim has raised, although
  `internal/analytics/reports.go:81-84` says that job id and attempts identify one attempt.
* `CompletedFileIsWhole` needs leases that are met. A late run of `write_file` that truncates
  the file while another run has completed the job leaves it partial if it
  then fails or is killed; the comment at `internal/handlers/write_file.go:23-30` considers one run
  after the other only.
* `dead_letters_total` ("Jobs that reached terminal failure") does not count the jobs that the reaper
  fails; a job whose last report was lost is counted although it is the reaper that fails it.
  `CountersFollowEvents` states what it does count.
* A short attempt has no sample. `HAVING ... terminal_at > claimed_at` (`internal/analytics/reports.go:115`)
  is strict, and a claim and its outcome within one millisecond have equal times in ClickHouse.
  The percentiles and their number of samples leave such attempts out, although
  the comment at lines 79-84 pairs every claim with its terminal event; for fast handlers the p99 is too
  high. `SamplesAreSingleRuns` says exactly which attempts are in. An attempt that ends in `retried` is not in either.
* The first retry is not capped. `README.md:139` has the backoff "capped at `MAX_RETRY_DELAY`"; the cap is applied
  in the loop, which the first attempt does not enter, so that a `RETRY_BASE_DELAY` above the cap is
  the bound of the first retry. `DelayWithinSettings` states it so.
* The comment at `k8s/worker.yaml:37-42` says that `work` serves `/metrics` only once
  its worker goroutines are up. `runWork` starts the server first, and a
  server that fails to listen is logged and leaves the workers running.

Comparing `attempts` (and `status = 'running'`) with the caller's copy in `Complete`,
`Retry` and `Fail` is the obvious remedy for the first two and for the first remark; it is not checked here.

## 5. What is proved

tlapm checks every proof; constants are arbitrary but for the named assumptions
(`StoreAssumption`, `QueueAssumption`, `ShipperAssumption`, `ApiAssumption`, `DelayAssumption`,
`ProcessAssumption`, `ReportsAssumption`, `EffectsAssumption`: naturals where numbers are meant, NULL distinct from values, finite sets of
events, processes, goroutines and worker names, at least one worker). The bounds on faults and
attempts may be any numbers. The set of jobs need not be finite: that finitely many have been submitted at any time
is part of what is proved.

* **`JobStoreProofs`**, for any caller and any limit of a claim (`AnyStatement`). Every statement moves each job on its own
  in one of a few ways (`JobStep`), so the invariants are proved per job and
  per move. `StoreInv` adds to the properties that an id not yet drawn has an
  empty row and no events (`FreshIds`), without which `Enqueue` could not establish
  `OneClaimPerAttempt`.
* **`RowLocksProofs`**, for any number of sessions. The invariant says that a row is locked by at most one
  session, that a locked row qualifies for its statement and stays so until the commit (`HeldRowsQualify`), that
  a claim holds no more rows than its limit, and that a report has one row only (`FewRows`). A commit is then a statement of `JobStore` on the
  locked rows, and every other step leaves the tables alone. A report waits for its one row and holds
  none, and a claim waits for none, so that only reapers both hold and wait.
* **`JobQueueProofs`**, in either regime. For the tables a step of the queue is a statement or
  nothing, so `StoreInv` carries over. `AttemptWasCounted` (a worker's copy is not
  ahead of the row) makes `NoAttemptRunsTwice` inductive: a claim gives a number
  larger than every copy. `SuccessIsRecorded` (a worker that succeeded is in
  `executed`) does so for `CompletedOnlyIfExecuted`.

  Then, assuming `HandlersMeetLease`, the life cycle. The heart is `OwnsRow`:
  the row of a worker's job is running, on its attempt, with lease left, and
  no one else has it. It makes the reaper and the worker exclude each other, so that each
  job moves along `Life`; from that follow `AttemptsLeft` (a queued job has
  attempts left), `LettersAreFailures` (letters belong to failed jobs only, so that
  the constraint never refuses the reaper), and with both of them the refinement of
  `JobLifecycle`. In this regime the sentence of the migration that `late_reclaim` refutes is true
  (`NeverReclaimed`). The module ends with the order of a job's events, `LogsOrdered`: enqueued comes
  first and once, a departure last and once, and an outcome that a worker reports right after the
  claim of its attempt. `OutboxTracksTable` makes it inductive: the newest event tells the
  status, and the status which events may follow.
* **`SideEffectsProofs`**, assuming `HandlersMeetLease`. *Reports*: by `LogsOrdered` there is one arrival for each
  submitted job and one departure for each settled one (a map that is one to one and onto, `SameSize`), and
  what is left is `BacklogIsUnsettled`; the group of an outcome
  has that outcome and the claim right before it and nothing else that the query looks at, so that whatever the
  times are, the minima are theirs, and a group without an outcome never passes `HAVING`, as its
  terminal time is the epoch: `SamplesAreSingleRuns`. *Files*: each step of
  `SideEffects` is shown to be one of `JobQueue`, which carries all
  of the above over. `EffectsInv` adds that a worker that succeeded, and a completed job, have a whole
  file. What keeps it so is `OwnsRow` again: nobody truncates the file of a job that another worker
  has finished with. *Counters*: `Balance` is `CountersFollowEvents` with the sets it counts named. A count adds
  a worker to `OwedRetries` or `OwedFailures`; its report moves it over to the events; a lost report takes one
  worker away and a crash those of one process, each at the cost of a fault. `OwnsRow` is
  needed here as well, as the report of a worker that has lost its job could be refused, and its count
  would be owed to nothing. `QueueUsesStore` says that the queue is a caller that `StoreSpec` allows.
* **`WorkProcessProofs`**, for any number of workers and scrapes. The invariant keeps the pool's books
  (`PoolOK`: never more connections than there are, nobody in line while one is free, nobody twice;
  `Members`: in the books exactly while in a call) and ties the phases of `runWork` to them (`Phases`:
  before the workers start and after `g.Wait` no goroutine is in a call). If a goroutine waits,
  all connections are taken, and at most workers + 1 of the workers + 4 by other goroutines.
* **`ShipperProofs`**. `BatchesHold` says what a shipper may rely on although the tables
  change between its calls: its rows are committed, in ClickHouse once it is
  marking, and what precedes them in their job is in the batch or in ClickHouse.
  `FetchIsOldest` (ORDER BY id) establishes it. For duplicates, `HasCopied(e)` is
  the set of processes that have used up their one regular copy of `e`, and the copies never
  exceed its size plus the faults.
* **`ApiProofs`**. `Follows(c)` compares what a caller has been sent, what the handler holds
  and the row: each is the next (`UpTo`), or an earlier state of a job not yet settled. `UpTo` is
  transitive and every move of a job goes up in it, so it survives moves between
  read and send; a settled state is only `UpTo` itself, which is why the last update
  is the outcome.
* **`RetryDelayProofs`**, for every width. `DelayInv`: the delay is the base in the first
  iteration and between 0 and the cap from then on, because one doubling of a value below `Half` wraps to a negative number at
  worst, and the loop looks for that. `BackoffInv`: while the loop runs, the delay is the base times
  a power of two and within the cap; it ends early only if what is left of the doublings would
  be past the cap as well, because powers do not decrease. That, and that `Power` is what its recursive definition
  says, takes induction over the naturals, which is done by the least counterexample (`Least`), since
  induction theorems with an operator parameter are beyond the provers.

Every invariant and action property of a passing run is stated by a theorem. **Only model-checked**: the liveness
properties (fairness and ENABLED are beyond the prover) and everything in section 4, which is about
counterexamples. The proof of the counters corrected a bound: a fault was thought to cost one count at
most, which fails when both workers of a process have counted and it crashes; the run had one worker
per process then and could not tell.

## 6. Not modelled

* Configuration: values read once, which are the constants of the modules.
* Tracing and logging have no influence on jobs; generated protobuf code.
* `http_check` and `sum_numbers` compute or ask and leave nothing behind; a run is its result. The
  duration of `http_check` matters and is the lease regime.
* Histograms, the p99 and the estimate of `drain-time` are measurements of real time and
  floating-point arithmetic; the counts they start from are in `Reports`. The gauges of one scrape are
  three queries at three moments, so that they need not add up; nothing relies on it.
* Flags and printing of the commands; `dead-letters` and `analytics` print what one query returns.
* The poll back-off of `Run` decides how long a poll is put off, and `priority` which of the
  eligible jobs goes first when no row is locked. The models allow every order and delay.
* Clocks are one clock. `run_after` is computed from a worker's clock, so that skew shortens or
  lengthens a back-off; any delay, 0 included, is covered.
* `Submit` has no idempotency key: a client that repeats a call whose answer was lost gets a second job,
  which is a job like any other here.
* Modules meet at their abstractions and are not multiplied out: `JobQueue` rests on the atomic
  statements of `JobStore`, `Api` on `JobLifecycle`, `Shipper` on an outbox whose rows appear in any order
  between jobs. What a stream promises when a late report undoes an outcome, and what reports show
  while ClickHouse lags, would need `Api` over `JobQueue` and `Reports` over `Shipper`.

## 7. Running it

In this directory, `tlc -config QueueTimely.cfg MCSideEffects` (and likewise for the
other runs listed in `PROJECT.json`) and `tlapm SideEffectsProofs.tla`, which
takes about ten minutes from nothing; a module's proofs are checked by a call for that module.
