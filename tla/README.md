# Verification of the LLM observability platform

TLA+ models of the platform's backend, the TLC runs that check them on small
instances, and proofs of their main properties for every value of the constants.
The models translate the Python code under `src/`; `PROJECT.json` maps each
definition to its lines, lists the hazards of the code and says which property
looks after each.

- [The system](#the-system)
- [The plan](#the-plan)
- [Conventions](#conventions)
- [Drift monitoring](#drift-monitoring)
- [Metrics rollups](#metrics-rollups)
- [Metrics summary](#metrics-summary)
- [Lists](#lists)
- [Log ingestion](#log-ingestion)
- [Eval runs](#eval-runs)
- [Runs](#runs)
- [Proofs](#proofs)
- [Where code and documentation disagree](#where-code-and-documentation-disagree)
- [What is not modelled](#what-is-not-modelled)

## The system

Processes (docker-compose.yml): the FastAPI application, an `rq worker`, the daemons
`metrics_worker` and `drift_worker`, PostgreSQL (with pgvector) and Redis. Besides,
`scripts/seed.py` and the command line of the eval gate (`eval/runner.py`) are started
by hand and by CI. They meet only in the database and in RQ's queues.

| Component | State | Operations | Correct when |
|---|---|---|---|
| Log ingestion (`api/routers/logs.py`, `log_service.py`) | `llm_logs` | `POST /logs` inserts, answers, then enqueues an embedding job from a background task; lists and reads | what was answered is stored; a job never misses its row |
| Embedding jobs (`workers/log_worker.py`) | `llm_logs.prompt_embedding`, RQ's queue | read the prompt, embed it, update the row | every stored log is embedded or a fault explains why not |
| Metrics rollups (`monitor/metrics_aggregator.py`, `workers/metrics_worker.py`) | `metrics` | every five minutes two windows are grouped and upserted row by row | rows count logs that exist, only get fresher, agree with each other, and miss no log |
| Drift detection (`monitor/drift_detector.py`, `workers/drift_worker.py`) | `drift_alerts` | each tick sweeps the active applications: compare two windows, dedup, insert | no alert is duplicated, no application skipped, persistent drift is alerted |
| Webhooks (`monitor/webhooks.py`) | none | at most three POSTs per new alert, with back-off | at most three copies, no outcome that did not happen, no alert forgotten without a fault |
| Alert lifecycle (`PATCH /drift/alerts/{id}`, `drift_service.py`) | `drift_alerts.status`, `.resolved_at` | load the row, set both columns, commit | alerts are never reopened; `resolved_at` matches the status |
| Eval engine (`eval/engine.py`, `eval/scorers/*`) | `eval_runs`, `eval_results` | run all cases of a suite, score each with its methods, commit run and results at once | a run is whole, its verdict deserved, a case passes only on all its scorers |
| Eval worker and API (`workers/eval_worker.py`, `api/routers/evals.py`) | `test_cases`, RQ's queue `evals` | `POST /evals/run` enqueues, a worker executes | one run per request, and it appears |
| Eval gate (`eval/runner.py`) | an exit code | the engine in a CI job | nothing merges without a stored run that passed |
| Seed (`scripts/seed.py`) | all tables | `--reset` truncates; back-dated logs; one aggregation; one detection | never mixes with what the daemons have in hand |
| Metrics summary (`api/routers/metrics.py`, `metric_service.py`) | none of its own | `GET /metrics/summary`: totals of two windows, medians, open alerts, in four statements | its figures fit each other although aggregations and a reset run between them |
| Lists (`GET /logs`, `/metrics`, `/drift/alerts`, `/test-cases`, `/evals/runs`) | none of their own | count the rows that meet the conditions, fetch one page | page, total and conditions agree although rows arrive in between |
| Dashboard (`frontend/src`) | the page it shows, a cache | walks the lists, refetches on a timer; sends PATCH requests | a reader who goes on is shown every row |
| Health, tracing, migrations, deployment | none | | (see [What is not modelled](#what-is-not-modelled)) |

How they interact:

- API → RQ → worker: `POST /logs` and `POST /evals/run` enqueue; a worker takes the
  job later, or never. RQ's `Retry` is never used.
- Several writers of one table under READ COMMITTED, without explicit locks: the drift
  detectors and the PATCH handlers on `drift_alerts`; the aggregators on `metrics`;
  `seed --reset` (TRUNCATE) on every table.
- Drift worker → receiver of the webhook: HTTP with a timeout, so a copy may arrive
  although the worker saw a failure.
- Readers of several statements next to all of these writers: the summary and the lists.
  Their transactions see a new snapshot with each statement, and hold up TRUNCATE only.
- Daemon loops: a tick in a `try`, then a wait on a stop event that SIGTERM sets.

What is hard: check-then-act across two statements (dedup, PATCH, aggregate-then-upsert);
one session shared by a whole sweep, which a failed statement leaves unusable; work
remembered only in a process's memory (background tasks, webhooks, jobs in hand) when it
dies; commits whose outcome the client does not learn; lock order between two upserting
transactions; windows and buckets at the boundaries of hours and days; rounding in front
of a threshold; answers put together from several snapshots.

## The plan

Ordered by how much depends on the behaviour. Done:

1. **Drift monitoring**: `AlertTable`, `AlertLifecycle`, `DriftWorker`, composed by
   `DriftMonitor`, which refines the abstract `AlertLedger`; `DriftMonitor_proofs`.
2. **Metrics rollups**: `MetricsRollup`, `MetricsRollup_proofs`.
3. **Log ingestion**: `JobQueue`, `LogIngest`, `LogIngest_proofs`.
4. **Eval runs**: `EvalGate`, `EvalRuns` over `JobQueue`, `EvalRuns_proofs`.
5. **Metrics summary**: `MetricsSummary`, which composes the summary with `MetricsRollup`;
   `MetricsSummary_proofs`.
6. **Lists**: `Listing`, the five paginated lists and a reader of them; `Listing_proofs`.
7. **Abstract specifications** of what eval and ingestion promise: `MergeGate`, implemented by
   `EvalRuns`, and `LogLedger`, implemented by `LogIngest`; each with its TLC run and its proof.
8. `SweepComplete` proved.
9. **Documented promises under the weakest condition** found for each: `Serial_Dedup`,
   `Serial_FreshNumbers`, `Serial_TicksAlignLevels`, next to `Serial_ResolvedAt`.
10. **What lies behind the liveness properties**, as safety properties that can be proved:
    `CountedInTime`, `NeverStuck`, `SweepShrinks`, `RunAdvances`, `JobsKept`, `LastPageMeansAllShown`.

Left, in this order:

11. `OptimisticAlerts`: the dashboard's optimistic update, rollback and refetch
   (`useDrift.ts`) against `AlertLifecycle`. A wrong cache lasts until the refetch that
   `onSettled` asks for, so the property is a liveness property of the cache.
12. `seed --reset` on the alerts table under a sweep and a PATCH.

A theorem that a lone `seed` keeps `FreshNumbers` is not on the list, because it is false: the
window of a second `seed` begins at an instant of its first day, not at its midnight, so it
writes that day's row anew from a part of its logs.

Behaviours the models already contain and no run states yet, as candidates for runs:
the daemon and `seed` may both insert an alert for one application (with two detectors
`DedupAcrossDetectors` need not hold); a PATCH may take an alert from resolved back to
acknowledged; a crash between the commit of an alert and its dispatch loses the webhook;
two aggregators may overwrite each other's rows with older numbers, and `seed` a whole
bucket with a part of it (`FreshNumbers` needs workers whose transactions do not overlap, and no `seed`); a failed embedding is
filed by RQ as a finished job; a request answered 503 may be executed.

## Conventions

- **Steps.** Each statement and each await of the code is an action, since other processes
  run in between. What the code does between two awaits is one action.
- **READ COMMITTED.** A SELECT sees what is committed; an INSERT or UPDATE becomes visible
  at its COMMIT. Where nothing happens between a statement and its COMMIT that another
  process could tell, they are one step. A COMMIT that raises may have committed: every
  `StatementFails` has both outcomes.
- **Locks** appear where they decide something: rows upserted by an aggregation stay locked
  until its transaction ends, and TRUNCATE waits for transactions that touched the table.
  In `EvalRuns` and `LogIngest` that is the guard of `Reset`.
- **Faults** (failed statements, exceptions, crashes) are bounded by `MaxFaults`. Failures
  the code handles as a matter of course, such as a refused webhook or a failed call of the
  judge, are not faults and not bounded.
- **Signals.** SIGTERM sets a flag that is looked at between ticks or jobs (`Stop`); a
  process that is down is started by an operator (`Start`), since compose has no restart
  policy.
- **History.** `by` (who inserted a row), `delivery`, `snapshot`/`answered`/`bad`, `wiped` and `hit`, `said` in
  `EvalRuns`, `kept` in `MetricsSummary`, and `start`, `shown`, `intact` in `Listing`
  record what happened for the properties' sake. No guard reads them.
- **Mutants.** An operator `X_Something` beside `X`, commented "Mutant", is `X` with a
  plausible mistake. No specification uses it. Replacing `X` by it must violate the
  property that `PROJECT.json` pairs it with: that is how each property is known to say
  something about the code.
- **Bounds** are constants whose comment says "bound": `MaxFaults`, `MaxPatches`,
  `MaxTime`, `MaxLogs`, `MaxRows`. The proofs hold for every value of them.

## Drift monitoring

`AlertTable` is the table: a sequence of rows (application, severity, status, whether
`resolved_at` is set), a row's position being its key.

`DriftWorker` is a process that detects. The daemon's loop is
`StartSweep`, `TakeApp`, `EndSweep` (`run_once`); one detection is `Measure` (both windows and
the score), `Dedup` (the open severities are read), `Insert`, `Refresh`; its webhook is `SkipHook`,
`PostAccepted` or `PostFailed`, the last retried. `seed` runs the same detection once, for one
application and without a webhook. The drift score is an input that `Drift` may change at
any time: how it is computed from embeddings is numeric code whose result alone matters
here; `severity_for` is modelled with its four thresholds, in hundredths, a score on a
threshold included.

The session shared by a sweep is modelled: after `StatementFails` it is `"failed"`, and
the first statement of every later detection raises (`SessionRefuses`), since the
`except` of `run_once` does not roll back. `DetectionRaises` is an exception that leaves
the session alone.

`AlertLifecycle` is the PATCH handler: it loads a row, and its UPDATE writes only the
columns whose value differs from what it loaded, as SQLAlchemy's unit of work does. `Patched`
says what that makes of a row that has changed in between.

`DriftMonitor` composes them and states the properties.

- `DedupPerDetector`: the open alerts of one detector for one application have increasing
  severities. `DedupAcrossDetectors` says so of the whole table, as the docstring does,
  and holds as long as no two detectors stand between the dedup query and the insert for one
  application (`OneInserting`), so in particular for one detector.
- `NoReopen`, `ResolvedAtMatchesStatus`: alerts only leave "open", and `resolved_at` follows. The first is
  a theorem and part of what `RefinesLedger` checks; the second is refuted, and a theorem as long as no
  two requests overlap on one alert (`OnePatching`).
- `RefinesLedger`: the table implements `AlertLedger`, in which a detector checks and adds at
  one instant, so the gap between its statements does no harm to its own promise.
- `SweepComplete` (after an exception) and `OneBadAppNeverStopsTheSweep` (after any failure, the
  comment's claim).
- `DeliveryHonest`, `LossBoundedByFaults`: copies and outcomes of a webhook; one fault loses
  one webhook at the most, a signal none.
- `SweepShrinks`: each step of a detector brings its sweep nearer to the end, and nobody takes it back.
  It is why `SweepEnds` holds, and is a theorem without a run.
- `SweepEnds`, `PersistentDriftCovered`: every sweep ends; drift that stays at a severity is
  covered by an open alert again and again.

## Metrics rollups

A row of `metrics` is a function of the logs it was computed from (counts, sums,
percentiles), so `MetricsRollup` represents it by that set of logs; the empty set is no row.
Whatever is true of the set is true of the numbers. `Row` is the table's unique key:
(application, model), period type, truncated start.

A tick is `BeginTick` (one reading of the clock for both windows), `Select` (the GROUP BY), then
per row `SendUpsert` and `Upsert`, which waits for a transaction that holds the row, `CommitWindow`,
and the same for the daily window. `DeadlockDetected` aborts a transaction on a cycle of
waits. `Window` gives the worker the current and the previous hour and today, and `seed` its
days, cut off at both ends. A log is stamped when its transaction begins
(`BeginInsert`) and appears when it commits (`CommitInsert`), which may be in a later hour.

- `RowsCountStoredLogs`: no row counts a log that is gone, whenever `seed --reset` truncates.
- `FreshNumbers`: aggregating again never takes a log out of a row, as far as workers' windows go, which are
  cut at the hours and days. `seed` cuts its window at an instant, and does take logs out of the row of a
  day it covers in part only; no run claims otherwise.
- `TickAlignsLevels`: a tick that gets to its end, with or without anything to write, leaves the daily rows
  of the day it began in counting all that the hourly rows of that day count. So what a failure between the two
  commits has left apart is put right by the next tick of the same day. At midnight it is not: a log
  that commits after the last tick of its day gets into yesterday's hourly row by the first tick of the
  next, and the daily row stays behind for good, which is what `rollup_daily` shows.
  Both properties hold for any number of workers whose transactions do not overlap (`OneAtATime`).
- `NeverStuck`: while some process is in a tick, one can take its next step or is on a cycle of waits,
  which PostgreSQL finds. `TicksEnd`: ticks end although transactions lock rows in any order.
- `CountedInTime`: with a worker that stays up, a log is in its row four units after its stamp and one more
  per fault, if the tick that may be needed for it still falls into a window that reaches it (`StillDue`).
- `HourlyComplete`: every log gets into its hourly row. `DailyComplete` says so of daily rows
  and is refuted.

## Metrics summary

`MetricsSummary` extends `MetricsRollup` with one request for `GET /metrics/summary`. `BeginSummary` reads the
clock; `ReadCurrent`, `ReadPrevious`, `ReadMedians` and `CountAlerts` are its four statements, each over what is
committed at that moment; `EndSummary` is the end of the session or a failure. Between any two of
them the aggregations and the seed take any step of `MetricsRollup` (`Rollup`), except that TRUNCATE waits
for the request's transaction once it has read. A total is modelled by the set of logs that its
rows count, from which every sum follows; the medians by the set of rows that enter them
(rows all of whose logs came without a latency have no percentiles). `kept` is the set of logs that
some hourly row has counted ever since the request's first statement: the logs of which a reader
may expect something.

The window is not cut at hours: a row belongs to it when its `period_start` does, so rows at both
of its ends are in it as a whole or not at all. What holds nevertheless:

- `EachWindowOnce`: a kept log of the two windows together is in exactly one of the totals.
- `PercentilesMatchTotals`: the medians leave out no row with percentiles that the total counts.
- `SummaryOfOneTable`: no answer mixes figures from before a reset with figures from after it; a theorem,
  and implied by what `ReadSoFar` says, so no run names it.
- `ReadSoFar`: what each statement found, the inductive invariant behind these.

## Lists

`Listing` is one list, chosen at the beginning among the five endpoints, its table, and a client that walks
it page by page as `Logs.tsx` and `Evals.tsx` do. `ListLogs`, `ListMetrics`, `ListAlerts`, `ListTestCases`, `ListEvalRuns` begin
a walk with the conditions that the endpoint offers; `Count` and `Fetch` are the two statements of each
request; `RequestFails`, `Refetch` (the timer or the retry button), `NextPage` and `PrevPage` are the page's. The
table changes between any two of them: `Insert` anywhere in the order, `Retag` (PATCH changes the
status an alert is filtered by), `Reset`. A row is its id, its time, and one tag for the columns that
are compared for equality. No `ORDER BY` has a second key, so which of several rows of one time
comes first is a new choice of each statement (`Firsts`, `Pages`). A client writes the times it
filters by in some UTC offset, and `NaiveUtc` is what the handlers make of that.

- `NoneBehind`: rows that arrive push unread rows onto later pages, never behind the reader; part of `IInv`.
- `LastPageMeansAllShown`: whoever is told that there is no next page has been shown every untied row that
  was there at the beginning, unless one left or rows arrived between the page's two statements.
- `PageFull`: a page has every row that its total promises, though the two are of different
  snapshots; not for alerts, which PATCH may take out of the list in between.
- `EmptyPageMeansEmptyList`: the answer "No logs match" is only given for an empty list, as long as no
  row leaves it. When one does (a reset, or a PATCH under a status filter), a reader on a later
  page may be told so of a list with rows, and `Logs.tsx:55-60` then hides the page buttons too.
- `PageMeansInstants`: the rows shown lie between the instants the client meant; part of `IInv`.
- `AllShown`: a reader who goes on is shown every row that was there at the beginning, unless it is
  tied with another or a row leaves the list. Rows tied at a time may be shown twice or never.
  Ties are no corner case for `GET /metrics`, where the rows of all applications share a
  `period_start`, nor for the seeded test cases, which are inserted in one transaction.

## Log ingestion

`JobQueue` is one queue of RQ: waiting jobs, and where RQ files each job. It models how the
workers' code uses RQ, not RQ itself.

`LogIngest`: `Receive`, `Store`, `Respond` and `EnqueueJob` (the background task) are `POST /logs`;
`Take`, `Fetch`, `Embed`, `Update` the job. A failed enqueueing and a failed embedding are logged and
swallowed (`EnqueueFails`, `EmbedFails`), other exceptions leave the job (`StatementFails`). An API
process dies with all requests and background tasks in hand (`ApiCrash`). A log is its id:
neither its content nor its embedding's value decides anything.

- `AnsweredIsStored`: a log that was answered 201, or that has a job, was committed before.
- `NoneForgotten`: a stored log without an embedding is on its way, or a fault hit it (`hit`).
- `EmbeddedExist`: only rows that exist are embedded, whenever the table is truncated; part of `IInv` and of
  what `RefinesLogLedger` says.
- `EventuallyEmbedded`: what is on its way arrives.
- `RefinesLogLedger`: all of it together implements `LogLedger`, a table in which a log is stored once,
  is confirmed and embedded only while it is there, and does not come back after a reset. A process that
  dies during a COMMIT may store several logs at once, which is why `LogLedger`'s `Store` takes a set.

## Eval runs

`EvalGate` is the arithmetic of the gate: the rate rounded to four digits (either neighbour on a
tie, because the binary fraction decides there) and compared with the threshold.

`EvalRuns` has two kinds of process around one engine, the workers and the command line.
`Load` reads the cases and flushes the run, `NextCase`, `Score`, `JudgeFails`, `EmbeddingFails`, `EndCase` evaluate,
`Commit` stores run and results at once, `Refresh` reads the run back. `JudgeFails` is one call of
the judge; the third in a row raises. `TimesOut` is RQ's job timeout. What a scorer answers
is a free choice, except that the target echoes the expected output, so an exact match
passes. A suite without cases raises `ValueError`, which the worker swallows and the
command line turns into exit code 1. `gate_threshold` gives each request the one of the settings
(`eval_worker.py:44`) and each command line its `--threshold` (`runner.py:40`).
`Commit` is one action because the code adds the run and its results in one transaction: that no half of
a run is ever stored is PostgreSQL's doing and an assumption of the model, not something it shows.

- `RunsWhole`: a stored run counts all its cases and these are in the table.
- `VerdictsDeserved`: the verdict, taken on the rounded rate, is one that the exact ratio deserves (`Deserved`):
  a suite that meets its threshold passes, one that misses it by more than half a ten-thousandth fails. Between
  the two rounding decides: two of three cases pass `--threshold 0.6667`.
- `OneRunEach`: one run per request or invocation, failed commits and dead workers included; part of `IInv`,
  and of what `RefinesGate` says.
- `JobsKept`: an accepted request is known to RQ, a queued job is in the queue, and each fault strands at most
  one job that RQ has as started; a stop signal strands none.
- `CasesNeedAllMethods`: when a case is done with, it has passed if and only if each of its scorers was asked and
  said so. `said` records the answers, of which the code keeps only the pass or fail of each; a
  scorer that raised, and those it made skipped, count against the case.
- `MergeNeedsEvidence`: exit code 0 only with a stored run that passed, stored when it is read back.
- `RefinesGate`: all of it together implements `MergeGate`, a record of evaluations and an answer to each
  CI job: an evaluation is entered whole, once and with a deserved verdict, and a job is
  let through only while its own passing evaluation is on record. The run is committed before
  the exit code is known; a reset in between is noticed, because the run is read back (`Refresh`,
  `RefreshFindsNothing`). The exit code is set in the step of that read: between it and the end of the
  process (`runner.py:56-66`) nothing is read any more, so a reset there changes no answer, but the
  run behind the answer may be gone by the time CI sees it.
- `RunAdvances`: each step of an execution takes it further and none begins it again, which is why
  `RunsEnd` holds; a theorem without a run.
- `RunsEnd`, `ResultAppears`: executions end; accepted requests get their run.

## Runs

Passing:

| Run | Instance | Shows |
|---|---|---|
| `drift_core` | 2 applications, the daemon, 1 PATCH, 1 fault, scores on the low threshold and in the high band, no webhook URL | `IInv`, `DedupAcrossDetectors`, `SweepComplete` |
| `drift_live` | 1 application, the daemon and `seed` as detectors, webhook URL set, 1 fault, 1 PATCH, fair | `DeliveryHonest`, `LossBoundedByFaults`, `DedupPerDetector` and `RefinesLedger` with two detectors racing, `SweepEnds`, `PersistentDriftCovered` |
| `rollup_core` | 1 key, the worker, 2 logs, 1 fault, hours of 3 and days of 6 units, 7 instants, punctual ticks | `FreshNumbers`, `TickAlignsLevels`, `CountedInTime`, `HourlyComplete` |
| `rollup_seed` | worker and `seed`, 2 logs, 4 instants, fair | `IInv`, `RowsCountStoredLogs`, `NeverStuck`, `TicksEnd` |
| `rollup_summary` | worker, `seed` and one summary over windows of one hour, 2 logs (one without a latency), hours of 2 units, 5 instants | `ReadSoFar`, `EachWindowOnce`, `PercentilesMatchTotals` |
| `ingest_core` | 3 logs, 2 workers, 2 faults, fair | `IInv`, `AnsweredIsStored`, `NoneForgotten`, `RefinesLogLedger`, `EventuallyEmbedded` |
| `eval_core` | 3 cases (embedding then judge; twice exact match), 1 request, 1 worker with threshold 0.67, 1 command line with 0.6667, 1 fault, fair | `IInv`, `RunsWhole`, `VerdictsDeserved`, `JobsKept`, `RefinesGate`, `CasesNeedAllMethods`, `MergeNeedsEvidence`, `RunsEnd`, `ResultAppears` |
| `listing` | the five endpoints, 3 rows of 2 times and 2 tags, pages of 1 row, bounds in 2 offsets, 1 fault, fair | `IInv`, `LastPageMeansAllShown`, `PageFull`, `EmptyPageMeansEmptyList`, `AllShown` |

Each of these refutes one claim of the documentation (see below): `drift_bad_app`, `drift_resolved_at`,
`rollup_daily`, `eval_unserved`.

Why the bounds are enough. A hazard of a table with one application per row needs two
applications only where a sweep goes from one to the next, two scores so that a severity can
rise, fall and stay, and one fault at any step of any sweep; the proofs cover more of each.
Two logs of one key meet in a bucket or fall into two hours of one transaction; seven instants
of three-unit hours span three hours and the change of a day, so that a log stamped in one
hour or day can commit in the next. Rows of different keys only meet in the locks and in what
a failed transaction undoes, which the rows of two hours show as well. In `rollup_seed` the tables meet at
two rows, hourly and daily, of each of two buckets, enough for a cycle of two lock orders.
Three logs and two workers give queues with jobs before and behind one in hand, and two
faults let one failure follow another. Three cases, created one by one, give the pass rates 0, 1/2, 2/3 and 1. Two
thirds are rounded to 0.6667, which is below the worker's threshold and just that of the command
line, whose exact ratio misses it: the two sides of a near miss. The case that can fail has two scorers, and
each of them can pass, fail and raise, so that the second raises after the first has passed;
one fault hits either process at any step, the three failed calls of the judge being none. The arithmetic is
proved for all numbers of cases and thresholds.
In `listing` three rows and pages of one row give
walks over three pages, with rows inserted in front, behind and at the same time as others;
a page of one row has every boundary case of a larger one (full, empty, the last), and the proofs
hold for every page size. In `rollup_summary` the window and the previous one, of one hour each,
begin at any of five instants, on and off the boundaries of hours of two units, so that a row is
cut at either end, and `seed` may reset between any two statements.

Symmetry is used for applications in `drift_core`, a set of model values in a run without
liveness. Deadlock is checked in every run.

Fairness, and why the code justifies it:

- `DriftMonitor`: weak fairness of a running daemon's own steps. The loop waits with
  `asyncio.wait_for(stop.wait(), timeout)`, a POST has a timeout and three attempts. Nothing is
  assumed of signals, restarts, faults, PATCH requests or the data, so
  `PersistentDriftCovered` allows for a daemon that is down.
- `MetricsRollup`: weak fairness of ticks and of INSERTs' ends, strong fairness of `Upsert`: PostgreSQL
  queues the transactions that wait for a row, so one that is again and again able to
  proceed does. `PunctualSpec` adds that a running worker begins a tick in each unit of the
  clock, the interval of five minutes being shorter than a unit; a clock without this
  constraint lets hours pass between two ticks and no claim of completeness could hold.
  `Advance` also lets no INSERT take longer than a unit.
- `Listing`: weak fairness of the two statements of a request and of the page's refetch on its timer, strong
  fairness of the next button: a refetch takes it away again and again, and a reader who goes on uses it
  in one of the moments it is there. A walk given up or a step back is bounded by `MaxFaults`: whoever
  goes back and forth for ever need not see the end of a list.
- `LogIngest`, `EvalRuns`: weak fairness of handlers and of workers that are up. Nobody has to send a
  request. A judge that fails for ever is allowed: after three attempts the scorer raises.

## Proofs

Each `*_proofs` module proves theorems about the module it extends, for all values of the
constants that satisfy the module's assumptions. Two themes run through them. Where a documented
promise is broken by a race, a theorem says that it holds exactly as long as that race does not
happen: the hypothesis `[]OneInserting`, `[]OneAtATime` or `[]OnePatching` is about the interleaving,
and one process alone is a corollary or a special case. And where a liveness property
cannot be proved, the safety property that carries it is: `SweepShrinks` for `SweepEnds`,
`NeverStuck` for `TicksEnd`, `CountedInTime` for `HourlyComplete`, `NoneForgotten` for
`EventuallyEmbedded`, `RunAdvances` for `RunsEnd`, `JobsKept` for `ResultAppears`,
`LastPageMeansAllShown` for `AllShown`.

- `DriftMonitor_proofs`. `Invariance`: `IInv` adds to the types what a detector relies on from one
  statement to the next: the answer of its dedup query still holds when it inserts, for *its own*
  alerts, because others only close them (`NothingToDedup`); the alert in its hands exists, is its own and
  has no outcome (`HoldsAlert`); the row a request loaded was not reopened (`LoadedRows`). Without the first
  an insert could break `DedupPerDetector`, without the last a late UPDATE could write "open" back.
  From it: `TypeCorrect`, `Dedup_Correct`, `Delivery_Honest`, `Never_Reopened` and `Refines_Ledger` (each step is one
  of the ledger or a stutter). `Serial_Dedup` assumes `[]OneInserting`; its invariant (`SerialInv`) says that the answer in a
  detector's hand is true of the *whole* table, because whoever else would add to it would have to insert
  (`FreshAnswer`). `SoleDetector_Dedup` is its corollary. `Serial_ResolvedAt` assumes `[]OnePatching`, that no two
  PATCH requests are at one alert at once: what a request loaded is then what it updates. `Sweep_Shrinks` orders the states of a detector by the applications left and
  then by how far the one in hand still has to go (`Nearer`). `Loss_Bounded` counts: only a step that uses up a fault adds to the unsent alerts,
  and then one.
  `Sweep_Complete` adds that the application in a daemon's hand is one it selected and has not accounted
  for, and that a detection that cannot start leaves it in hand.
- `MetricsRollup_proofs`. `RollupInvariance`: what a transaction found still exists, because TRUNCATE
  waits for it (`Holding`); hence `Rows_CountStoredLogs`. `Serial_FreshNumbers` and
  `Serial_TicksAlignLevels` assume that all aggregators are workers and that their transactions do not
  overlap. Their invariant (`FreshInv`) adds that what a transaction found is ahead of the row it will
  overwrite, and rests on lemmas about `Trunc` and `Window`: a worker's window is made of whole buckets, and
  the hours of a row lie in its day, for every hour length that divides the day.
  `Serial_CountedInTime` adds a deadline to it: an INSERT takes at most one unit, a tick begins in each unit,
  and a fault costs at most the rest of one tick, so a log stamped at `t` is found by a transaction that begins
  by `t + 2 + faults`. `OnTime` and `InTime` carry this from the beginning of a tick to its
  commits. `SoleWorker_HourlyInTime` frees hourly rows from the proviso `StillDue` as long as there are
  fewer faults than units to spare in an hour. `SoleWorker_*` are the corollaries for one worker.
  `Never_Stuck`: a row is locked only by a transaction at work. If nobody can
  move, each process in a tick waits for another of them. Of the sets of processes of which this is true
  (`Entangled`) a smallest one is a cycle: who is waited for by nobody in it could be left out.
- `LogIngest_proofs`. `IngestInvariance`: a log is in the table before anything else knows it, and a worker
  that has read a row keeps it from being truncated. `Answered_IsStored`, `None_Forgotten`, `Embedded_Exist`.
  `Refines_LogLedger` needs one fact more, that a log whose handler has not come to its COMMIT is neither in
  the table nor among the truncated ones (`Untold`), so that nothing is stored twice.
- `EvalRuns_proofs`. `Gate_NeverBlocksAPass` and `Gate_Deserved` hold for every suite and threshold; `Gate_Exact` for
  fewer than 200 cases and thresholds in whole percents (beyond, a rate just below the threshold may be
  rounded up to it). `EvalInvariance` says who executes what (`OwnKeys`, `QueuedOnce`), what each has found out
  (`Progress`) and stored (`Stored`). From it `Runs_Whole`, `One_RunEach`, `Verdicts_Deserved`, `Stored_GateExact` (with the
  bounds of `Gate_Exact`), `Merge_NeedsEvidence`. `Cases_NeedAllMethods` rests on the part of `Progress` about the case
  under evaluation (`Faithful`): as long as its flag says that it is passing, the scorers asked so far have all said so,
  in their order, and those left are the rest; once the flag is down, one has said otherwise. At the
  end, when none is left, the flag is therefore the answer of all (`FaithfulVerdict`).
  `Run_Advances` is one lemma per step of an execution, and one that other processes' steps leave it alone.
  `Jobs_Kept` counts the stranded jobs: only a fault adds one, and a worker that finishes strands
  nothing, because it executes one job at a time.
  `Refines_Gate` adds that a command line that is still at work has not answered (`Unanswered`), and shows
  each step to be one of `MergeGate`'s or a stutter, for every suite and threshold.
- `MetricsSummary_proofs`. Its steps are steps of `MetricsRollup` or leave its variables alone, so `RollupInvariance`
  carries over (`SummaryImplementsRollup`). `SummaryInvariance` adds `ReadSoFar`: what a statement has found stays true
  while others write, because rows are only overwritten by rows of the same hour, `kept` shrinks by what
  they drop, and TRUNCATE waits. `Each_WindowOnce`, `Percentiles_MatchTotals`, `Summary_OfOneTable` follow,
  for windows of any length at any instant.
- `Listing_proofs`. `ListingInvariance`: as long as no row leaves, the list keeps the rows it had when the walk
  began, the page asked for begins before the list's end, and the count is no more than what the second
  statement finds. Its lemmas are about cardinalities: how large a page is
  whatever choice it makes among ties (`PageCount`), that a row alone at its time which is not among the
  rows up to the page's end comes after all of them (`NotShownIsAhead`), and that arrivals bring no row
  nearer to the top (`NeverCloser`). `None_Behind`, `Page_Full`,
  `EmptyPage_MeansEmptyList`, `Page_MeansInstants`, `LastPage_MeansAllShown` (a last page is one after which
  no unread row has a place) follow, for every page size and order of arrival.

Model-checked only: all liveness properties (`SweepEnds`, `PersistentDriftCovered`, `TicksEnd`,
`HourlyComplete`, `EventuallyEmbedded`, `RunsEnd`, `ResultAppears`, `AllShown`), since liveness under fairness and
ENABLED are beyond the prover. Every invariant and action property of a passing run is proved
as well, `DedupAcrossDetectors`, `FreshNumbers`, `TickAlignsLevels` and `CountedInTime`
under the hypotheses named above, the others without any but the modules' assumptions and, for `NeverStuck`,
finitely many processes. No definition is recursive, so no induction
over data, which is beyond it too, is needed.

## Where code and documentation disagree

- `drift_bad_app`: "one bad app never stops the sweep" (`drift_worker.py:43`). After a failed statement
  the shared session is never rolled back, and every later application of the tick raises.
- `drift_resolved_at`: `resolved_at` is "Set when status transitions to resolved" (`drift_alert.py:47`). Of two
  overlapping PATCH requests each writes the columns that differ from what *it* loaded, so the row
  may end resolved without the time, or acknowledged with it.
- `rollup_daily`: "re-aggregates only the current + previous period" (design document of weeks 3-8,
  line 59). The daily window is today only: a log that commits after the day's last tick is
  in no daily row.
- `eval_unserved`: "Worker executes it; poll GET /evals/runs for the result" (`evals.py:49`). The job goes
  to the queue `evals`, and the `rq worker` of docker-compose.yml listens to the default queue.
  The run has `Workers = {}`, the workers of that queue.

## What is not modelled

- The numbers: drift scores, percentiles, costs, similarities. They are inputs or free
  choices; where only their provenance matters (rollups) it is modelled.
  The docstring of `summary` calls its percentiles request-weighted (`metric_service.py:81`); the code
  takes the unweighted median of the rows' percentiles, which no model here tells apart.
- `GET` of one row by its id (`/logs/{id}`, `/evals/runs/{id}`): one transaction on rows that were
  committed together. `PaginationParams` of `schemas/common.py` is used by no router.
- The dashboard beyond the walk of its pages and the PATCH requests: its optimistic update (step 11
  of the plan), charts, and Drift page, which shows one page of alerts and no pager.
- The lazy loading of the embedding model: a lock and a local of one process, on which no
  other state depends.
- `seed --reset` on the alerts table: truncating it under a sweep or a PATCH is left out of
  `DriftMonitor` (it is modelled for rollups, logs and eval runs), so its theorems are about a
  table that is not truncated.
- Loss of data by Redis or PostgreSQL: what they acknowledged, they keep.
- The webhook's HMAC signature, structured logs, traces, Prometheus counters, the health endpoint:
  nothing reads them back.
- Migrations: run once, before the rest. The constraints they create are in the models that
  rely on them (the unique key of `metrics` is `Row`).
- The event loop itself: a synchronous call of Redis in an async handler holds up the
  whole API process, which no model of handlers as independent steps shows.
