---------------------------- MODULE MetricsRollup -----------------------------
(***************************************************************************)
(* Rollups of llm_logs into metrics: monitor/metrics_aggregator.py, the    *)
(* daemon of workers/metrics_worker.py that calls it every few minutes and *)
(* scripts/seed.py, which calls it once over the days it has filled.       *)
(*                                                                         *)
(* The numbers of a metrics row are a function of the logs they were       *)
(* computed from, so a row is modelled by that set of logs; the empty set  *)
(* is a row that does not exist.  Every statement is a step: READ COMMITTED *)
(* shows it the rows committed before it, and an upserted row stays locked *)
(* until its transaction ends.                                             *)
(***************************************************************************)
EXTENDS Integers, FiniteSets

CONSTANTS
    Keys,        \* (application_id, model) pairs
    Aggregators, \* processes that run aggregate_window
    Daemons,     \* those that are metrics_worker; the others are seed
    HourLength, DayLength,  \* in units of the clock
    SeedSpan,    \* how far back seed aggregates; it fills a day less
    NoRow,       \* "no upsert under way"
    MaxTime,     \* bound: the clock
    MaxLogs,     \* bound: logs ever inserted
    MaxFaults    \* bound: failed statements, failed inserts and crashes

ASSUME ClockAssumption ==
    /\ HourLength \in Nat \ {0}
    /\ DayLength \in Nat \ {0}
    /\ DayLength % HourLength = 0
    /\ SeedSpan \in Nat
    /\ MaxTime \in Nat
ASSUME RollupBoundsAssumption == MaxLogs \in Nat /\ MaxFaults \in Nat
ASSUME AggregatorsAssumption == Daemons \subseteq Aggregators

VARIABLES
    now,         \* the clock
    logs,        \* llm_logs: the committed rows
    inserting,   \* rows of INSERTs not yet committed
    created,     \* INSERTs so far, the last id given
    rollup,      \* metrics: the logs each committed row was computed from
    worker,      \* worker[d]: where the aggregating process is
    faults       \* faults so far

vars == <<now, logs, inserting, created, rollup, worker, faults>>

-------------------------------------------------------------------------------
(* Logs, buckets and windows *)

\* created_at is stamped when the transaction starts.
Log == [id : 1..MaxLogs, key : Keys, at : 0..MaxTime]

Periods == {"hourly", "daily"}
Length(p) == IF p = "hourly" THEN HourLength ELSE DayLength

\* date_trunc
Trunc(p, t) == t - (t % Length(p))

\* The unique key of metrics: (application_id, model), period_type, period_start.
Row == {r \in [key : Keys, period : Periods, start : 0..MaxTime] :
          r.start = Trunc(r.period, r.start)}

InBucket(l, r) == l.key = r.key /\ Trunc(r.period, l.at) = r.start

\* Mutant: the current hour only.
Window_CurrentHour(d, p, t) ==
    LET lo == IF d \notin Daemons THEN t - SeedSpan ELSE Trunc(p, t)
        hi == IF d \notin Daemons THEN t ELSE Trunc(p, t) + Length(p)
    IN  {u \in 0..MaxTime : lo <= u /\ u < hi}

\* Mutant: the hour is not rounded down.
Window_Unaligned(d, p, t) ==
    LET lo == IF p = "hourly" THEN t - HourLength ELSE Trunc(p, t)
    IN  {u \in 0..MaxTime : lo <= u /\ u < Trunc(p, t) + Length(p)}

\* Mutant: the daily rollup stops at the full hour.
Window_CompleteHours(d, p, t) ==
    LET lo == IF p = "hourly" THEN Trunc(p, t) - HourLength ELSE Trunc(p, t)
        hi == IF p = "hourly" THEN Trunc(p, t) + HourLength ELSE Trunc("hourly", t)
    IN  {u \in 0..MaxTime : lo <= u /\ u < hi}

\* What the process aggregates in a tick that began at t: the worker the current
\* and the previous hour, and today; seed the days up to t, cut off at both ends.
Window(d, p, t) ==
    LET lo == IF d \notin Daemons THEN t - SeedSpan
              ELSE IF p = "hourly" THEN Trunc(p, t) - HourLength ELSE Trunc(p, t)
        hi == IF d \notin Daemons THEN t ELSE Trunc(p, t) + Length(p)
    IN  {u \in 0..MaxTime : lo <= u /\ u < hi}

\* The query: the logs of the window, grouped by key and truncated period.
Groups(p, window) ==
    [r \in Row |-> IF r.period = p THEN {l \in logs : l.at \in window /\ InBucket(l, r)}
                   ELSE {}]

-------------------------------------------------------------------------------
(* State *)

NoGroups == [r \in Row |-> {}]

(***************************************************************************)
(* began: when the tick read the clock; found: what the query returned;    *)
(* todo: the rows still to be upserted; row: the one whose upsert has been *)
(* sent; done: those upserted, not committed, hence locked; txn: whether   *)
(* the session has a transaction open.                                     *)
(***************************************************************************)
Resting(pc, t) == [pc |-> pc, stop |-> FALSE, began |-> t, period |-> "hourly",
                   found |-> NoGroups, todo |-> {}, row |-> NoRow, done |-> {},
                   txn |-> FALSE]

PCs == {"idle", "seeding", "seeded", "select", "upsert", "waiting", "down"}

WorkerType == [pc : PCs, stop : BOOLEAN, began : 0..MaxTime, period : Periods,
               found : [Row -> SUBSET Log], todo : SUBSET Row, row : Row \cup {NoRow},
               done : SUBSET Row, txn : BOOLEAN]

TypeOK ==
    /\ now \in 0..MaxTime
    /\ logs \in SUBSET Log
    /\ inserting \in SUBSET Log
    /\ created \in 0..MaxLogs
    /\ rollup \in [Row -> SUBSET Log]
    /\ worker \in [Aggregators -> WorkerType]
    /\ faults \in 0..MaxFaults

Init ==
    /\ now = 0
    /\ logs = {}
    /\ inserting = {}
    /\ created = 0
    /\ rollup = NoGroups
    /\ worker = [d \in Aggregators |-> Resting(IF d \in Daemons THEN "idle" ELSE "down", 0)]
    /\ faults = 0

At(d, pc) == worker[d].pc = pc
Active(d) == worker[d].pc \in {"select", "upsert", "waiting"}

\* An upserted row is locked until the transaction that upserted it ends.
LockedBy(r, d) == r \in worker[d].done
Waits(d, e) == At(d, "waiting") /\ d # e /\ LockedBy(worker[d].row, e)

Fault == faults < MaxFaults /\ faults' = faults + 1

-------------------------------------------------------------------------------
(* The clock, and the INSERTs of log_service.create_log *)

\* Less than a unit separates an INSERT from its COMMIT, and the moment when seed
\* fills the table from the moment when it reads the clock to aggregate.
Advance ==
    /\ now < MaxTime
    /\ \A l \in inserting : l.at = now
    /\ \A d \in Aggregators : ~At(d, "seeded")
    /\ now' = now + 1
    /\ UNCHANGED <<logs, inserting, created, rollup, worker, faults>>

BeginInsert ==
    /\ created < MaxLogs
    /\ \E k \in Keys :
          inserting' = inserting \cup {[id |-> created + 1, key |-> k, at |-> now]}
    /\ created' = created + 1
    /\ UNCHANGED <<now, logs, rollup, worker, faults>>

CommitInsert(l) ==
    /\ inserting' = inserting \ {l}
    /\ logs' = logs \cup {l}
    /\ UNCHANGED <<now, created, rollup, worker, faults>>

InsertFails(l) ==
    /\ Fault
    /\ inserting' = inserting \ {l}
    /\ UNCHANGED <<now, logs, created, rollup, worker>>

-------------------------------------------------------------------------------
(* aggregate_window *)

\* run_once reads the clock, once for both windows.
BeginTick(d) ==
    /\ At(d, IF d \in Daemons THEN "idle" ELSE "seeded")
    /\ ~worker[d].stop
    /\ worker' = [worker EXCEPT ![d] = Resting("select", now)]
    /\ UNCHANGED <<now, logs, inserting, created, rollup, faults>>

\* After the hourly window the daily one, in the same session; after that the
\* session is closed, and the worker looks at the stop event.
NextWindow(d, w) ==
    IF w.period = "hourly"
    THEN [w EXCEPT !.pc = "select", !.period = "daily", !.found = NoGroups, !.done = {}]
    ELSE Resting(IF d \in Daemons /\ ~w.stop THEN "idle" ELSE "down", w.began)

\* SELECT ... GROUP BY; without rows it returns at once, its transaction still open.
Select(d) ==
    /\ At(d, "select")
    /\ LET w == worker[d]
           found == Groups(w.period, Window(d, w.period, w.began))
           todo == {r \in Row : found[r] # {}}
           open == [w EXCEPT !.txn = TRUE]
       IN  worker' = [worker EXCEPT ![d] =
                        IF todo = {} THEN NextWindow(d, open)
                        ELSE [open EXCEPT !.pc = "upsert", !.found = found, !.todo = todo]]
    /\ UNCHANGED <<now, logs, inserting, created, rollup, faults>>

\* The upsert of one row is sent, in the order in which the query returned them.
SendUpsert(d) ==
    /\ At(d, "upsert")
    /\ \E r \in worker[d].todo :
          worker' = [worker EXCEPT ![d].pc = "waiting", ![d].row = r]
    /\ UNCHANGED <<now, logs, inserting, created, rollup, faults>>

\* INSERT ... ON CONFLICT DO UPDATE, once no other transaction has the row.
Upsert(d) ==
    /\ At(d, "waiting")
    /\ \A e \in Aggregators : ~Waits(d, e)
    /\ worker' = [worker EXCEPT ![d].pc = "upsert", ![d].todo = @ \ {worker[d].row},
                                ![d].done = @ \cup {worker[d].row}, ![d].row = NoRow]
    /\ UNCHANGED <<now, logs, inserting, created, rollup, faults>>

\* The rows after the COMMIT of d: every row upserted is overwritten.
Committed(d) ==
    [r \in Row |-> IF r \in worker[d].done THEN worker[d].found[r] ELSE rollup[r]]

CommitWindow(d) ==
    /\ At(d, "upsert")
    /\ worker[d].todo = {}
    /\ rollup' = Committed(d)
    /\ worker' = [worker EXCEPT ![d] = NextWindow(d, [@ EXCEPT !.txn = FALSE])]
    /\ UNCHANGED <<now, logs, inserting, created, faults>>

-------------------------------------------------------------------------------
(* Failures *)

\* Mutant: the session outlives the tick, and with it the locks.
Abandon_KeepsSession(d) ==
    IF d \in Daemons /\ ~worker[d].stop
    THEN [Resting("idle", worker[d].began) EXCEPT !.done = worker[d].done]
    ELSE Resting("down", worker[d].began)

\* Mutant: the upsert is tried again in the session that holds the locks.
Abandon_TriesAgain(d) == [worker[d] EXCEPT !.pc = "upsert", !.row = NoRow]

\* An exception leaves run_once: the session rolls back as it closes; the worker
\* logs the exception and waits for its next tick, seed ends.
Abandon(d) ==
    Resting(IF d \in Daemons /\ ~worker[d].stop THEN "idle" ELSE "down", worker[d].began)

\* A failed COMMIT may have committed all the same.
StatementFails(d) ==
    /\ Active(d)
    /\ Fault
    /\ worker' = [worker EXCEPT ![d] = Abandon(d)]
    /\ \/ UNCHANGED rollup
       \/ At(d, "upsert") /\ worker[d].todo = {} /\ rollup' = Committed(d)
    /\ UNCHANGED <<now, logs, inserting, created>>

OnCycle(d) ==
    \E cycle \in SUBSET Aggregators :
        /\ d \in cycle
        /\ \A e \in cycle : (\E f \in cycle : Waits(e, f)) /\ (\E f \in cycle : Waits(f, e))

\* PostgreSQL aborts a transaction that is part of a cycle of waits.
DeadlockDetected(d) ==
    /\ OnCycle(d)
    /\ worker' = [worker EXCEPT ![d] = Abandon(d)]
    /\ UNCHANGED <<now, logs, inserting, created, rollup, faults>>

Crash(d) ==
    /\ ~At(d, "down")
    /\ Fault
    /\ worker' = [worker EXCEPT ![d] = Resting("down", 0)]
    /\ UNCHANGED <<now, logs, inserting, created, rollup>>

\* SIGTERM only sets the event that the loop looks at between ticks.
Stop(d) ==
    /\ d \in Daemons
    /\ ~At(d, "down")
    /\ worker' = [worker EXCEPT ![d] = IF At(d, "idle") THEN Resting("down", 0)
                                       ELSE [@ EXCEPT !.stop = TRUE]]
    /\ UNCHANGED <<now, logs, inserting, created, rollup, faults>>

\* An operator starts the worker.
Start(d) ==
    /\ d \in Daemons
    /\ At(d, "down")
    /\ worker' = [worker EXCEPT ![d] = Resting("idle", 0)]
    /\ UNCHANGED <<now, logs, inserting, created, rollup, faults>>

-------------------------------------------------------------------------------
(* seed *)

RunSeed(d) ==
    /\ d \notin Daemons
    /\ At(d, "down")
    /\ worker' = [worker EXCEPT ![d] = Resting("seeding", 0)]
    /\ UNCHANGED <<now, logs, inserting, created, rollup, faults>>

\* Mutant: rows are deleted without the table lock.
Reset_NoLock(d) ==
    /\ At(d, "seeding")
    /\ inserting = {}
    /\ logs' = {}
    /\ rollup' = NoGroups
    /\ UNCHANGED <<now, inserting, created, worker, faults>>

\* seed --reset: TRUNCATE waits for every transaction that has touched the tables.
Reset(d) ==
    /\ At(d, "seeding")
    /\ inserting = {}
    /\ \A e \in Aggregators : ~worker[e].txn
    /\ logs' = {}
    /\ rollup' = NoGroups
    /\ UNCHANGED <<now, inserting, created, worker, faults>>

\* Back-dated logs, in one transaction.
SeedLogs(d) ==
    /\ At(d, "seeding")
    /\ \E l \in Log :
          /\ l.id = created + 1
          /\ now - (SeedSpan - DayLength) <= l.at /\ l.at < now
          /\ logs' = logs \cup {l}
    /\ created' = created + 1
    /\ worker' = [worker EXCEPT ![d].pc = "seeded"]
    /\ UNCHANGED <<now, inserting, rollup, faults>>

-------------------------------------------------------------------------------
Proceed(d) ==
    \/ BeginTick(d) \/ Select(d) \/ SendUpsert(d) \/ Upsert(d) \/ CommitWindow(d)
    \/ DeadlockDetected(d)
Disturb(d) == StatementFails(d) \/ Crash(d) \/ Stop(d) \/ Start(d)
Seed(d) == RunSeed(d) \/ Reset(d) \/ SeedLogs(d)
Insert == BeginInsert \/ \E l \in inserting : CommitInsert(l) \/ InsertFails(l)

Next ==
    \/ Advance
    \/ Insert
    \/ \E d \in Aggregators : Proceed(d) \/ Disturb(d) \/ Seed(d)

Spec == Init /\ [][Next]_vars

(***************************************************************************)
(* A tick is due every five minutes, a unit of the clock is longer: a      *)
(* worker that is up begins a tick in each unit.  Ticks take their steps,  *)
(* PostgreSQL lets the transactions that wait for a row have it in turn,   *)
(* and INSERTs end; nothing is assumed of faults, signals or seed.         *)
(***************************************************************************)
Punctual == \A d \in Daemons : At(d, "down") \/ worker[d].began = now
PunctualNext ==
    \/ Advance /\ Punctual
    \/ Insert
    \/ \E d \in Aggregators : Proceed(d) \/ Disturb(d) \/ Seed(d)
Fairness ==
    /\ \A d \in Aggregators : WF_vars(Proceed(d)) /\ SF_vars(Upsert(d))
    /\ WF_vars(\E l \in inserting : CommitInsert(l) \/ InsertFails(l))
FairSpec == Spec /\ Fairness
PunctualSpec == Init /\ [][PunctualNext]_vars /\ Fairness

-------------------------------------------------------------------------------
(* Properties *)

(***************************************************************************)
(* metrics_aggregator.py:64-92 against seed.py:210-214.  Every log a row   *)
(* counts exists: a reset never comes between the query of an aggregation  *)
(* and the commit of its rows.                                             *)
(***************************************************************************)
RowsCountStoredLogs ==
    \A r \in Row : rollup[r] \subseteq {l \in logs : InBucket(l, r)}

(***************************************************************************)
(* The docstring of metrics_aggregator.py, line 7: "re-running a window    *)
(* overwrites with fresh numbers".  Unless logs are truncated, a commit    *)
(* never takes a log out of a row that counted it.                         *)
(***************************************************************************)
FreshNumbers ==
    [][logs \subseteq logs' => \A r \in Row : rollup[r] \subseteq rollup'[r]]_vars

(***************************************************************************)
(* What a transaction holds: only between its query and its commit, and of *)
(* what it found, only logs that exist.                                    *)
(***************************************************************************)
Holding(w) ==
    /\ w.pc = "waiting" => w.row \in w.todo
    /\ w.pc \in {"upsert", "waiting"} => w.txn
    /\ w.pc \notin {"upsert", "waiting"} => w.todo = {} /\ w.done = {} /\ w.found = NoGroups
    /\ \A r \in Row : w.found[r] \subseteq {l \in logs : InBucket(l, r)}

\* No two transactions have found their groups and not yet committed them.
OneAtATime ==
    \A d, e \in Aggregators :
        {worker[d].pc, worker[e].pc} \subseteq {"upsert", "waiting"} => d = e

\* Row locks exclude each other.
RowsExclusive ==
    \A d, e \in Aggregators : d # e => worker[d].done \cap worker[e].done = {}

\* The inductive invariant behind RowsCountStoredLogs.
IInv ==
    /\ TypeOK
    /\ \A d \in Aggregators : Holding(worker[d])
    /\ RowsCountStoredLogs
    /\ RowsExclusive

\* The last statement of a tick that gets to its end.
Completes(d) == (Select(d) \/ CommitWindow(d)) /\ Active(d) /\ ~Active(d)'

HourlyOf(h, t) == h.period = "hourly" /\ Trunc("daily", h.start) = Trunc("daily", t)
DailyRow(h) == [key |-> h.key, period |-> "daily", start |-> Trunc("daily", h.start)]

(***************************************************************************)
(* metrics_worker.py:32-35.  A tick that gets to its end leaves the two    *)
(* levels of the day it began in aligned: each daily row counts whatever   *)
(* the hourly rows of that day count, although logs commit between the two *)
(* queries, earlier ticks failed between the two commits, or this one      *)
(* found nothing and wrote nothing.  It says nothing of yesterday, whose   *)
(* daily row no tick writes again: see DailyComplete.                      *)
(***************************************************************************)
TickAlignsLevels ==
    [][\A d \in Daemons : Completes(d) =>
          \A h \in Row : HourlyOf(h, worker[d].began) => rollup'[h] \subseteq rollup'[DailyRow(h)]]_vars

(***************************************************************************)
(* metrics_aggregator.py:69-94.  Ticks never all wait for each other       *)
(* behind PostgreSQL's back: while some process is in a tick, one of them  *)
(* can take its next step, or is on a cycle of waits and can be aborted.   *)
(***************************************************************************)
CanMove(d) == Active(d) /\ \A e \in Aggregators : ~Waits(d, e)
NeverStuck ==
    (\E d \in Aggregators : Active(d)) =>
        \E d \in Aggregators : CanMove(d) \/ OnCycle(d)

\* metrics_worker.py:46-56: every tick ends, although transactions wait for each
\* other's rows in whatever order the queries returned them.
TicksEnd == \A d \in Aggregators : Active(d) ~> ~Active(d)

WorkerDown == \E d \in Daemons : At(d, "down")
CountedIn(p, l) == l \in rollup[[key |-> l.key, period |-> p, start |-> Trunc(p, l.at)]]

(***************************************************************************)
(* metrics_worker.py:33.  Every log is counted in its hourly row, however  *)
(* late its transaction commits and although a tick fails, unless it is    *)
(* rolled back or the worker goes down: the previous hour is aggregated    *)
(* again for long enough.                                                  *)
(***************************************************************************)
EventuallyCounted(p) ==
    \A l \in Log : l \in inserting ~> \/ CountedIn(p, l)
                                      \/ l \notin inserting \cup logs
                                      \/ WorkerDown
HourlyComplete == EventuallyCounted("hourly")

\* Whether a tick at t must still count in the row of a log stamped at u: the hour is
\* the current or the previous one, the day is today.
StillDue(p, u, t) == Trunc(p, t) <= Trunc(p, u) + (IF p = "hourly" THEN HourLength ELSE 0)

(***************************************************************************)
(* metrics_worker.py:32-35 with a deadline: while the worker is up, a log  *)
(* is in its row four units after its stamp and one more for each fault,   *)
(* if the last tick that may be needed for it still comes in time.  Where  *)
(* it does not, in the last units of a day, is where daily rows lose logs. *)
(***************************************************************************)
CountedInTime ==
    []~WorkerDown =>
    [](\A p \in Periods, l \in logs :
          now >= l.at + 4 + faults /\ StillDue(p, l.at, l.at + 2 + faults) => CountedIn(p, l))

(***************************************************************************)
(* The design spec, line 59: "re-aggregates only the current + previous    *)
(* period each tick"; so the daily rows get complete too.                  *)
(***************************************************************************)
DailyComplete == EventuallyCounted("daily")
===============================================================================
