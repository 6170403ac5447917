---------------------------- MODULE MetricsSummary ----------------------------
(***************************************************************************)
(* GET /metrics/summary (metric_service.summary): the figures at the top   *)
(* of the dashboard, put together from four statements while aggregations  *)
(* rewrite the rows they read and seed --reset waits to truncate them.     *)
(*                                                                         *)
(* Every figure is a function of the rows its statement saw.  The totals   *)
(* are sums over hourly rows, whose logs are disjoint, so a total is       *)
(* modelled by the set of logs that those rows count.                      *)
(***************************************************************************)
EXTENDS MetricsRollup

CONSTANTS
    Spans,       \* the lengths of the windows on offer
    Untimed      \* ids of the logs that were sent without a latency

ASSUME SpansAssumption == Spans \subseteq Nat \ {0}

VARIABLES
    reader,      \* the request in hand
    kept         \* history: the logs that an hourly row has counted ever since
                 \* the first statement of the request

summaryVars == <<reader, kept>>
allVars == <<vars, summaryVars>>

-------------------------------------------------------------------------------
(* The statements, each over the rows committed before it *)

Hourly(starts) == {r \in Row : r.period = "hourly" /\ r.start \in starts}
CountedBy(rows) == UNION {rollup[r] : r \in rows}

\* Mutant: both ends belong to the window.
Totals_ClosedWindow(from, to) == CountedBy(Hourly({u \in 0..MaxTime : from <= u /\ u <= to}))

\* Mutant: neither end belongs to the window.
Totals_OpenWindow(from, to) == CountedBy(Hourly({u \in 0..MaxTime : from < u /\ u < to}))

\* _window_totals
Totals(from, to) == CountedBy(Hourly({u \in 0..MaxTime : from <= u /\ u < to}))

HasPercentiles(r) == \E l \in rollup[r] : l.id \notin Untimed

\* Mutant: the percentiles of complete hours only.
Medians_CompleteHours(from) ==
    {r \in Hourly({u \in 0..MaxTime : from <= u /\ u + HourLength <= now}) : HasPercentiles(r)}

\* The rows whose percentiles enter the medians; there is no upper bound, so an
\* hour that has begun since the clock was read may be among them.
Medians(from) == {r \in Hourly({u \in 0..MaxTime : from <= u}) : HasPercentiles(r)}

-------------------------------------------------------------------------------
(* The request *)

\* began: the clock as it was read; current, previous: what the totals count.
NoRequest == [pc |-> "idle", began |-> 0, span |-> 0,
              current |-> {}, previous |-> {}, medians |-> {}]

ReaderType == [pc : {"idle", "current", "previous", "medians", "alerts", "answered"},
               began : 0..MaxTime, span : Spans \cup {0},
               current : SUBSET Log, previous : SUBSET Log, medians : SUBSET Row]

SummaryTypeOK == TypeOK /\ reader \in ReaderType /\ kept \in SUBSET Log

SummaryInit == Init /\ reader = NoRequest /\ kept = {}

WindowStart == reader.began - reader.span

\* The session's transaction lasts from its first statement until it is closed.
InTransaction == reader.pc \notin {"idle", "current"}

BeginSummary ==
    /\ reader.pc = "idle"
    /\ \E span \in Spans :
          reader' = [NoRequest EXCEPT !.pc = "current", !.began = now, !.span = span]
    /\ UNCHANGED <<vars, kept>>

ReadCurrent ==
    /\ reader.pc = "current"
    /\ reader' = [reader EXCEPT !.pc = "previous", !.current = Totals(WindowStart, reader.began)]
    /\ kept' = CountedBy(Hourly(0..MaxTime))
    /\ UNCHANGED vars

ReadPrevious ==
    /\ reader.pc = "previous"
    /\ reader' = [reader EXCEPT !.pc = "medians",
                                !.previous = Totals(WindowStart - reader.span, WindowStart)]
    /\ UNCHANGED <<vars, kept>>

ReadMedians ==
    /\ reader.pc = "medians"
    /\ reader' = [reader EXCEPT !.pc = "alerts", !.medians = Medians(WindowStart)]
    /\ UNCHANGED <<vars, kept>>

\* The count of open alerts concerns no other figure.
CountAlerts ==
    /\ reader.pc = "alerts"
    /\ reader' = [reader EXCEPT !.pc = "answered"]
    /\ UNCHANGED <<vars, kept>>

\* A statement fails (500), the one that waits for the alerts also because TRUNCATE
\* has them and waits for the metrics; or the session is closed after the answer.
EndSummary ==
    /\ reader.pc # "idle"
    /\ reader' = NoRequest
    /\ kept' = {}
    /\ UNCHANGED vars

KeepCounted == kept' = kept \cap CountedBy(Hourly(0..MaxTime))'

\* Mutant: rows are deleted under a transaction that has read them.
Rollup_NoLock == Next /\ KeepCounted /\ UNCHANGED reader

\* A step of MetricsRollup.  TRUNCATE waits for this transaction as well.
Rollup ==
    /\ Next
    /\ InTransaction => logs \subseteq logs'
    /\ KeepCounted
    /\ UNCHANGED reader

SummaryNext ==
    \/ Rollup
    \/ BeginSummary \/ ReadCurrent \/ ReadPrevious \/ ReadMedians \/ CountAlerts
    \/ EndSummary

SummarySpec == SummaryInit /\ [][SummaryNext]_allVars

-------------------------------------------------------------------------------
(* Properties *)

Bucket(l) == Trunc("hourly", l.at)
InWindow(l, from, to) == from <= Bucket(l) /\ Bucket(l) < to

(***************************************************************************)
(* metric_service.py:89-91.  Two totals read one after the other over      *)
(* windows that no row boundary need coincide with: a log that an hourly   *)
(* row of either window counts all the while is in exactly one of them, so *)
(* the cost and the cost of the previous window can be compared.           *)
(***************************************************************************)
EachWindowOnce ==
    reader.pc = "answered" =>
        \A l \in kept :
            InWindow(l, WindowStart - reader.span, reader.began)
                => (l \in reader.current) # (l \in reader.previous)

(***************************************************************************)
(* metric_service.py:93-105.  The percentiles stand next to the totals     *)
(* though they are read two statements later and over another range: they  *)
(* leave out no row that the total counts and that has percentiles.        *)
(***************************************************************************)
PercentilesMatchTotals ==
    reader.pc = "answered" =>
        \A l \in reader.current \cap kept : l.id \notin Untimed =>
            [key |-> l.key, period |-> "hourly", start |-> Bucket(l)] \in reader.medians

(***************************************************************************)
(* metric_service.py:89-111 against seed.py:210-214.  While a summary is   *)
(* put together nothing it has counted goes away: no answer has figures    *)
(* from before a reset next to figures from after it.                      *)
(***************************************************************************)
SummaryOfOneTable == InTransaction => reader.current \cup reader.previous \subseteq logs

\* What a total is worth: it counts logs of its window only, and all that are kept.
Counts(total, from, to) ==
    /\ \A l \in total : l \in logs /\ InWindow(l, from, to)
    /\ \A l \in kept : InWindow(l, from, to) => l \in total

(***************************************************************************)
(* What the statements that have been run have found: the inductive        *)
(* invariant behind the three properties, on top of IInv.                  *)
(***************************************************************************)
ReadSoFar ==
    /\ SummaryTypeOK
    /\ kept \subseteq CountedBy(Hourly(0..MaxTime))
    /\ InTransaction => Counts(reader.current, WindowStart, reader.began)
    /\ reader.pc \in {"idle", "current", "previous"} => reader.previous = {}
    /\ reader.pc \in {"medians", "alerts", "answered"} =>
          Counts(reader.previous, WindowStart - reader.span, WindowStart)
    /\ reader.pc \in {"alerts", "answered"} =>
          \A l \in kept : WindowStart <= Bucket(l) /\ l.id \notin Untimed =>
              [key |-> l.key, period |-> "hourly", start |-> Bucket(l)] \in reader.medians
===============================================================================
