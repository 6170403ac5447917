------------------------- MODULE MetricsSummary_proofs -------------------------
(***************************************************************************)
(* Proofs about MetricsSummary: what a summary says of the rows it was put *)
(* together from, for every set of aggregators, every window and bound.    *)
(***************************************************************************)
EXTENDS MetricsSummary, MetricsRollup_proofs

(***************************************************************************)
(* The aggregators are not aware of the reader: the rollups behave as they *)
(* do without it.                                                          *)
(***************************************************************************)
LEMMA SummaryImplementsRollup == SummarySpec => Spec
<1>1. SummaryInit => Init
  BY DEF SummaryInit
<1>2. ASSUME [SummaryNext]_allVars PROVE [Next]_vars
  BY <1>2 DEF SummaryNext, allVars, summaryVars, Rollup, BeginSummary, ReadCurrent, ReadPrevious,
              ReadMedians, CountAlerts, EndSummary
<1> QED BY <1>1, <1>2, PTL DEF SummarySpec, Spec

(***************************************************************************)
(* An hourly row counts only logs that exist, each in its own hour; a log  *)
(* is counted by the row of its hour if any.                               *)
(***************************************************************************)
LEMMA CountedInOwnHour ==
  ASSUME IInv, NEW starts, NEW l \in CountedBy(Hourly(starts))
  PROVE  /\ l \in Log /\ l \in logs
         /\ Bucket(l) \in starts /\ Bucket(l) \in 0..MaxTime
         /\ LET row == [key |-> l.key, period |-> "hourly", start |-> Bucket(l)]
            IN  row \in Row /\ l \in rollup[row]
<1>1. PICK r \in Row : r.period = "hourly" /\ r.start \in starts /\ l \in rollup[r]
  BY DEF CountedBy, Hourly
<1>2. l \in logs /\ InBucket(l, r)
  BY <1>1 DEF IInv, RowsCountStoredLogs
<1>3. Bucket(l) = r.start /\ l.key = r.key
  BY <1>1, <1>2 DEF InBucket, Bucket
<1>4. l \in Log /\ r.start \in 0..MaxTime
  BY <1>2 DEF IInv, TypeOK, Row
<1>5. r = [key |-> l.key, period |-> "hourly", start |-> Bucket(l)]
  BY <1>1, <1>3 DEF Row
<1> QED BY <1>1, <1>2, <1>3, <1>4, <1>5

(***************************************************************************)
(* A log that some hourly row counts is counted by the row of its hour.    *)
(***************************************************************************)
LEMMA HourDecides ==
  ASSUME IInv, NEW starts, NEW l \in CountedBy(Hourly(0..MaxTime)), Bucket(l) \in starts
  PROVE  /\ l \in CountedBy(Hourly(starts))
         /\ [key |-> l.key, period |-> "hourly", start |-> Bucket(l)] \in Hourly(starts)
<1> DEFINE row == [key |-> l.key, period |-> "hourly", start |-> Bucket(l)]
<1>1. row \in Row /\ l \in rollup[row]
  BY CountedInOwnHour
<1> QED BY <1>1 DEF CountedBy, Hourly

(***************************************************************************)
(* _window_totals counts exactly the logs of its window that hourly rows   *)
(* count when it runs.                                                     *)
(***************************************************************************)
LEMMA TotalsExact ==
  ASSUME IInv, NEW from \in Int, NEW to \in Int, kept \subseteq CountedBy(Hourly(0..MaxTime))
  PROVE  Totals(from, to) \in SUBSET Log /\ Counts(Totals(from, to), from, to)
<1> DEFINE starts == {u \in 0..MaxTime : from <= u /\ u < to}
<1>1. \A l \in Totals(from, to) : l \in Log /\ l \in logs /\ InWindow(l, from, to)
  <2> SUFFICES ASSUME NEW l \in CountedBy(Hourly(starts))
               PROVE  l \in Log /\ l \in logs /\ InWindow(l, from, to)
    BY DEF Totals
  <2>1. l \in Log /\ l \in logs /\ Bucket(l) \in starts
    BY CountedInOwnHour
  <2> QED BY <2>1 DEF InWindow
<1>2. ASSUME NEW l \in kept, InWindow(l, from, to) PROVE l \in Totals(from, to)
  <2>1. l \in CountedBy(Hourly(0..MaxTime))
    OBVIOUS
  <2>2. Bucket(l) \in 0..MaxTime
    BY <2>1, CountedInOwnHour
  <2>3. Bucket(l) \in starts
    BY <1>2, <2>2 DEF InWindow
  <2> QED BY <2>1, <2>3, HourDecides DEF Totals
<1> QED BY <1>1, <1>2 DEF Counts

(***************************************************************************)
(* The window's ends are integers.                                         *)
(***************************************************************************)
LEMMA WindowEnds ==
  ASSUME SummaryTypeOK
  PROVE  /\ reader.began \in Int /\ reader.span \in Int /\ WindowStart \in Int
         /\ WindowStart - reader.span \in Int
<1>1. reader.began \in 0..MaxTime /\ reader.span \in Spans \cup {0}
  BY DEF SummaryTypeOK, ReaderType
<1>2. reader.began \in Int
  BY <1>1, ClockAssumption
<1>3. reader.span \in Int
  <2>1. \A span \in Spans : span \in Int
    BY SpansAssumption
  <2> QED BY <1>1, <2>1
<1> QED BY <1>2, <1>3 DEF WindowStart

-------------------------------------------------------------------------------
(***************************************************************************)
(* An aggregator's step takes nothing from what has been read: no log goes *)
(* away under the reader's transaction, and kept only shrinks.             *)
(***************************************************************************)
LEMMA RollupKeeps ==
  ASSUME ReadSoFar, Rollup, IInv'
  PROVE  ReadSoFar'
<1>1. reader' = reader /\ kept' \subseteq kept /\ (InTransaction => logs \subseteq logs')
  BY DEF Rollup, KeepCounted
<1>2. InTransaction' = InTransaction /\ WindowStart' = WindowStart
  BY <1>1 DEF InTransaction, WindowStart
<1>3. SummaryTypeOK'
  BY <1>1 DEF ReadSoFar, SummaryTypeOK, IInv
<1>4. (kept \subseteq CountedBy(Hourly(0..MaxTime)))'
  BY DEF Rollup, KeepCounted
<1>5. (InTransaction => Counts(reader.current, WindowStart, reader.began))'
  BY <1>1, <1>2 DEF ReadSoFar, Counts
<1>6. (reader.pc \in {"medians", "alerts", "answered"} =>
         Counts(reader.previous, WindowStart - reader.span, WindowStart))'
  BY <1>1, <1>2 DEF ReadSoFar, Counts, InTransaction
<1>7. (reader.pc \in {"alerts", "answered"} =>
         \A l \in kept : WindowStart <= Bucket(l) /\ l.id \notin Untimed =>
            [key |-> l.key, period |-> "hourly", start |-> Bucket(l)] \in reader.medians)'
  BY <1>1, <1>2 DEF ReadSoFar
<1>8. (reader.pc \in {"idle", "current", "previous"} => reader.previous = {})'
  BY <1>1 DEF ReadSoFar
<1> QED BY <1>3, <1>4, <1>5, <1>6, <1>7, <1>8 DEF ReadSoFar

(***************************************************************************)
(* The reader's own statements add what the invariant says of them.        *)
(***************************************************************************)
LEMMA ReaderSteps ==
  ASSUME ReadSoFar, IInv,
         BeginSummary \/ ReadCurrent \/ ReadPrevious \/ ReadMedians \/ CountAlerts \/ EndSummary
  PROVE  ReadSoFar'
<1> USE DEF ReadSoFar, SummaryTypeOK
<1>1. UNCHANGED vars
  BY DEF BeginSummary, ReadCurrent, ReadPrevious, ReadMedians, CountAlerts, EndSummary
<1>2. UNCHANGED <<now, logs, rollup>> /\ TypeOK'
  BY <1>1 DEF vars, TypeOK
<1>3. /\ reader.began \in Int /\ reader.span \in Int /\ WindowStart \in Int
      /\ WindowStart - reader.span \in Int
  BY WindowEnds
<1>4. CASE BeginSummary
  <2>1. PICK span \in Spans :
           reader' = [NoRequest EXCEPT !.pc = "current", !.began = now, !.span = span]
    BY <1>4 DEF BeginSummary
  <2>2. reader' \in ReaderType /\ reader'.pc = "current"
    BY <2>1 DEF NoRequest, ReaderType, TypeOK
  <2>3. reader'.previous = {}
    BY <2>1 DEF NoRequest
  <2> QED BY <1>2, <1>4, <2>2, <2>3 DEF BeginSummary, InTransaction, CountedBy, Hourly
<1>5. CASE ReadCurrent
  <2> DEFINE total == Totals(WindowStart, reader.began)
  <2>1. /\ reader.pc = "current" /\ kept' = CountedBy(Hourly(0..MaxTime))
        /\ reader' = [reader EXCEPT !.pc = "previous", !.current = total]
    BY <1>5 DEF ReadCurrent
  <2>2. total \in SUBSET Log /\ \A l \in total : l \in logs /\ InWindow(l, WindowStart, reader.began)
    BY <1>3, TotalsExact DEF Counts
  <2>3. \A l \in kept' : InWindow(l, WindowStart, reader.began) => l \in total
    <3> SUFFICES ASSUME NEW l \in CountedBy(Hourly(0..MaxTime)),
                        InWindow(l, WindowStart, reader.began)
                 PROVE  l \in total
      BY <2>1
    <3>1. Bucket(l) \in 0..MaxTime
      BY CountedInOwnHour
    <3>2. Bucket(l) \in {u \in 0..MaxTime : WindowStart <= u /\ u < reader.began}
      BY <3>1 DEF InWindow
    <3> QED BY <3>2, HourDecides DEF Totals
  <2>4. kept' \in SUBSET Log
    BY <2>1, CountedInOwnHour
  <2> HIDE DEF total
  <2>5. /\ reader' \in ReaderType /\ reader'.pc = "previous" /\ reader'.current = total
        /\ WindowStart' = WindowStart /\ reader'.began = reader.began
    BY <2>1, <2>2 DEF ReaderType, WindowStart
  <2>6. Counts(reader.current, WindowStart, reader.began)'
    BY <1>2, <2>2, <2>3, <2>5 DEF Counts, InWindow, Bucket, Trunc, Length
  <2>7. reader'.previous = {}
    BY <2>1
  <2> QED BY <1>2, <2>1, <2>4, <2>5, <2>6, <2>7 DEF InTransaction, CountedBy, Hourly
<1>6. CASE ReadPrevious
  <2> DEFINE total == Totals(WindowStart - reader.span, WindowStart)
  <2>1. /\ reader.pc = "previous" /\ kept' = kept
        /\ reader' = [reader EXCEPT !.pc = "medians", !.previous = total]
    BY <1>6 DEF ReadPrevious
  <2>2. total \in SUBSET Log /\ Counts(total, WindowStart - reader.span, WindowStart)
    BY <1>3, TotalsExact
  <2> HIDE DEF total
  <2>3. /\ reader' \in ReaderType /\ reader'.pc = "medians" /\ reader'.previous = total
        /\ reader'.current = reader.current /\ WindowStart' = WindowStart
        /\ reader'.began = reader.began /\ reader'.span = reader.span
    BY <2>1, <2>2 DEF ReaderType, WindowStart
  <2>4. Counts(reader.previous, WindowStart - reader.span, WindowStart)'
    BY <1>2, <2>1, <2>2, <2>3 DEF Counts, InWindow, Bucket, Trunc, Length
  <2>5. Counts(reader.current, WindowStart, reader.began)'
    BY <1>2, <2>1, <2>3 DEF Counts, InWindow, Bucket, Trunc, Length, InTransaction
  <2> QED BY <1>2, <2>1, <2>3, <2>4, <2>5 DEF CountedBy, Hourly
<1>7. CASE ReadMedians
  <2> DEFINE rows == Medians(WindowStart)
  <2>1. /\ reader.pc = "medians" /\ kept' = kept
        /\ reader' = [reader EXCEPT !.pc = "alerts", !.medians = rows]
    BY <1>7 DEF ReadMedians
  <2>2. rows \in SUBSET Row
    BY DEF Medians, Hourly
  <2>3. ASSUME NEW l \in kept, WindowStart <= Bucket(l), l.id \notin Untimed
        PROVE  [key |-> l.key, period |-> "hourly", start |-> Bucket(l)] \in rows
    <3> DEFINE row == [key |-> l.key, period |-> "hourly", start |-> Bucket(l)]
    <3>1. l \in CountedBy(Hourly(0..MaxTime))
      OBVIOUS
    <3>2. Bucket(l) \in 0..MaxTime /\ l \in rollup[row]
      BY <3>1, CountedInOwnHour
    <3>3. Bucket(l) \in {u \in 0..MaxTime : WindowStart <= u}
      BY <2>3, <3>2
    <3>4. row \in Hourly({u \in 0..MaxTime : WindowStart <= u})
      BY <3>1, <3>3, HourDecides
    <3> QED BY <2>3, <3>2, <3>4 DEF Medians, HasPercentiles
  <2> HIDE DEF rows
  <2>4. /\ reader' \in ReaderType /\ reader'.pc = "alerts" /\ reader'.medians = rows
        /\ reader'.current = reader.current /\ reader'.previous = reader.previous
        /\ WindowStart' = WindowStart /\ reader'.began = reader.began
        /\ reader'.span = reader.span
    BY <2>1, <2>2 DEF ReaderType, WindowStart
  <2>5. /\ Counts(reader.previous, WindowStart - reader.span, WindowStart)'
        /\ Counts(reader.current, WindowStart, reader.began)'
    BY <1>2, <2>1, <2>4 DEF Counts, InWindow, Bucket, Trunc, Length, InTransaction
  <2>6. (\A l \in kept : WindowStart <= Bucket(l) /\ l.id \notin Untimed =>
            [key |-> l.key, period |-> "hourly", start |-> Bucket(l)] \in reader.medians)'
    BY <2>1, <2>3, <2>4 DEF Bucket, Trunc, Length
  <2> QED BY <1>2, <2>1, <2>4, <2>5, <2>6 DEF CountedBy, Hourly
<1>8. CASE CountAlerts
  <2>1. /\ reader.pc = "alerts" /\ kept' = kept
        /\ reader' = [reader EXCEPT !.pc = "answered"]
    BY <1>8 DEF CountAlerts
  <2>2. /\ reader' \in ReaderType /\ reader'.pc = "answered"
        /\ reader'.medians = reader.medians
        /\ reader'.current = reader.current /\ reader'.previous = reader.previous
        /\ WindowStart' = WindowStart /\ reader'.began = reader.began
        /\ reader'.span = reader.span
    BY <2>1 DEF ReaderType, WindowStart
  <2>3. /\ Counts(reader.previous, WindowStart - reader.span, WindowStart)'
        /\ Counts(reader.current, WindowStart, reader.began)'
    BY <1>2, <2>1, <2>2 DEF Counts, InWindow, Bucket, Trunc, Length, InTransaction
  <2>4. (\A l \in kept : WindowStart <= Bucket(l) /\ l.id \notin Untimed =>
            [key |-> l.key, period |-> "hourly", start |-> Bucket(l)] \in reader.medians)'
    BY <2>1, <2>2 DEF Bucket, Trunc, Length
  <2> QED BY <1>2, <2>1, <2>2, <2>3, <2>4 DEF CountedBy, Hourly
<1>9. CASE EndSummary
  <2>1. reader' = NoRequest /\ kept' = {}
    BY <1>9 DEF EndSummary
  <2>2. NoRequest \in ReaderType
    BY ClockAssumption DEF NoRequest, ReaderType
  <2> QED BY <1>2, <2>1, <2>2 DEF NoRequest, InTransaction
<1> QED BY <1>4, <1>5, <1>6, <1>7, <1>8, <1>9

(***************************************************************************)
(* The invariant of the reader holds throughout, next to that of the       *)
(* rollups.                                                                *)
(***************************************************************************)
THEOREM SummaryInvariance == SummarySpec => [](IInv /\ ReadSoFar)
<1>1. SummaryInit /\ IInv => ReadSoFar
  <2> SUFFICES ASSUME SummaryInit, IInv PROVE ReadSoFar
    OBVIOUS
  <2>1. NoRequest \in ReaderType
    BY ClockAssumption DEF NoRequest, ReaderType
  <2> QED BY <2>1 DEF SummaryInit, ReadSoFar, SummaryTypeOK, IInv, NoRequest, InTransaction
<1>2. ASSUME ReadSoFar, IInv, IInv', [SummaryNext]_allVars PROVE ReadSoFar'
  <2>1. CASE UNCHANGED allVars
    BY <1>2, <2>1
       DEF allVars, summaryVars, vars, ReadSoFar, SummaryTypeOK, TypeOK, CountedBy, Hourly,
           InTransaction, WindowStart, Counts, InWindow, Bucket, Trunc, Length
  <2> QED BY <1>2, <2>1, RollupKeeps, ReaderSteps DEF SummaryNext
<1> QED BY <1>1, <1>2, SummaryImplementsRollup, RollupInvariance, PTL DEF SummarySpec

(***************************************************************************)
(* The two totals of an answer count each log of their windows once.       *)
(***************************************************************************)
THEOREM Each_WindowOnce == SummarySpec => []EachWindowOnce
<1>1. ASSUME IInv, ReadSoFar PROVE EachWindowOnce
  <2> SUFFICES ASSUME reader.pc = "answered", NEW l \in kept,
                      InWindow(l, WindowStart - reader.span, reader.began)
               PROVE  (l \in reader.current) # (l \in reader.previous)
    BY DEF EachWindowOnce
  <2>1. /\ Counts(reader.current, WindowStart, reader.began)
        /\ Counts(reader.previous, WindowStart - reader.span, WindowStart)
    BY <1>1 DEF ReadSoFar, InTransaction
  <2>2. Bucket(l) \in Int /\ WindowStart \in Int
    <3>1. l \in CountedBy(Hourly(0..MaxTime)) /\ SummaryTypeOK
      BY <1>1 DEF ReadSoFar
    <3>2. Bucket(l) \in 0..MaxTime
      BY <1>1, <3>1, CountedInOwnHour
    <3> QED BY <3>1, <3>2, WindowEnds, ClockAssumption
  <2>3. CASE WindowStart <= Bucket(l)
    BY <2>1, <2>2, <2>3 DEF Counts, InWindow
  <2>4. CASE Bucket(l) < WindowStart
    BY <2>1, <2>2, <2>4 DEF Counts, InWindow
  <2> QED BY <2>2, <2>3, <2>4
<1> QED BY <1>1, SummaryInvariance, PTL

(***************************************************************************)
(* The medians of an answer leave out no row that its total counts.        *)
(***************************************************************************)
THEOREM Percentiles_MatchTotals == SummarySpec => []PercentilesMatchTotals
<1>1. ReadSoFar => PercentilesMatchTotals
  BY DEF ReadSoFar, PercentilesMatchTotals, Counts, InWindow, InTransaction
<1> QED BY <1>1, SummaryInvariance, PTL

(***************************************************************************)
(* What a request has counted stays in the table until it has answered.    *)
(***************************************************************************)
THEOREM Summary_OfOneTable == SummarySpec => []SummaryOfOneTable
<1>1. ReadSoFar => SummaryOfOneTable
  BY DEF ReadSoFar, SummaryTypeOK, ReaderType, SummaryOfOneTable, Counts, InTransaction
<1> QED BY <1>1, SummaryInvariance, PTL
===============================================================================
