------------------------- MODULE MetricsRollup_proofs --------------------------
(***************************************************************************)
(* Proofs about MetricsRollup, for every set of aggregators, every length  *)
(* of the hour and the day, and every bound.                               *)
(***************************************************************************)
EXTENDS MetricsRollup, FiniteSetTheorems, TLAPS

(***************************************************************************)
(* A process at rest holds nothing.                                        *)
(***************************************************************************)
LEMMA RestingHolds ==
  ASSUME NEW pc \in PCs \ {"upsert", "waiting"}, NEW t \in 0..MaxTime
  PROVE  LET w == Resting(pc, t)
         IN  w \in WorkerType /\ Holding(w) /\ w.done = {}
<1>1. /\ NoGroups \in [Row -> SUBSET Log]
      /\ "hourly" \in Periods
      /\ NoRow \in Row \cup {NoRow}
      /\ {} \in SUBSET Row
  BY DEF NoGroups, Periods
<1>2. Resting(pc, t) \in WorkerType
  BY <1>1, Zenon DEF WorkerType, Resting
<1>3. Holding(Resting(pc, t)) /\ Resting(pc, t).done = {}
  BY DEF Holding, NoGroups, Resting
<1> QED BY <1>2, <1>3

(***************************************************************************)
(* Nothing is held, counted or stored at the start.                        *)
(***************************************************************************)
LEMMA InitIInv == Init => IInv
<1> SUFFICES ASSUME Init PROVE IInv
  OBVIOUS
<1>1. \A d \in Aggregators :
         worker[d] \in WorkerType /\ Holding(worker[d]) /\ worker[d].done = {}
  <2> SUFFICES ASSUME NEW d \in Aggregators
               PROVE  worker[d] \in WorkerType /\ Holding(worker[d]) /\ worker[d].done = {}
    OBVIOUS
  <2>1. "idle" \in PCs \ {"upsert", "waiting"} /\ "down" \in PCs \ {"upsert", "waiting"}
    BY DEF PCs
  <2>2. worker[d] = Resting("idle", 0) \/ worker[d] = Resting("down", 0)
    BY DEF Init
  <2>3. 0 \in 0..MaxTime
    BY ClockAssumption
  <2> QED BY <2>1, <2>2, <2>3, RestingHolds
<1>2. worker \in [Aggregators -> WorkerType]
  BY <1>1 DEF Init
<1>3. TypeOK
  BY <1>2, ClockAssumption, RollupBoundsAssumption DEF TypeOK, Init, NoGroups
<1>4. RowsCountStoredLogs
  BY DEF RowsCountStoredLogs, Init, NoGroups
<1>5. RowsExclusive
  BY <1>1 DEF RowsExclusive
<1> QED BY <1>1, <1>3, <1>4, <1>5 DEF IInv

-------------------------------------------------------------------------------
(***************************************************************************)
(* A step of process d keeps the invariant when its new record is sound    *)
(* and it has upserted only rows that no other transaction has.            *)
(***************************************************************************)
LEMMA WorkerStep ==
  ASSUME IInv, NEW d \in Aggregators, NEW w \in WorkerType, Holding(w),
         worker' = [worker EXCEPT ![d] = w],
         \A e \in Aggregators : e # d => w.done \cap worker[e].done = {},
         faults' \in 0..MaxFaults,
         rollup' \in [Row -> SUBSET Log],
         \A r \in Row : rollup'[r] \subseteq {l \in logs : InBucket(l, r)},
         UNCHANGED <<now, logs, inserting, created>>
  PROVE  IInv'
<1>1. \A e \in Aggregators : worker'[e] = IF e = d THEN w ELSE worker[e]
  BY DEF IInv, TypeOK
<1>2. TypeOK'
  BY DEF IInv, TypeOK
<1>3. (\A e \in Aggregators : Holding(worker[e]))'
  BY <1>1 DEF IInv, Holding
<1>4. RowsCountStoredLogs'
  BY DEF RowsCountStoredLogs
<1>5. RowsExclusive'
  BY <1>1 DEF IInv, RowsExclusive
<1> QED BY <1>2, <1>3, <1>4, <1>5 DEF IInv

(***************************************************************************)
(* The same of a step that leaves metrics alone.                           *)
(***************************************************************************)
LEMMA WorkerMove ==
  ASSUME IInv, NEW d \in Aggregators, NEW w \in WorkerType, Holding(w),
         worker' = [worker EXCEPT ![d] = w],
         \A e \in Aggregators : e # d => w.done \cap worker[e].done = {},
         faults' \in 0..MaxFaults,
         UNCHANGED <<now, logs, inserting, created, rollup>>
  PROVE  IInv'
BY WorkerStep DEF IInv, TypeOK, RowsCountStoredLogs

(***************************************************************************)
(* A step that only adds logs keeps the invariant.                         *)
(***************************************************************************)
LEMMA LogsGrow ==
  ASSUME IInv, logs \subseteq logs', TypeOK', UNCHANGED <<rollup, worker>>
  PROVE  IInv'
<1>1. \A e \in Aggregators : Holding(worker[e])'
  BY DEF IInv, Holding
<1>2. RowsCountStoredLogs'
  BY DEF IInv, RowsCountStoredLogs
<1>3. RowsExclusive'
  BY DEF IInv, RowsExclusive
<1> QED BY <1>1, <1>2, <1>3 DEF IInv

(***************************************************************************)
(* After a window nothing is held any more.                                *)
(***************************************************************************)
LEMMA NextWindowHolds ==
  ASSUME NEW d, NEW w \in WorkerType, w.todo = {}
  PROVE  NextWindow(d, w) \in WorkerType /\ Holding(NextWindow(d, w))
         /\ NextWindow(d, w).done = {}
<1>1. CASE w.period = "hourly"
  <2> DEFINE v == [w EXCEPT !.pc = "select", !.period = "daily", !.found = NoGroups,
                            !.done = {}]
  <2>1. "select" \in PCs /\ "daily" \in Periods /\ NoGroups \in [Row -> SUBSET Log]
        /\ {} \in SUBSET Row
    BY DEF PCs, Periods, NoGroups
  <2>2. v \in WorkerType
    BY <2>1, Zenon DEF WorkerType
  <2>3. v.pc = "select" /\ v.todo = {} /\ v.done = {} /\ v.found = NoGroups
    BY DEF WorkerType
  <2>4. Holding(v)
    BY <2>3 DEF Holding, NoGroups
  <2>5. NextWindow(d, w) = v
    BY <1>1 DEF NextWindow
  <2> QED BY <2>2, <2>3, <2>4, <2>5
<1>2. CASE w.period # "hourly"
  <2> DEFINE pc == IF d \in Daemons /\ ~w.stop THEN "idle" ELSE "down"
  <2>1. pc \in PCs \ {"upsert", "waiting"} /\ w.began \in 0..MaxTime
    BY DEF PCs, WorkerType
  <2>2. NextWindow(d, w) = Resting(pc, w.began)
    BY <1>2 DEF NextWindow
  <2> QED BY <2>1, <2>2, RestingHolds
<1> QED BY <1>1, <1>2

(***************************************************************************)
(* The groups of a query are logs that exist, each in its own bucket.      *)
(***************************************************************************)
LEMMA GroupsExist ==
  ASSUME TypeOK, NEW p, NEW window
  PROVE  /\ Groups(p, window) \in [Row -> SUBSET Log]
         /\ \A r \in Row : Groups(p, window)[r] \subseteq {l \in logs : InBucket(l, r)}
BY DEF TypeOK, Groups

-------------------------------------------------------------------------------
(***************************************************************************)
(* The steps of a tick keep the invariant: in particular the upsert waits  *)
(* until no other transaction has its row, and a commit stores groups of   *)
(* logs that exist.                                                        *)
(***************************************************************************)
LEMMA TickSteps ==
  ASSUME IInv, NEW d \in Aggregators,
         BeginTick(d) \/ Select(d) \/ SendUpsert(d) \/ Upsert(d) \/ CommitWindow(d)
  PROVE  IInv'
<1> DEFINE w == worker[d]
<1>0. /\ w \in WorkerType /\ Holding(w) /\ TypeOK
      /\ \A e \in Aggregators : e # d => w.done \cap worker[e].done = {}
  BY DEF IInv, TypeOK, RowsExclusive
<1>a. faults' = faults => faults' \in 0..MaxFaults
  BY <1>0 DEF TypeOK
<1>1. CASE BeginTick(d)
  <2>1. "select" \in PCs \ {"upsert", "waiting"} /\ now \in 0..MaxTime
    BY <1>0 DEF PCs, TypeOK
  <2> DEFINE v == Resting("select", now)
  <2>2. v \in WorkerType /\ Holding(v) /\ v.done = {}
    BY <2>1, RestingHolds
  <2>3. worker' = [worker EXCEPT ![d] = v] /\ faults' = faults
        /\ UNCHANGED <<now, logs, inserting, created, rollup>>
    BY <1>1 DEF BeginTick
  <2> HIDE DEF v
  <2> QED BY <2>2, <2>3, <1>a, WorkerMove
<1>2. CASE Select(d)
  <2> DEFINE found == Groups(w.period, Window(d, w.period, w.began))
             todo == {r \in Row : found[r] # {}}
             open == [w EXCEPT !.txn = TRUE]
             busy == [open EXCEPT !.pc = "upsert", !.found = found, !.todo = todo]
             v == IF todo = {} THEN NextWindow(d, open) ELSE busy
  <2>1. w.pc = "select" /\ w.todo = {} /\ w.done = {}
    BY <1>0, <1>2 DEF Select, At, Holding
  <2>2. open \in WorkerType /\ open.todo = {}
    BY <1>0, <2>1, Zenon DEF WorkerType
  <2>4. found \in [Row -> SUBSET Log]
        /\ \A r \in Row : found[r] \subseteq {l \in logs : InBucket(l, r)}
    BY <1>0, GroupsExist
  <2>5. busy \in WorkerType
    <3>1. "upsert" \in PCs /\ todo \in SUBSET Row
      BY DEF PCs
    <3> HIDE DEF open, found, todo
    <3> QED BY <2>2, <2>4, <3>1, Zenon DEF WorkerType
  <2>6. Holding(busy) /\ busy.done = {}
    <3>1. busy.pc = "upsert" /\ busy.found = found /\ busy.txn /\ busy.done = {}
      <4> HIDE DEF found, todo
      <4> QED BY <1>0, <2>1 DEF WorkerType
    <3> HIDE DEF busy, found
    <3> QED BY <3>1, <2>4 DEF Holding
  <2>7. v \in WorkerType /\ Holding(v) /\ v.done = {}
    <3> HIDE DEF busy, open, todo
    <3> QED BY <2>2, <2>5, <2>6, NextWindowHolds
  <2>8. worker' = [worker EXCEPT ![d] = v] /\ faults' = faults
        /\ UNCHANGED <<now, logs, inserting, created, rollup>>
    BY <1>2 DEF Select
  <2> HIDE DEF v
  <2> QED BY <2>7, <2>8, <1>a, WorkerMove
<1>3. CASE SendUpsert(d)
  <2>1. PICK r \in w.todo : worker' = [worker EXCEPT ![d].pc = "waiting", ![d].row = r]
    BY <1>3 DEF SendUpsert
  <2> DEFINE v == [w EXCEPT !.pc = "waiting", !.row = r]
  <2>2. worker' = [worker EXCEPT ![d] = v]
    BY <2>1, <1>0 DEF TypeOK
  <2>3. "waiting" \in PCs /\ r \in Row \cup {NoRow}
    BY <1>0 DEF PCs, WorkerType
  <2>4. v \in WorkerType
    BY <1>0, <2>3, Zenon DEF WorkerType
  <2>5. w.pc = "upsert"
    BY <1>3 DEF SendUpsert, At
  <2>6. Holding(v) /\ v.done = w.done
    BY <1>0, <2>5 DEF Holding, WorkerType
  <2>7. faults' = faults /\ UNCHANGED <<now, logs, inserting, created, rollup>>
    BY <1>3 DEF SendUpsert
  <2> HIDE DEF v
  <2> QED BY <2>2, <2>4, <2>6, <2>7, <1>0, <1>a, WorkerMove
<1>4. CASE Upsert(d)
  <2> DEFINE v == [w EXCEPT !.pc = "upsert", !.todo = @ \ {w.row},
                            !.done = @ \cup {w.row}, !.row = NoRow]
  <2>1. w.pc = "waiting" /\ w.row \in w.todo /\ w.txn
    BY <1>0, <1>4 DEF Upsert, At, Holding
  <2>2. worker' = [worker EXCEPT ![d] = v]
    BY <1>0, <1>4 DEF Upsert, TypeOK
  <2>3. "upsert" \in PCs /\ NoRow \in Row \cup {NoRow}
        /\ w.todo \ {w.row} \in SUBSET Row /\ w.done \cup {w.row} \in SUBSET Row
    BY <1>0, <2>1 DEF PCs, WorkerType
  <2>4. v \in WorkerType
    BY <1>0, <2>3, Zenon DEF WorkerType
  <2>5. Holding(v) /\ v.done = w.done \cup {w.row}
    BY <1>0, <2>1 DEF Holding, WorkerType
  <2>6. \A e \in Aggregators : e # d => v.done \cap worker[e].done = {}
    <3>1. \A e \in Aggregators : e # d => w.row \notin worker[e].done
      BY <1>4, <2>1 DEF Upsert, Waits, LockedBy, At
    <3> QED BY <1>0, <2>5, <3>1
  <2>7. faults' = faults /\ UNCHANGED <<now, logs, inserting, created, rollup>>
    BY <1>4 DEF Upsert
  <2> HIDE DEF v
  <2> QED BY <2>2, <2>4, <2>5, <2>6, <2>7, <1>a, WorkerMove
<1>5. CASE CommitWindow(d)
  <2> DEFINE u == [w EXCEPT !.txn = FALSE]
             v == NextWindow(d, u)
  <2>1. u \in WorkerType /\ u.todo = {}
    <3>1. w.todo = {}
      BY <1>5 DEF CommitWindow
    <3> QED BY <1>0, <3>1, Zenon DEF WorkerType
  <2>2. v \in WorkerType /\ Holding(v) /\ v.done = {}
    <3> HIDE DEF u
    <3> QED BY <2>1, NextWindowHolds
  <2>3. worker' = [worker EXCEPT ![d] = v] /\ faults' = faults /\ rollup' = Committed(d)
        /\ UNCHANGED <<now, logs, inserting, created>>
    BY <1>5 DEF CommitWindow
  <2>4. rollup' \in [Row -> SUBSET Log]
        /\ \A r \in Row : rollup'[r] \subseteq {l \in logs : InBucket(l, r)}
    BY <1>0, <2>3 DEF IInv, TypeOK, RowsCountStoredLogs, Committed, Holding, WorkerType
  <2> HIDE DEF v
  <2> QED BY <2>2, <2>3, <2>4, <1>a, WorkerStep
<1> QED BY <1>1, <1>2, <1>3, <1>4, <1>5

(***************************************************************************)
(* A tick that an exception ended holds nothing.                           *)
(***************************************************************************)
LEMMA AbandonHolds ==
  ASSUME TypeOK, NEW d \in Aggregators
  PROVE  Abandon(d) \in WorkerType /\ Holding(Abandon(d)) /\ Abandon(d).done = {}
<1> DEFINE pc == IF d \in Daemons /\ ~worker[d].stop THEN "idle" ELSE "down"
<1>1. pc \in PCs \ {"upsert", "waiting"} /\ worker[d].began \in 0..MaxTime
  BY DEF PCs, TypeOK, WorkerType
<1> QED BY <1>1, RestingHolds DEF Abandon

(***************************************************************************)
(* Failures, crashes, signals and restarts keep the invariant; a COMMIT    *)
(* that fails may have stored its rows.                                    *)
(***************************************************************************)
LEMMA FaultSteps ==
  ASSUME IInv, NEW d \in Aggregators, Disturb(d) \/ DeadlockDetected(d) \/ RunSeed(d)
  PROVE  IInv'
<1> DEFINE w == worker[d]
<1>0. /\ w \in WorkerType /\ Holding(w) /\ TypeOK
      /\ \A e \in Aggregators : e # d => w.done \cap worker[e].done = {}
  BY DEF IInv, TypeOK, RowsExclusive
<1>a. faults' = faults \/ Fault => faults' \in 0..MaxFaults
  BY <1>0, RollupBoundsAssumption DEF TypeOK, Fault
<1>b. /\ 0 \in 0..MaxTime
      /\ {"idle", "down", "seeding"} \subseteq PCs \ {"upsert", "waiting"}
  BY ClockAssumption DEF PCs
<1>1. CASE StatementFails(d)
  <2> DEFINE v == Abandon(d)
  <2>1. v \in WorkerType /\ Holding(v) /\ v.done = {}
    BY <1>0, AbandonHolds
  <2>2. worker' = [worker EXCEPT ![d] = v] /\ Fault
        /\ (rollup' = rollup \/ rollup' = Committed(d))
        /\ UNCHANGED <<now, logs, inserting, created>>
    BY <1>1 DEF StatementFails
  <2>3. rollup' \in [Row -> SUBSET Log]
        /\ \A r \in Row : rollup'[r] \subseteq {l \in logs : InBucket(l, r)}
    BY <1>0, <2>2 DEF IInv, TypeOK, RowsCountStoredLogs, Committed, Holding, WorkerType
  <2> HIDE DEF v
  <2> QED BY <2>1, <2>2, <2>3, <1>a, WorkerStep
<1>2. CASE DeadlockDetected(d)
  <2> DEFINE v == Abandon(d)
  <2>1. v \in WorkerType /\ Holding(v) /\ v.done = {}
    BY <1>0, AbandonHolds
  <2>2. worker' = [worker EXCEPT ![d] = v] /\ faults' = faults
        /\ UNCHANGED <<now, logs, inserting, created, rollup>>
    BY <1>2 DEF DeadlockDetected
  <2> HIDE DEF v
  <2> QED BY <2>1, <2>2, <1>a, WorkerMove
<1>3. CASE \E pc \in {"idle", "down", "seeding"} :
              /\ worker' = [worker EXCEPT ![d] = Resting(pc, 0)]
              /\ faults' = faults \/ Fault
              /\ UNCHANGED <<now, logs, inserting, created, rollup>>
  <2> PICK pc \in {"idle", "down", "seeding"} :
              /\ worker' = [worker EXCEPT ![d] = Resting(pc, 0)]
              /\ faults' = faults \/ Fault
              /\ UNCHANGED <<now, logs, inserting, created, rollup>>
    BY <1>3
  <2> DEFINE v == Resting(pc, 0)
  <2>1. v \in WorkerType /\ Holding(v) /\ v.done = {}
    BY <1>b, RestingHolds
  <2> HIDE DEF v
  <2> QED BY <2>1, <1>a, WorkerMove DEF v
<1>4. CASE /\ worker' = [worker EXCEPT ![d].stop = TRUE]
           /\ UNCHANGED <<now, logs, inserting, created, rollup, faults>>
  <2> DEFINE v == [w EXCEPT !.stop = TRUE]
  <2>1. v \in WorkerType
    BY <1>0, Zenon DEF WorkerType
  <2>2. Holding(v) /\ v.done = w.done
    BY <1>0 DEF Holding, WorkerType
  <2>3. worker' = [worker EXCEPT ![d] = v]
    BY <1>0, <1>4 DEF TypeOK
  <2> HIDE DEF v
  <2> QED BY <2>1, <2>2, <2>3, <1>0, <1>4, <1>a, WorkerMove
<1>5. CASE Crash(d) \/ Start(d) \/ RunSeed(d)
  BY <1>3, <1>5 DEF Crash, Start, RunSeed
<1>6. CASE Stop(d)
  BY <1>3, <1>4, <1>6 DEF Stop
<1> QED BY <1>1, <1>2, <1>5, <1>6 DEF Disturb

(***************************************************************************)
(* The clock and the INSERTs keep the invariant.                           *)
(***************************************************************************)
LEMMA LogSteps ==
  ASSUME IInv, Advance \/ Insert
  PROVE  IInv'
<1> USE ClockAssumption, RollupBoundsAssumption
<1>1. CASE Advance
  BY <1>1, LogsGrow DEF Advance, IInv, TypeOK
<1>2. CASE BeginInsert
  <2>1. PICK k \in Keys :
           inserting' = inserting \cup {[id |-> created + 1, key |-> k, at |-> now]}
    BY <1>2 DEF BeginInsert
  <2>2. created + 1 \in 1..MaxLogs /\ now \in 0..MaxTime
    BY <1>2 DEF BeginInsert, IInv, TypeOK
  <2>3. [id |-> created + 1, key |-> k, at |-> now] \in Log
    BY <2>2, Zenon DEF Log
  <2>4. TypeOK'
    BY <1>2, <2>1, <2>2, <2>3 DEF BeginInsert, IInv, TypeOK
  <2> QED BY <1>2, <2>4, LogsGrow DEF BeginInsert
<1>3. CASE \E l \in inserting : CommitInsert(l) \/ InsertFails(l)
  <2>1. PICK l \in inserting : CommitInsert(l) \/ InsertFails(l)
    BY <1>3
  <2>2. TypeOK'
    BY <2>1 DEF CommitInsert, InsertFails, Fault, IInv, TypeOK
  <2> QED BY <2>1, <2>2, LogsGrow DEF CommitInsert, InsertFails
<1> QED BY <1>1, <1>2, <1>3 DEF Insert

(***************************************************************************)
(* TRUNCATE waits until no transaction is open, so nobody holds a log that *)
(* it deletes.                                                             *)
(***************************************************************************)
LEMMA SeedSteps ==
  ASSUME IInv, NEW d \in Aggregators, Reset(d) \/ SeedLogs(d)
  PROVE  IInv'
<1>1. CASE Reset(d)
  <2>1. \A e \in Aggregators : worker[e].found = NoGroups
    BY <1>1 DEF Reset, IInv, Holding
  <2>2. \A e \in Aggregators : Holding(worker[e])'
    BY <1>1, <2>1 DEF Reset, IInv, Holding, NoGroups
  <2>3. TypeOK'
    BY <1>1 DEF Reset, IInv, TypeOK, NoGroups
  <2>4. RowsCountStoredLogs'
    BY <1>1 DEF Reset, RowsCountStoredLogs, NoGroups
  <2>5. RowsExclusive'
    BY <1>1 DEF Reset, IInv, RowsExclusive
  <2> QED BY <2>2, <2>3, <2>4, <2>5 DEF IInv
<1>2. CASE SeedLogs(d)
  <2> DEFINE w == worker[d]
             v == [w EXCEPT !.pc = "seeded"]
  <2>0. w \in WorkerType /\ Holding(w) /\ w.pc = "seeding" /\ "seeded" \in PCs
    BY <1>2 DEF SeedLogs, IInv, TypeOK, At, PCs
  <2>1. PICK l \in Log : l.id = created + 1 /\ logs' = logs \cup {l}
    BY <1>2 DEF SeedLogs
  <2>2. worker' = [worker EXCEPT ![d] = v]
    BY <1>2 DEF SeedLogs
  <2>3. v \in WorkerType
    BY <2>0, Zenon DEF WorkerType
  <2>4. v.pc = "seeded" /\ v.todo = {} /\ v.done = {} /\ v.found = NoGroups
    BY <2>0 DEF Holding, WorkerType
  <2> HIDE DEF v
  <2>5. \A e \in Aggregators : worker'[e] = IF e = d THEN v ELSE worker[e]
    BY <2>2 DEF IInv, TypeOK
  <2>6. TypeOK'
    <3>1. created + 1 \in 0..MaxLogs
      BY <2>1 DEF Log, IInv, TypeOK
    <3> QED BY <1>2, <2>1, <2>2, <2>3, <3>1 DEF SeedLogs, IInv, TypeOK
  <2>7. \A e \in Aggregators : Holding(worker[e])'
    BY <2>1, <2>4, <2>5 DEF IInv, Holding, NoGroups
  <2>8. RowsCountStoredLogs'
    BY <1>2, <2>1 DEF SeedLogs, IInv, RowsCountStoredLogs
  <2>9. RowsExclusive'
    BY <2>4, <2>5 DEF IInv, RowsExclusive
  <2> QED BY <2>6, <2>7, <2>8, <2>9 DEF IInv
<1> QED BY <1>1, <1>2

-------------------------------------------------------------------------------
(***************************************************************************)
(* The invariant holds throughout every behaviour, whatever seed, the      *)
(* workers, the faults and the INSERTs do and however the clock runs.      *)
(***************************************************************************)
THEOREM RollupInvariance == Spec => []IInv
<1>1. ASSUME IInv, [Next]_vars PROVE IInv'
  <2>1. CASE Next
    BY <1>1, <2>1, TickSteps, FaultSteps, LogSteps, SeedSteps
       DEF Next, Proceed, Seed, Disturb
  <2>2. CASE UNCHANGED vars
    BY <1>1, <2>2
       DEF vars, IInv, TypeOK, Holding, RowsCountStoredLogs, RowsExclusive
  <2> QED BY <1>1, <2>1, <2>2
<1> QED BY <1>1, InitIInv, PTL DEF Spec

(***************************************************************************)
(* No metrics row ever counts a log that does not exist, or one of another *)
(* bucket, although --reset may come at any time.                          *)
(***************************************************************************)
THEOREM Rows_CountStoredLogs == Spec => []RowsCountStoredLogs
<1>1. IInv => RowsCountStoredLogs
  BY DEF IInv
<1> QED BY <1>1, RollupInvariance, PTL

-------------------------------------------------------------------------------
(* Arithmetic of date_trunc. *)

(***************************************************************************)
(* Division with remainder.                                                *)
(***************************************************************************)
LEMMA DivMod ==
  ASSUME NEW L \in Nat \ {0}, NEW t \in Int
  PROVE  /\ t \div L \in Int
         /\ t % L \in 0..(L - 1)
         /\ t = L * (t \div L) + (t % L)
OBVIOUS

(***************************************************************************)
(* Multiplying by a length keeps the order.                                *)
(***************************************************************************)
LEMMA ScaleUp ==
  ASSUME NEW L \in Nat, NEW x \in Int, NEW y \in Int, x <= y
  PROVE  L * x <= L * y
<1>1. y - x \in Nat
  OBVIOUS
<1>2. L * (y - x) >= 0
  BY <1>1
<1>3. L * (y - x) = L * y - L * x
  OBVIOUS
<1> QED BY <1>2, <1>3

(***************************************************************************)
(* A multiple of the length less than the length above another is not      *)
(* above it.                                                               *)
(***************************************************************************)
LEMMA ScaleDown ==
  ASSUME NEW L \in Nat \ {0}, NEW x \in Int, NEW y \in Int, L * x < L * y + L
  PROVE  x <= y
<1> SUFFICES ASSUME y + 1 <= x PROVE FALSE
  OBVIOUS
<1>1. L * (y + 1) <= L * x
  BY ScaleUp
<1>2. L * (y + 1) = L * y + L
  OBVIOUS
<1> QED BY <1>1, <1>2

(***************************************************************************)
(* The truncated time is the multiple of the length below t.               *)
(***************************************************************************)
LEMMA TruncMultiple ==
  ASSUME NEW p \in Periods, NEW t \in Int
  PROVE  LET L == Length(p)
         IN  /\ L \in Nat \ {0}
             /\ \E k \in Int : Trunc(p, t) = L * k
             /\ Trunc(p, t) \in Int
             /\ Trunc(p, t) <= t
             /\ t < Trunc(p, t) + L
<1> DEFINE L == Length(p)
<1>1. L \in Nat \ {0}
  BY ClockAssumption DEF Length
<1> HIDE DEF L
<1>2. t \div L \in Int /\ t % L \in 0..(L - 1) /\ t = L * (t \div L) + (t % L)
  BY <1>1, DivMod
<1>3. Trunc(p, t) = t - (t % L)
  BY DEF Trunc, L
<1>4. Trunc(p, t) = L * (t \div L)
  BY <1>1, <1>2, <1>3
<1>5. L * (t \div L) \in Int
  BY <1>1, <1>2
<1>6. /\ \E k \in Int : Trunc(p, t) = L * k
      /\ Trunc(p, t) \in Int
      /\ Trunc(p, t) <= t
      /\ t < Trunc(p, t) + L
  <2>1. \E k \in Int : Trunc(p, t) = L * k
    BY <1>2, <1>4
  <2>2. Trunc(p, t) \in Int
    BY <1>4, <1>5
  <2>3. Trunc(p, t) <= t /\ t < Trunc(p, t) + L
    BY <1>1, <1>2, <1>3
  <2> QED BY <2>1, <2>2, <2>3
<1> QED BY <1>1, <1>6 DEF L

(***************************************************************************)
(* A multiple of the length that is at most t and less than the length     *)
(* below it is the truncated t.                                            *)
(***************************************************************************)
LEMMA TruncUnique ==
  ASSUME NEW p \in Periods, NEW t \in Int, NEW k \in Int,
         Length(p) * k <= t, t < Length(p) * k + Length(p)
  PROVE  Trunc(p, t) = Length(p) * k
<1> DEFINE L == Length(p)
<1>1. PICK m \in Int : Trunc(p, t) = L * m
  BY TruncMultiple
<1>2. L \in Nat \ {0} /\ L * m <= t /\ t < L * m + L
  BY <1>1, TruncMultiple
<1> HIDE DEF L
<1>3. L * m \in Int /\ L * k \in Int /\ L * k <= t /\ t < L * k + L
  BY <1>2 DEF L
<1>4. m <= k
  BY <1>2, <1>3, ScaleDown
<1>5. k <= m
  BY <1>2, <1>3, ScaleDown
<1> QED BY <1>1, <1>4, <1>5 DEF L

(***************************************************************************)
(* The worker's windows end where buckets do: with one log of a bucket     *)
(* they hold every log of it.                                              *)
(***************************************************************************)
LEMMA WindowAligned ==
  ASSUME NEW d \in Daemons, NEW p \in Periods, NEW t \in 0..MaxTime,
         NEW a \in 0..MaxTime, NEW b \in 0..MaxTime,
         Trunc(p, a) = Trunc(p, b), a \in Window(d, p, t)
  PROVE  b \in Window(d, p, t)
<1> DEFINE L == Length(p)
           lo == IF p = "hourly" THEN Trunc(p, t) - HourLength ELSE Trunc(p, t)
           hi == Trunc(p, t) + L
<1>0. a \in Int /\ b \in Int /\ t \in Int
  BY ClockAssumption
<1>1. Window(d, p, t) = {u \in 0..MaxTime : lo <= u /\ u < hi}
  BY DEF Window
<1>2. L \in Nat \ {0}
  BY TruncMultiple, <1>0
<1>3. PICK c \in Int : Trunc(p, t) = L * c
  BY TruncMultiple, <1>0
<1>4. PICK q \in Int : Trunc(p, a) = L * q
  BY TruncMultiple, <1>0
<1>5. /\ L * q <= a /\ a < L * q + L
      /\ L * q <= b /\ b < L * q + L
  BY <1>0, <1>4, TruncMultiple
<1>6. PICK m \in Int : lo = L * m
  <2>1. CASE p = "hourly"
    <3>1. lo = L * c - L
      BY <2>1, <1>3 DEF Length
    <3>2. L * (c - 1) = L * c - L
      BY <1>2
    <3> QED BY <3>1, <3>2
  <2>2. CASE p # "hourly"
    BY <2>2, <1>3
  <2> QED BY <2>1, <2>2
<1>7. hi = L * c + L
  BY <1>3
<1> HIDE DEF L, lo, hi
<1>8. L * q \in Int /\ L * c \in Int /\ L * m \in Int
  BY <1>2
<1>9. lo <= a /\ a < hi
  BY <1>1
<1>10. L * m <= L * q
  <2>1. L * m < L * q + L
    BY <1>0, <1>2, <1>5, <1>6, <1>8, <1>9
  <2>2. m <= q
    BY <1>2, <2>1, ScaleDown
  <2> QED BY <1>2, <2>2, ScaleUp
<1>11. L * q <= L * c
  <2>1. L * q < L * c + L
    BY <1>0, <1>5, <1>7, <1>8, <1>9
  <2>2. q <= c
    BY <1>2, <2>1, ScaleDown
  <2> QED BY <1>2, <2>2, ScaleUp
<1>12. lo <= b /\ b < hi
  BY <1>0, <1>2, <1>5, <1>6, <1>7, <1>8, <1>10, <1>11
<1> QED BY <1>1, <1>12

(***************************************************************************)
(* The day of a time is the day of its hour.                               *)
(***************************************************************************)
LEMMA DayOfHour ==
  ASSUME NEW t \in Int
  PROVE  Trunc("daily", Trunc("hourly", t)) = Trunc("daily", t)
<1> DEFINE H == HourLength
           D == DayLength
           s == Trunc("hourly", t)
<1>0. "hourly" \in Periods /\ "daily" \in Periods /\ Length("hourly") = H
      /\ Length("daily") = D
  BY DEF Periods, Length
<1>1. PICK q \in Int : s = H * q
  BY <1>0, TruncMultiple
<1>2. s \in Int /\ s <= t /\ t < s + H
  BY <1>0, TruncMultiple
<1>3. PICK k \in Int : Trunc("daily", t) = D * k
  BY <1>0, TruncMultiple
<1>4. D * k <= t /\ t < D * k + D
  BY <1>0, <1>3, TruncMultiple
<1>5. H \in Nat \ {0} /\ D \in Nat \ {0} /\ D \div H \in Int /\ D = H * (D \div H)
  BY ClockAssumption, DivMod
<1> DEFINE j == D \div H
<1> HIDE DEF H, D, s, j
<1>6. D * k = H * (j * k)
  <2>1. D = H * j /\ j \in Int /\ H \in Int
    BY <1>5 DEF j
  <2> QED BY <2>1
<1>7. j * k \in Int
  BY <1>5 DEF j
<1>8. D * k <= s
  <2>1. H * (j * k) \in Int /\ H * q \in Int
    BY <1>5, <1>7
  <2>2. H * (j * k) < H * q + H
    BY <1>1, <1>2, <1>4, <1>5, <1>6, <2>1
  <2>3. j * k <= q
    BY <1>5, <1>7, <2>2, ScaleDown
  <2> QED BY <1>1, <1>5, <1>6, <1>7, <2>3, ScaleUp
<1>9. s < D * k + D
  <2>1. D * k \in Int
    BY <1>5
  <2> QED BY <1>2, <1>4, <1>5, <2>1
<1>10. Trunc("daily", s) = D * k
  BY <1>0, <1>2, <1>8, <1>9, TruncUnique
<1> QED BY <1>3, <1>10 DEF s

(***************************************************************************)
(* The row that counts a log is a row, and its bucket holds the log.       *)
(***************************************************************************)
RowOf(p, l) == [key |-> l.key, period |-> p, start |-> Trunc(p, l.at)]

LEMMA RowOfLog ==
  ASSUME NEW p \in Periods, NEW l \in Log
  PROVE  /\ RowOf(p, l) \in Row
         /\ RowOf(p, l).period = p
         /\ InBucket(l, RowOf(p, l))
<1> DEFINE L == Length(p)
           s == Trunc(p, l.at)
<1>1. l.key \in Keys /\ l.at \in 0..MaxTime
  BY DEF Log
<1>2. PICK k \in Int : s = L * k
  BY <1>1, ClockAssumption, TruncMultiple
<1>3. L \in Nat \ {0} /\ s \in Int /\ s <= l.at /\ l.at < s + L
  BY <1>1, ClockAssumption, TruncMultiple
<1>4. s \in 0..MaxTime
  <2> HIDE DEF L, s
  <2>1. L * 0 = 0 /\ L * k \in Int
    BY <1>3
  <2>2. L * 0 < L * k + L
    BY <1>1, <1>2, <1>3, <2>1, ClockAssumption
  <2>3. L * 0 <= L * k
    BY <1>3, <2>2, ScaleDown, ScaleUp
  <2> QED BY <1>1, <1>2, <1>3, <2>1, <2>3, ClockAssumption
<1>5. Trunc(p, s) = s
  <2>1. L * k <= s /\ s < L * k + L
    BY <1>2, <1>3
  <2> QED BY <1>2, <1>3, <2>1, TruncUnique
<1> HIDE DEF s
<1>6. RowOf(p, l) = [key |-> l.key, period |-> p, start |-> s]
  BY DEF RowOf, s
<1>7. RowOf(p, l) \in Row
  BY <1>1, <1>4, <1>5, <1>6 DEF Row
<1> QED BY <1>6, <1>7 DEF InBucket, s

-------------------------------------------------------------------------------
(***************************************************************************)
(* What a transaction is about to write covers what is there.  One that    *)
(* has found the groups of a day has found the logs of its hourly rows,    *)
(* and writes each group that is not empty.                                *)
(***************************************************************************)
CoversDay(found, t) ==
    \A h \in Row : HourlyOf(h, t) => \A l \in rollup[h] : l \in found[RowOf("daily", l)]

Ahead(w) ==
    /\ \A r \in w.todo \cup w.done : r.period = w.period /\ rollup[r] \subseteq w.found[r]
    /\ w.pc \in {"upsert", "waiting"} =>
          /\ \A r \in Row : w.found[r] # {} => r \in w.todo \cup w.done
          /\ w.period = "daily" => CoversDay(w.found, w.began)

FreshInv == IInv /\ \A d \in Aggregators : Ahead(worker[d])

(***************************************************************************)
(* A group that the worker's query returns holds every log of its bucket.  *)
(***************************************************************************)
LEMMA GroupsComplete ==
  ASSUME TypeOK, NEW d \in Daemons, NEW p \in Periods, NEW t \in 0..MaxTime,
         NEW r \in Row, Groups(p, Window(d, p, t))[r] # {}
  PROVE  r.period = p /\ Groups(p, Window(d, p, t))[r] = {l \in logs : InBucket(l, r)}
<1>1. r.period = p
  BY DEF Groups
<1>2. PICK a \in logs : a.at \in Window(d, p, t) /\ InBucket(a, r)
  BY DEF Groups
<1>3. ASSUME NEW b \in logs, InBucket(b, r)
      PROVE  b.at \in Window(d, p, t)
  <2>1. a.at \in 0..MaxTime /\ b.at \in 0..MaxTime
    BY DEF TypeOK, Log
  <2>2. Trunc(p, a.at) = Trunc(p, b.at)
    BY <1>1, <1>2, <1>3 DEF InBucket
  <2> QED BY <1>2, <2>1, <2>2, WindowAligned
<1> QED BY <1>1, <1>3 DEF Groups

(***************************************************************************)
(* A log that an hourly row of a day counts has its daily row in that day. *)
(***************************************************************************)
LEMMA HourlyLog ==
  ASSUME TypeOK, RowsCountStoredLogs, NEW t \in 0..MaxTime, NEW h \in Row, HourlyOf(h, t),
         NEW l \in rollup[h]
  PROVE  /\ l \in logs /\ l \in Log
         /\ Trunc("daily", l.at) = Trunc("daily", t)
         /\ RowOf("daily", l) \in Row
         /\ DailyRow(h) = RowOf("daily", l)
<1>1. l \in logs /\ InBucket(l, h)
  BY DEF RowsCountStoredLogs
<1>2. l \in Log /\ l.at \in Int
  BY <1>1, ClockAssumption DEF TypeOK, Log
<1>3. Trunc("hourly", l.at) = h.start /\ l.key = h.key
  BY <1>1 DEF InBucket, HourlyOf
<1>4. Trunc("daily", h.start) = Trunc("daily", l.at)
  BY <1>2, <1>3, DayOfHour
<1>5. RowOf("daily", l) \in Row
  BY <1>2, RowOfLog DEF Periods
<1> QED BY <1>1, <1>2, <1>3, <1>4, <1>5 DEF HourlyOf, RowOf, DailyRow

(***************************************************************************)
(* The worker's query of a day finds every log of the day's hourly rows.   *)
(***************************************************************************)
LEMMA GroupsCoverDay ==
  ASSUME TypeOK, RowsCountStoredLogs, NEW d \in Daemons, NEW t \in 0..MaxTime
  PROVE  CoversDay(Groups("daily", Window(d, "daily", t)), t)
<1> SUFFICES ASSUME NEW h \in Row, HourlyOf(h, t), NEW l \in rollup[h]
             PROVE  l \in Groups("daily", Window(d, "daily", t))[RowOf("daily", l)]
  BY DEF CoversDay
<1>1. /\ l \in logs /\ l \in Log /\ Trunc("daily", l.at) = Trunc("daily", t)
      /\ RowOf("daily", l) \in Row
  BY HourlyLog
<1>2. "daily" \in Periods /\ t \in Int /\ l.at \in 0..MaxTime /\ l.at \in Int
  BY <1>1, ClockAssumption DEF Periods, Log
<1>3. RowOf("daily", l).period = "daily" /\ InBucket(l, RowOf("daily", l))
  BY <1>1, <1>2, RowOfLog
<1>4. t \in Window(d, "daily", t)
  BY <1>2, TruncMultiple DEF Window
<1>5. l.at \in Window(d, "daily", t)
  BY <1>1, <1>2, <1>4, WindowAligned
<1> QED BY <1>1, <1>3, <1>5 DEF Groups

(***************************************************************************)
(* The query of a lone worker returns no fewer logs of a row than the row  *)
(* counts.                                                                 *)
(***************************************************************************)
LEMMA SelectAhead ==
  ASSUME IInv, NEW d \in Daemons, d \in Aggregators, Select(d)
  PROVE  Ahead(worker'[d]) /\ rollup' = rollup
<1> DEFINE w == worker[d]
           found == Groups(w.period, Window(d, w.period, w.began))
           todo == {r \in Row : found[r] # {}}
           open == [w EXCEPT !.txn = TRUE]
           busy == [open EXCEPT !.pc = "upsert", !.found = found, !.todo = todo]
<1>1. w \in WorkerType /\ w.todo = {} /\ w.done = {} /\ TypeOK /\ RowsCountStoredLogs
  BY DEF IInv, TypeOK, Select, At, Holding
<1>2. worker'[d] = (IF todo = {} THEN NextWindow(d, open) ELSE busy) /\ rollup' = rollup
  BY <1>1 DEF Select, TypeOK
<1>3. CASE todo = {}
  <2>1. open \in WorkerType /\ open.todo = {}
    BY <1>1, Zenon DEF WorkerType
  <2> HIDE DEF open
  <2>2. /\ NextWindow(d, open).todo = {} /\ NextWindow(d, open).done = {}
        /\ NextWindow(d, open).pc \notin {"upsert", "waiting"}
    BY <2>1 DEF NextWindow, Resting, WorkerType
  <2> HIDE DEF todo
  <2> QED BY <1>2, <1>3, <2>2 DEF Ahead
<1>4. CASE todo # {}
  <2>0. w.period \in Periods /\ w.began \in 0..MaxTime
    BY <1>1 DEF WorkerType
  <2>1. /\ busy.todo = todo /\ busy.done = {} /\ busy.found = found
        /\ busy.period = w.period /\ busy.began = w.began
    <3> HIDE DEF found, todo
    <3> QED BY <1>1 DEF WorkerType
  <2>2. ASSUME NEW r \in todo PROVE r.period = w.period /\ rollup[r] \subseteq found[r]
    <3>1. r.period = w.period /\ found[r] = {l \in logs : InBucket(l, r)}
      BY <1>1, <2>0, GroupsComplete
    <3> QED BY <1>1, <3>1 DEF RowsCountStoredLogs
  <2>3. w.period = "daily" => CoversDay(found, w.began)
    BY <1>1, <2>0, GroupsCoverDay
  <2>4. \A r \in Row : found[r] # {} => r \in todo
    OBVIOUS
  <2> HIDE DEF busy, found, todo
  <2> QED BY <1>2, <1>4, <2>1, <2>2, <2>3, <2>4 DEF Ahead, CoversDay
<1> QED BY <1>2, <1>3, <1>4

(***************************************************************************)
(* Workers whose transactions do not overlap keep ahead of the rows they   *)
(* overwrite.                                                              *)
(***************************************************************************)
LEMMA NextFreshInv ==
  ASSUME Daemons = Aggregators, OneAtATime, FreshInv, IInv', [Next]_vars
  PROVE  FreshInv'
<1>0. /\ IInv
      /\ \A d \in Aggregators : Ahead(worker[d]) /\ Holding(worker[d])
      /\ worker \in [Aggregators -> WorkerType]
  BY DEF FreshInv, IInv, TypeOK
<1>1. ASSUME UNCHANGED <<worker, rollup>> PROVE FreshInv'
  BY <1>0, <1>1 DEF FreshInv, Ahead, CoversDay
<1>2. ASSUME NEW d \in Aggregators, NEW w, worker' = [worker EXCEPT ![d] = w],
             rollup' = rollup, Ahead(worker'[d])
      PROVE  FreshInv'
  <2>1. \A e \in Aggregators : Ahead(worker'[e])
    BY <1>0, <1>2
  <2> QED BY <1>2, <2>1 DEF FreshInv, Ahead, CoversDay
<1>3. ASSUME NEW d \in Aggregators, NEW w, worker' = [worker EXCEPT ![d] = w],
             rollup' = rollup, worker'[d].pc \notin {"upsert", "waiting"}
      PROVE  FreshInv'
  <2>1. worker'[d].todo = {} /\ worker'[d].done = {}
    BY <1>3 DEF IInv, Holding
  <2> QED BY <1>2, <1>3, <2>1 DEF Ahead
<1>4. ASSUME NEW d \in Aggregators, NEW w, worker' = [worker EXCEPT ![d] = w],
             rollup' = rollup,
             worker'[d].todo \cup worker'[d].done = worker[d].todo \cup worker[d].done,
             worker'[d].period = worker[d].period, worker'[d].found = worker[d].found,
             worker'[d].began = worker[d].began,
             worker'[d].pc \in {"upsert", "waiting"} => worker[d].pc \in {"upsert", "waiting"}
      PROVE  FreshInv'
  <2>1. Ahead(worker'[d])
    BY <1>0, <1>4 DEF Ahead, CoversDay
  <2> QED BY <1>2, <1>4, <2>1
<1>5. ASSUME NEW d \in Aggregators, NEW w, worker' = [worker EXCEPT ![d] = w],
             At(d, "upsert"), worker'[d].pc \notin {"upsert", "waiting"}
      PROVE  FreshInv'
  <2>1. \A e \in Aggregators : worker'[e].pc \notin {"upsert", "waiting"}
    BY <1>0, <1>5 DEF OneAtATime, At
  <2>2. \A e \in Aggregators : worker'[e].todo = {} /\ worker'[e].done = {}
    BY <2>1 DEF IInv, Holding
  <2> QED BY <2>1, <2>2 DEF FreshInv, Ahead
<1>6. CASE UNCHANGED vars
  BY <1>1, <1>6 DEF vars
<1>7. CASE Advance \/ Insert
  BY <1>1, <1>7 DEF Advance, Insert, BeginInsert, CommitInsert, InsertFails
<1>8. CASE \E d \in Aggregators : Proceed(d) \/ Disturb(d) \/ Seed(d)
  <2> PICK d \in Aggregators : Proceed(d) \/ Disturb(d) \/ Seed(d)
    BY <1>8
  <2>0. worker[d] \in WorkerType /\ Holding(worker[d])
    BY <1>0
  <2>1. CASE BeginTick(d)
    BY <1>0, <1>3, <2>1 DEF BeginTick, Resting
  <2>2. CASE Select(d)
    <3>1. Ahead(worker'[d]) /\ rollup' = rollup
      BY <1>0, <2>2, SelectAhead
    <3> QED BY <1>2, <2>2, <3>1 DEF Select
  <2>3. CASE SendUpsert(d)
    <3>1. PICK r \in worker[d].todo : worker' = [worker EXCEPT ![d].pc = "waiting", ![d].row = r]
      BY <2>3 DEF SendUpsert
    <3> QED BY <1>0, <1>4, <2>0, <2>3, <3>1 DEF SendUpsert, WorkerType, At
  <2>4. CASE Upsert(d)
    BY <1>0, <1>4, <2>0, <2>4 DEF Upsert, WorkerType, Holding, At
  <2>5. CASE CommitWindow(d)
    <3>1. worker'[d].pc \notin {"upsert", "waiting"}
      BY <1>0, <2>5 DEF CommitWindow, NextWindow, Resting, WorkerType
    <3> QED BY <1>5, <2>5, <3>1 DEF CommitWindow
  <2>6. CASE StatementFails(d) \/ DeadlockDetected(d)
    <3>1. worker' = [worker EXCEPT ![d] = Abandon(d)]
      BY <2>6 DEF StatementFails, DeadlockDetected
    <3>2. worker'[d].pc \notin {"upsert", "waiting"}
      BY <1>0, <3>1 DEF Abandon, Resting
    <3>3. rollup' = rollup \/ At(d, "upsert")
      BY <2>6 DEF StatementFails, DeadlockDetected
    <3> QED BY <1>3, <1>5, <3>1, <3>2, <3>3
  <2>7. CASE Crash(d) \/ Start(d) \/ RunSeed(d)
    BY <1>0, <1>3, <2>7 DEF Crash, Start, RunSeed, Resting
  <2>8. CASE Stop(d)
    <3>1. CASE At(d, "idle")
      BY <1>0, <1>3, <2>8, <3>1 DEF Stop, Resting
    <3>2. CASE ~At(d, "idle")
      BY <1>0, <1>4, <2>8, <3>2 DEF Stop, WorkerType
    <3> QED BY <3>1, <3>2
  <2>9. CASE Reset(d)
    <3>1. worker' = worker
      BY <2>9 DEF Reset
    <3>2. \A e \in Aggregators : /\ worker'[e].todo \cup worker'[e].done = {}
                                 /\ worker'[e].pc \notin {"upsert", "waiting"}
      BY <1>0, <2>9 DEF Reset, Holding
    <3> QED BY <3>2 DEF FreshInv, Ahead
  <2>10. CASE SeedLogs(d)
    BY <1>0, <1>3, <2>10 DEF SeedLogs, WorkerType
  <2> QED BY <2>1, <2>2, <2>3, <2>4, <2>5, <2>6, <2>7, <2>8, <2>9, <2>10
          DEF Proceed, Disturb, Seed
<1> QED BY <1>6, <1>7, <1>8 DEF Next

(***************************************************************************)
(* The strengthened invariant holds throughout, while transactions do not  *)
(* overlap.                                                                *)
(***************************************************************************)
LEMMA FreshInvariance ==
  ASSUME Daemons = Aggregators
  PROVE  Spec /\ []OneAtATime => []FreshInv
<1>1. Init => FreshInv
  <2> SUFFICES ASSUME Init PROVE FreshInv
    OBVIOUS
  <2>1. \A d \in Aggregators : /\ worker[d].todo = {} /\ worker[d].done = {}
                               /\ worker[d].pc \in {"idle", "down"}
    BY DEF Init, Resting
  <2> QED BY <2>1, InitIInv DEF FreshInv, Ahead
<1>2. OneAtATime /\ FreshInv /\ IInv' /\ [Next]_vars => FreshInv'
  BY NextFreshInv
<1> QED BY <1>1, <1>2, RollupInvariance, PTL DEF Spec

(***************************************************************************)
(* The rows a step changes: none, all at once by a reset, or those whose   *)
(* upserts it commits.                                                     *)
(***************************************************************************)
LEMMA RollupSteps ==
  ASSUME [Next]_vars
  PROVE  \/ rollup' = rollup
         \/ logs' = {} /\ rollup' = NoGroups
         \/ \E d \in Aggregators : rollup' = Committed(d)
BY DEF vars, Next, Advance, Insert, BeginInsert, CommitInsert, InsertFails, Proceed, BeginTick,
       Select, SendUpsert, Upsert, CommitWindow, DeadlockDetected, Disturb, StatementFails,
       Crash, Stop, Start, Seed, RunSeed, Reset, SeedLogs

(***************************************************************************)
(* Rows never lose a log to a commit of a worker that keeps ahead.         *)
(***************************************************************************)
LEMMA RowsGrow ==
  ASSUME FreshInv, [Next]_vars, logs \subseteq logs', NEW r \in Row
  PROVE  rollup[r] \subseteq rollup'[r]
<1>1. CASE rollup' = rollup
  BY <1>1
<1>2. CASE logs' = {} /\ rollup' = NoGroups
  BY <1>2 DEF FreshInv, IInv, RowsCountStoredLogs
<1>3. CASE \E d \in Aggregators : rollup' = Committed(d)
  BY <1>3 DEF FreshInv, Ahead, Committed
<1> QED BY <1>1, <1>2, <1>3, RollupSteps

(***************************************************************************)
(* The docstring of metrics_aggregator.py is right of any number of        *)
(* workers whose transactions do not overlap: a window that is aggregated  *)
(* again only ever adds logs to its rows, at every length of the hour and  *)
(* the day and wherever ticks fall.                                        *)
(***************************************************************************)
THEOREM Serial_FreshNumbers ==
  ASSUME Daemons = Aggregators
  PROVE  Spec /\ []OneAtATime => FreshNumbers
<1>1. ASSUME FreshInv, [Next]_vars
      PROVE  [logs \subseteq logs' => \A r \in Row : rollup[r] \subseteq rollup'[r]]_vars
  BY <1>1, RowsGrow
<1> QED BY <1>1, FreshInvariance, PTL DEF Spec, FreshNumbers

(***************************************************************************)
(* A tick that gets to its end leaves daily rows that count what the       *)
(* hourly rows of its day count, while the transactions of workers do not  *)
(* overlap: by its commit, or because the day has no logs.                 *)
(***************************************************************************)
THEOREM Serial_TicksAlignLevels ==
  ASSUME Daemons = Aggregators
  PROVE  Spec /\ []OneAtATime => TickAlignsLevels
<1> DEFINE A == \A d \in Daemons : Completes(d) =>
                   \A h \in Row : HourlyOf(h, worker[d].began)
                                    => rollup'[h] \subseteq rollup'[DailyRow(h)]
<1>1. ASSUME FreshInv, [Next]_vars PROVE [A]_vars
  <2> SUFFICES ASSUME NEW d \in Daemons, Completes(d),
                      NEW h \in Row, HourlyOf(h, worker[d].began), NEW l \in rollup'[h]
               PROVE  l \in rollup'[DailyRow(h)]
    OBVIOUS
  <2> DEFINE w == worker[d]
  <2>1. /\ w \in WorkerType /\ Ahead(w) /\ Holding(w) /\ TypeOK /\ RowsCountStoredLogs
        /\ worker \in [Aggregators -> WorkerType] /\ w.period \in Periods
        /\ w.began \in 0..MaxTime
    BY <1>1 DEF FreshInv, IInv, TypeOK, WorkerType
  <2>2. CASE Select(d)
    <3> DEFINE found == Groups(w.period, Window(d, w.period, w.began))
               todo == {r \in Row : found[r] # {}}
               open == [w EXCEPT !.txn = TRUE]
               busy == [open EXCEPT !.pc = "upsert", !.found = found, !.todo = todo]
    <3>1. worker'[d] = (IF todo = {} THEN NextWindow(d, open) ELSE busy) /\ rollup' = rollup
      BY <2>1, <2>2 DEF Select
    <3>2. worker'[d].pc \notin {"select", "upsert", "waiting"}
      BY DEF Completes, Active
    <3>3. busy.pc = "upsert" /\ open.period = w.period
      <4> HIDE DEF found, todo
      <4> QED BY <2>1 DEF WorkerType
    <3>4. todo = {}
      <4> HIDE DEF busy, todo, open
      <4> QED BY <3>1, <3>2, <3>3
    <3>5. w.period = "daily"
      <4>1. w.period # "hourly"
        <5> SUFFICES ASSUME w.period = "hourly" PROVE FALSE
          OBVIOUS
        <5>1. worker'[d] = [open EXCEPT !.pc = "select", !.period = "daily",
                                        !.found = NoGroups, !.done = {}]
          BY <3>1, <3>3, <3>4 DEF NextWindow
        <5> QED BY <2>1, <3>2, <5>1 DEF WorkerType
      <4> QED BY <2>1, <4>1 DEF Periods
    <3>6. CoversDay(found, w.began)
      BY <2>1, <3>5, GroupsCoverDay
    <3>7. l \in found[RowOf("daily", l)] /\ RowOf("daily", l) \in Row
      BY <2>1, <3>1, <3>6, HourlyLog DEF CoversDay
    <3> QED BY <3>4, <3>7
  <2>3. CASE CommitWindow(d)
    <3>1. /\ w.pc = "upsert" /\ w.todo = {} /\ rollup' = Committed(d)
          /\ worker'[d] = NextWindow(d, [w EXCEPT !.txn = FALSE])
      BY <2>1, <2>3 DEF CommitWindow, At
    <3>2. w.period = "daily"
      <4>1. w.period # "hourly"
        <5>1. worker'[d].pc # "select"
          BY DEF Completes, Active
        <5> QED BY <2>1, <3>1, <5>1 DEF NextWindow, WorkerType
      <4> QED BY <2>1, <4>1 DEF Periods
    <3>3. h \notin w.done
      BY <2>1, <3>2 DEF Ahead, HourlyOf
    <3>4. l \in rollup[h]
      BY <3>1, <3>3 DEF Committed
    <3>5. RowOf("daily", l) \in Row /\ DailyRow(h) = RowOf("daily", l)
      BY <2>1, <3>4, HourlyLog
    <3>6. l \in w.found[RowOf("daily", l)]
      BY <2>1, <3>1, <3>2, <3>4 DEF Ahead, CoversDay
    <3>7. RowOf("daily", l) \in w.done
      BY <2>1, <3>1, <3>5, <3>6 DEF Ahead
    <3> QED BY <3>1, <3>5, <3>6, <3>7 DEF Committed
  <2> QED BY <2>2, <2>3 DEF Completes
<1> QED BY <1>1, FreshInvariance, PTL DEF Spec, TickAlignsLevels

(***************************************************************************)
(* A process alone never overlaps with another.                            *)
(***************************************************************************)
LEMMA SoleIsSerial ==
  ASSUME \A d, e \in Aggregators : d = e
  PROVE  OneAtATime
BY DEF OneAtATime

(***************************************************************************)
(* Hence the docstring is right of the metrics worker alone, which is what *)
(* docker-compose.yml runs.                                                *)
(***************************************************************************)
THEOREM SoleWorker_FreshNumbers ==
  ASSUME Daemons = Aggregators, \A d, e \in Aggregators : d = e
  PROVE  Spec => FreshNumbers
BY SoleIsSerial, Serial_FreshNumbers, PTL

(***************************************************************************)
(* With the metrics worker alone, every tick that gets to its end leaves   *)
(* the daily rows of its day counting what the hourly rows of it count.    *)
(***************************************************************************)
THEOREM SoleWorker_TicksAlignLevels ==
  ASSUME Daemons = Aggregators, \A d, e \in Aggregators : d = e
  PROVE  Spec => TickAlignsLevels
BY SoleIsSerial, Serial_TicksAlignLevels, PTL

-------------------------------------------------------------------------------
(* Deadlines. *)

(***************************************************************************)
(* Truncation keeps the order of times.                                    *)
(***************************************************************************)
LEMMA TruncMonotone ==
  ASSUME NEW p \in Periods, NEW s \in Int, NEW t \in Int, s <= t
  PROVE  Trunc(p, s) <= Trunc(p, t)
<1> DEFINE L == Length(p)
<1>1. PICK m \in Int : Trunc(p, s) = L * m
  BY TruncMultiple
<1>2. PICK k \in Int : Trunc(p, t) = L * k
  BY TruncMultiple
<1>3. L \in Nat \ {0} /\ L * m <= s /\ t < L * k + L
  BY <1>1, <1>2, TruncMultiple
<1> HIDE DEF L
<1>4. L * m \in Int /\ L * k \in Int
  BY <1>3
<1>5. L * m < L * k + L
  BY <1>3, <1>4
<1>6. m <= k
  BY <1>3, <1>5, ScaleDown
<1> QED BY <1>1, <1>2, <1>3, <1>6, ScaleUp

(***************************************************************************)
(* A tick that must still count a log has it in its window, and every      *)
(* earlier tick must too.                                                  *)
(***************************************************************************)
LEMMA DueInWindow ==
  ASSUME NEW d \in Daemons, NEW p \in Periods, NEW u \in 0..MaxTime, NEW t \in Int,
         u <= t, StillDue(p, u, t)
  PROVE  u \in Window(d, p, t)
<1>1. /\ Trunc(p, u) \in Int /\ Trunc(p, t) \in Int /\ Length(p) \in Nat
      /\ Trunc(p, u) <= u /\ t < Trunc(p, t) + Length(p)
  BY ClockAssumption, TruncMultiple
<1> QED BY <1>1, ClockAssumption DEF Window, StillDue

LEMMA DueBefore ==
  ASSUME NEW p \in Periods, NEW u \in Int, NEW s \in Int, NEW t \in Int, s <= t,
         StillDue(p, u, t)
  PROVE  StillDue(p, u, s)
<1>1. Trunc(p, s) <= Trunc(p, t)
  BY TruncMonotone
<1>2. Trunc(p, u) \in Int /\ Trunc(p, s) \in Int /\ Trunc(p, t) \in Int
  BY TruncMultiple
<1> QED BY <1>1, <1>2, ClockAssumption DEF StillDue

-------------------------------------------------------------------------------
(***************************************************************************)
(* Busy: the tick has still to write the row of l and will count l in it.  *)
(* OnTime: an uncounted log is one that the tick under way is going to     *)
(* count, or young enough, or too old for its window.  A tick that begins  *)
(* two units after the stamp sees the log; each failure costs a unit.      *)
(***************************************************************************)
Busy(w, p, l) ==
    \/ w.pc = "select" /\ w.period = p
    \/ w.pc \in {"select", "upsert", "waiting"} /\ w.period = "hourly" /\ p = "daily"
    \/ /\ w.pc \in {"upsert", "waiting"} /\ w.period = p
       /\ RowOf(p, l) \in w.todo \cup w.done
       /\ l \in w.found[RowOf(p, l)]

OnTime(d, p, l) ==
    \/ CountedIn(p, l)
    \/ ~StillDue(p, l.at, l.at + 2 + faults)
    \/ worker[d].began <= l.at + 1 + faults
    \/ worker[d].began = l.at + 2 + faults /\ Busy(worker[d], p, l)

\* The inductive invariant of workers that are up and punctual.
InTime ==
    /\ \A l \in inserting : l.at <= now /\ now <= l.at + 1
    /\ \A d \in Daemons : /\ worker[d].pc \notin {"seeding", "seeded"}
                          /\ worker[d].began <= now /\ now <= worker[d].began + 1
    /\ \A d \in Daemons, p \in Periods, l \in logs : OnTime(d, p, l)

(***************************************************************************)
(* A log that is counted stays counted.                                    *)
(***************************************************************************)
LEMMA CountedStays ==
  ASSUME FreshInv, [Next]_vars, logs \subseteq logs', NEW l \in logs, NEW p \in Periods,
         CountedIn(p, l)
  PROVE  CountedIn(p, l)'
<1>1. RowOf(p, l) \in Row
  BY RowOfLog DEF FreshInv, IInv, TypeOK
<1>2. rollup[RowOf(p, l)] \subseteq rollup'[RowOf(p, l)]
  BY <1>1, RowsGrow
<1> QED BY <1>2 DEF CountedIn, RowOf

(***************************************************************************)
(* A step that does not begin a tick keeps a worker on time, if it goes on *)
(* with what it was busy with, or commits it, or is charged with a fault.  *)
(***************************************************************************)
LEMMA StaysOnTime ==
  ASSUME FreshInv, [Next]_vars, logs \subseteq logs', faults' \in Nat,
         NEW d \in Daemons, d \in Aggregators, NEW p \in Periods, NEW l \in logs,
         OnTime(d, p, l), worker'[d].began = worker[d].began,
         \/ faults' = faults + 1
         \/ faults' = faults /\ (Busy(worker[d], p, l) => Busy(worker'[d], p, l) \/ CountedIn(p, l)')
  PROVE  OnTime(d, p, l)'
<1>1. l.at \in Int /\ worker[d].began \in Int /\ faults \in Nat
  BY ClockAssumption, RollupBoundsAssumption DEF FreshInv, IInv, TypeOK, Log, WorkerType
<1>2. ASSUME faults' = faults + 1, StillDue(p, l.at, l.at + 2 + faults')
      PROVE  StillDue(p, l.at, l.at + 2 + faults)
  BY <1>1, <1>2, DueBefore
<1>3. CASE CountedIn(p, l)
  BY <1>3, CountedStays DEF OnTime
<1>4. CASE ~StillDue(p, l.at, l.at + 2 + faults)
  BY <1>2, <1>4 DEF OnTime, StillDue, Trunc, Length
<1>5. CASE worker[d].began <= l.at + 1 + faults
  BY <1>1, <1>5 DEF OnTime
<1>6. CASE worker[d].began = l.at + 2 + faults /\ Busy(worker[d], p, l)
  <2>1. CASE faults' = faults + 1
    BY <1>1, <1>6, <2>1 DEF OnTime
  <2>2. CASE faults' = faults /\ CountedIn(p, l)'
    BY <2>2 DEF OnTime
  <2>3. CASE faults' = faults /\ Busy(worker'[d], p, l)
    BY <1>6, <2>3 DEF OnTime, Busy, RowOf, Trunc, Length
  <2> QED BY <1>6, <2>1, <2>2, <2>3
<1> QED BY <1>3, <1>4, <1>5, <1>6 DEF OnTime

(***************************************************************************)
(* A tick that begins now is busy with every row.                          *)
(***************************************************************************)
LEMMA BeginOnTime ==
  ASSUME FreshInv, InTime, [Next]_vars, NEW d \in Daemons, d \in Aggregators, BeginTick(d),
         NEW p \in Periods, NEW l \in logs
  PROVE  OnTime(d, p, l)'
<1>1. /\ l.at \in Int /\ worker[d].began \in Int /\ faults \in Nat /\ now \in Int
      /\ worker \in [Aggregators -> WorkerType]
  BY ClockAssumption, RollupBoundsAssumption DEF FreshInv, IInv, TypeOK, Log, WorkerType
<1>2. /\ worker'[d] = Resting("select", now) /\ worker[d].pc = "idle"
      /\ UNCHANGED <<now, logs, rollup, faults>>
  BY <1>1 DEF BeginTick, At
<1>3. OnTime(d, p, l) /\ now <= worker[d].began + 1
  BY DEF InTime
<1>4. Busy(worker'[d], p, l)
  BY <1>2 DEF Busy, Resting, Periods
<1>5. ~Busy(worker[d], p, l)
  BY <1>2 DEF Busy
<1>6. CASE worker[d].began <= l.at + 1 + faults
  <2>1. worker'[d].began = now
    BY <1>2 DEF Resting
  <2>2. now <= l.at + 2 + faults
    BY <1>1, <1>3, <1>6
  <2>3. now <= l.at + 1 + faults \/ now = l.at + 2 + faults
    BY <1>1, <2>2
  <2> QED BY <1>2, <1>4, <2>1, <2>3 DEF OnTime, Busy, RowOf, Trunc, Length
<1>7. CASE CountedIn(p, l) \/ ~StillDue(p, l.at, l.at + 2 + faults)
  BY <1>2, <1>7 DEF OnTime, CountedIn, StillDue, Trunc, Length
<1> QED BY <1>3, <1>5, <1>6, <1>7 DEF OnTime

(***************************************************************************)
(* A query two units or more after a log's stamp finds it.                 *)
(***************************************************************************)
LEMMA SelectOnTime ==
  ASSUME FreshInv, InTime, [Next]_vars, NEW d \in Daemons, d \in Aggregators, Select(d),
         NEW p \in Periods, NEW l \in logs
  PROVE  OnTime(d, p, l)'
<1> DEFINE w == worker[d]
           found == Groups(w.period, Window(d, w.period, w.began))
           todo == {r \in Row : found[r] # {}}
           open == [w EXCEPT !.txn = TRUE]
           busy == [open EXCEPT !.pc = "upsert", !.found = found, !.todo = todo]
           r == RowOf(p, l)
<1>1. /\ l \in Log /\ l.at \in 0..MaxTime /\ l.at \in Int /\ faults \in Nat
      /\ w \in WorkerType /\ worker \in [Aggregators -> WorkerType]
  BY ClockAssumption, RollupBoundsAssumption DEF FreshInv, IInv, TypeOK, Log
<1>2. w.period \in Periods /\ w.began \in Int /\ w.pc = "select"
  BY <1>1, ClockAssumption DEF WorkerType, Select, At
<1>3. worker'[d] = (IF todo = {} THEN NextWindow(d, open) ELSE busy)
      /\ UNCHANGED <<now, logs, rollup, faults>>
  BY <1>1 DEF Select
<1>4. /\ open.period = w.period /\ open.began = w.began
      /\ busy.pc = "upsert" /\ busy.period = w.period /\ busy.began = w.began
      /\ busy.todo = todo /\ busy.found = found
  <2> HIDE DEF found, todo
  <2> QED BY <1>1 DEF WorkerType
<1>5. worker'[d].began = w.began
  <2> HIDE DEF busy, todo
  <2>1. open \in WorkerType
    BY <1>1, Zenon DEF WorkerType
  <2> HIDE DEF open
  <2>2. NextWindow(d, open).began = w.began
    BY <1>4, <2>1 DEF NextWindow, Resting, WorkerType
  <2> QED BY <1>3, <1>4, <2>2
<1>6. ASSUME w.period = p, w.began = l.at + 2 + faults, StillDue(p, l.at, w.began)
      PROVE  todo # {} /\ r \in todo /\ l \in found[r]
  <2>1. l.at \in Window(d, p, w.began)
    BY <1>1, <1>2, <1>6, DueInWindow
  <2>2. r \in Row /\ r.period = p /\ InBucket(l, r)
    BY <1>1, RowOfLog
  <2> HIDE DEF r
  <2>3. l \in found[r]
    BY <1>6, <2>1, <2>2 DEF Groups
  <2> QED BY <2>2, <2>3
<1>7. ASSUME w.began = l.at + 2 + faults, StillDue(p, l.at, w.began), Busy(w, p, l)
      PROVE  Busy(worker'[d], p, l)
  <2>1. CASE w.period = p
    <3>1. worker'[d] = busy /\ r \in todo /\ l \in found[r]
      BY <1>3, <1>6, <1>7, <2>1
    <3> HIDE DEF busy, found, todo
    <3> QED BY <1>4, <2>1, <3>1 DEF Busy
  <2>2. CASE w.period = "hourly" /\ p = "daily" /\ todo = {}
    <3>1. worker'[d] = [open EXCEPT !.pc = "select", !.period = "daily", !.found = NoGroups,
                                    !.done = {}]
      BY <1>3, <1>4, <2>2 DEF NextWindow
    <3>2. worker'[d].pc = "select" /\ worker'[d].period = "daily"
      BY <1>1, <3>1 DEF WorkerType
    <3> QED BY <2>2, <3>2 DEF Busy
  <2>3. CASE w.period = "hourly" /\ p = "daily" /\ todo # {}
    <3> HIDE DEF busy, found, todo
    <3> QED BY <1>3, <1>4, <2>3 DEF Busy
  <2> QED BY <1>2, <1>7, <2>1, <2>2, <2>3 DEF Busy
<1>8. OnTime(d, p, l)
  BY DEF InTime
<1>9. CASE w.began = l.at + 2 + faults /\ StillDue(p, l.at, w.began) /\ Busy(w, p, l)
  <2>1. faults' = faults /\ (Busy(worker[d], p, l) => Busy(worker'[d], p, l))
    BY <1>3, <1>7, <1>9
  <2> QED BY <1>1, <1>3, <1>5, <1>8, <2>1, StaysOnTime
<1>10. CASE CountedIn(p, l) \/ ~StillDue(p, l.at, l.at + 2 + faults)
            \/ w.began <= l.at + 1 + faults
  BY <1>3, <1>5, <1>10 DEF OnTime, CountedIn, StillDue, Trunc, Length
<1> QED BY <1>8, <1>9, <1>10 DEF OnTime

(***************************************************************************)
(* A commit counts every log of the rows it was busy with.                 *)
(***************************************************************************)
LEMMA CommitOnTime ==
  ASSUME FreshInv, InTime, [Next]_vars, NEW d \in Daemons, d \in Aggregators,
         CommitWindow(d), NEW p \in Periods, NEW l \in logs
  PROVE  OnTime(d, p, l)'
<1> DEFINE w == worker[d]
           u == [w EXCEPT !.txn = FALSE]
<1>1. /\ l \in Log /\ faults \in Nat
      /\ w \in WorkerType /\ worker \in [Aggregators -> WorkerType]
  BY ClockAssumption, RollupBoundsAssumption DEF FreshInv, IInv, TypeOK
<1>2. /\ w.pc = "upsert" /\ w.todo = {} /\ rollup' = Committed(d)
      /\ worker'[d] = NextWindow(d, u) /\ UNCHANGED <<now, logs, faults>>
  BY <1>1 DEF CommitWindow, At
<1>3. u.period = w.period /\ u.began = w.began /\ u \in WorkerType
  <2>1. u \in WorkerType
    BY <1>1, Zenon DEF WorkerType
  <2> QED BY <1>1, <2>1 DEF WorkerType
<1> HIDE DEF u
<1>4. worker'[d].began = w.began
  BY <1>2, <1>3 DEF NextWindow, Resting, WorkerType
<1>5. ASSUME Busy(w, p, l) PROVE Busy(worker'[d], p, l) \/ CountedIn(p, l)'
  <2>1. CASE w.period = "hourly" /\ p = "daily"
    <3>1. worker'[d].pc = "select" /\ worker'[d].period = "daily"
      BY <1>2, <1>3, <2>1 DEF NextWindow, WorkerType
    <3> QED BY <2>1, <3>1 DEF Busy
  <2>2. CASE RowOf(p, l) \in w.done /\ l \in w.found[RowOf(p, l)]
    <3>1. RowOf(p, l) \in Row
      BY <1>1, RowOfLog
    <3>2. l \in rollup'[RowOf(p, l)]
      BY <1>2, <2>2, <3>1 DEF Committed
    <3> QED BY <3>2 DEF CountedIn, RowOf, Trunc, Length
  <2> QED BY <1>2, <1>5, <2>1, <2>2 DEF Busy
<1>6. OnTime(d, p, l)
  BY DEF InTime
<1> QED BY <1>1, <1>2, <1>4, <1>5, <1>6, StaysOnTime

(***************************************************************************)
(* The clock and the INSERTs keep workers on time: a log whose commit is   *)
(* late by a unit is still young.                                          *)
(***************************************************************************)
LEMMA LogsInTime ==
  ASSUME Daemons = Aggregators, FreshInv, InTime, ~WorkerDown, [Next]_vars,
         (Advance /\ Punctual) \/ Insert
  PROVE  InTime'
<1>1. /\ now \in Int /\ faults \in Nat /\ created \in Nat
      /\ \A l \in inserting \cup logs : l.at \in Int
      /\ \A d \in Daemons : worker[d].began \in Int
  BY ClockAssumption, RollupBoundsAssumption DEF FreshInv, IInv, TypeOK, Log, WorkerType
<1>2. worker' = worker /\ rollup' = rollup /\ logs \subseteq logs' /\ faults' \in Nat
  BY <1>1 DEF Advance, Insert, BeginInsert, CommitInsert, InsertFails, Fault
<1>3. ASSUME faults' = faults \/ faults' = faults + 1,
             NEW d \in Daemons, NEW p \in Periods, NEW l \in logs
      PROVE  OnTime(d, p, l)'
  <2>1. Busy(worker[d], p, l) => Busy(worker'[d], p, l)
    BY <1>2
  <2>2. OnTime(d, p, l)
    BY DEF InTime
  <2> QED BY <1>2, <1>3, <2>1, <2>2, StaysOnTime
<1>4. CASE Advance /\ Punctual
  <2>1. \A d \in Daemons : worker[d].began = now
    BY <1>4 DEF Punctual, WorkerDown
  <2> QED BY <1>1, <1>2, <1>3, <1>4, <2>1 DEF Advance, InTime
<1>5. CASE BeginInsert
  <2>1. PICK k \in Keys :
           inserting' = inserting \cup {[id |-> created + 1, key |-> k, at |-> now]}
    BY <1>5 DEF BeginInsert
  <2> QED BY <1>1, <1>2, <1>3, <1>5, <2>1 DEF BeginInsert, InTime
<1>6. CASE \E l \in inserting : CommitInsert(l)
  <2>1. PICK l \in inserting : CommitInsert(l)
    BY <1>6
  <2>2. ASSUME NEW d \in Daemons, NEW p \in Periods PROVE OnTime(d, p, l)'
    <3>1. worker[d].began <= now /\ now <= l.at + 1
      BY DEF InTime
    <3>2. worker[d].began <= l.at + 1 + faults
      BY <1>1, <3>1
    <3> QED BY <1>2, <2>1, <3>2 DEF OnTime, CommitInsert
  <2> QED BY <1>2, <1>3, <2>1, <2>2 DEF CommitInsert, InTime
<1>7. CASE \E l \in inserting : InsertFails(l)
  BY <1>2, <1>3, <1>7 DEF InsertFails, Fault, InTime
<1> QED BY <1>4, <1>5, <1>6, <1>7 DEF Insert

(***************************************************************************)
(* A step of one worker keeps all of them on time: those that only look on *)
(* are busy as before.                                                     *)
(***************************************************************************)
LEMMA WorkerInTime ==
  ASSUME Daemons = Aggregators, FreshInv, InTime, [Next]_vars,
         NEW d \in Daemons, NEW w, worker' = [worker EXCEPT ![d] = w],
         w.pc \notin {"seeding", "seeded"}, w.began \in {worker[d].began, now},
         UNCHANGED <<now, logs, inserting>>, faults' \in {faults, faults + 1},
         \A p \in Periods, l \in logs : OnTime(d, p, l)'
  PROVE  InTime'
<1>1. /\ now \in Int /\ faults \in Nat /\ faults' \in Nat
      /\ \A e \in Daemons : worker'[e] = IF e = d THEN w ELSE worker[e]
  BY ClockAssumption, RollupBoundsAssumption DEF FreshInv, IInv, TypeOK
<1>2. ASSUME NEW e \in Daemons, e # d, NEW p \in Periods, NEW l \in logs
      PROVE  OnTime(e, p, l)'
  <2>1. OnTime(e, p, l) /\ worker'[e] = worker[e]
    BY <1>1, <1>2 DEF InTime
  <2> QED BY <1>1, <2>1, StaysOnTime
<1>3. \A e \in Daemons, p \in Periods, l \in logs' : OnTime(e, p, l)'
  BY <1>2
<1>4. \A e \in Daemons : /\ worker'[e].pc \notin {"seeding", "seeded"}
                         /\ worker'[e].began <= now /\ now <= worker'[e].began + 1
  BY <1>1 DEF InTime
<1> QED BY <1>3, <1>4 DEF InTime

LEMMA NextInTime ==
  ASSUME Daemons = Aggregators, OneAtATime, FreshInv, IInv', ~WorkerDown, ~WorkerDown',
         InTime, [PunctualNext]_vars
  PROVE  InTime'
<1>0. /\ worker \in [Aggregators -> WorkerType] /\ faults \in Nat /\ faults' \in Nat
      /\ \A d \in Aggregators : Holding(worker[d])
  BY RollupBoundsAssumption DEF FreshInv, IInv, TypeOK
<1>1. [Next]_vars
  BY DEF PunctualNext, Next
<1>2. CASE UNCHANGED vars
  BY <1>2 DEF vars, InTime, OnTime, CountedIn, StillDue, Busy, RowOf, Trunc, Length
<1>3. CASE (Advance /\ Punctual) \/ Insert
  BY <1>1, <1>3, LogsInTime
<1>4. CASE \E d \in Aggregators : Proceed(d) \/ Disturb(d) \/ Seed(d)
  <2> PICK d \in Aggregators : Proceed(d) \/ Disturb(d) \/ Seed(d)
    BY <1>4
  <2>0. /\ d \in Daemons /\ worker[d] \in WorkerType /\ ~At(d, "down")
        /\ ~At(d, "seeding") /\ ~At(d, "seeded")
    BY <1>0 DEF WorkerDown, InTime, At
  <2>a. ASSUME NEW p \in Periods, NEW l \in logs PROVE OnTime(d, p, l)
    BY <2>0 DEF InTime
  <2>b. worker'[d].pc # "down"
    BY <2>0 DEF WorkerDown, At
  <2>1. CASE BeginTick(d)
    <3>1. \A p \in Periods, l \in logs : OnTime(d, p, l)'
      BY <1>1, <2>0, <2>1, BeginOnTime
    <3>2. Resting("select", now).pc = "select" /\ Resting("select", now).began = now
      BY DEF Resting
    <3> QED BY <1>1, <2>0, <2>1, <3>1, <3>2, WorkerInTime DEF BeginTick
  <2>2. CASE Select(d)
    <3>1. \A p \in Periods, l \in logs : OnTime(d, p, l)'
      BY <1>1, <2>0, <2>2, SelectOnTime
    <3>2. PICK w : worker' = [worker EXCEPT ![d] = w]
      BY <2>2 DEF Select
    <3>3. w.began = worker[d].began /\ w.pc \notin {"seeding", "seeded"}
      <4>1. worker'[d] = w
        BY <1>0, <3>2
      <4> QED BY <1>0, <2>0, <2>2, <4>1 DEF Select, NextWindow, Resting, WorkerType
    <3> QED BY <1>1, <2>0, <2>2, <3>1, <3>2, <3>3, WorkerInTime DEF Select
  <2>3. CASE SendUpsert(d)
    <3>1. PICK r \in worker[d].todo :
             worker' = [worker EXCEPT ![d] = [worker[d] EXCEPT !.pc = "waiting", !.row = r]]
      BY <1>0, <2>3 DEF SendUpsert
    <3> DEFINE w == [worker[d] EXCEPT !.pc = "waiting", !.row = r]
    <3>2. /\ w.pc = "waiting" /\ w.began = worker[d].began /\ w.period = worker[d].period
          /\ w.todo = worker[d].todo /\ w.done = worker[d].done
          /\ w.found = worker[d].found /\ worker'[d] = w
      BY <1>0, <2>0, <3>1 DEF WorkerType
    <3>3. worker[d].pc = "upsert" /\ UNCHANGED <<now, logs, inserting, faults>>
      BY <2>3 DEF SendUpsert, At
    <3> HIDE DEF w
    <3>4. ASSUME NEW p \in Periods, NEW l \in logs PROVE OnTime(d, p, l)'
      <4>1. Busy(worker[d], p, l) => Busy(worker'[d], p, l)
        BY <3>2, <3>3 DEF Busy
      <4> QED BY <1>0, <1>1, <2>0, <2>a, <3>2, <3>3, <4>1, StaysOnTime
    <3> QED BY <1>1, <2>0, <3>1, <3>2, <3>3, <3>4, WorkerInTime DEF w
  <2>4. CASE Upsert(d)
    <3> DEFINE w == [worker[d] EXCEPT !.pc = "upsert", !.todo = @ \ {worker[d].row},
                                      !.done = @ \cup {worker[d].row}, !.row = NoRow]
    <3>1. worker' = [worker EXCEPT ![d] = w]
      BY <1>0, <2>4 DEF Upsert
    <3>2. /\ w.pc = "upsert" /\ w.began = worker[d].began /\ w.period = worker[d].period
          /\ w.todo = worker[d].todo \ {worker[d].row}
          /\ w.done = worker[d].done \cup {worker[d].row}
          /\ w.found = worker[d].found /\ worker'[d] = w
      BY <1>0, <2>0, <3>1 DEF WorkerType
    <3>3. worker[d].pc = "waiting" /\ UNCHANGED <<now, logs, inserting, faults>>
      BY <2>4 DEF Upsert, At
    <3> HIDE DEF w
    <3>4. ASSUME NEW p \in Periods, NEW l \in logs PROVE OnTime(d, p, l)'
      <4>1. Busy(worker[d], p, l) => Busy(worker'[d], p, l)
        BY <3>2, <3>3 DEF Busy
      <4> QED BY <1>0, <1>1, <2>0, <2>a, <3>2, <3>3, <4>1, StaysOnTime
    <3> QED BY <1>1, <2>0, <3>1, <3>2, <3>3, <3>4, WorkerInTime
  <2>5. CASE CommitWindow(d)
    <3>1. \A p \in Periods, l \in logs : OnTime(d, p, l)'
      BY <1>1, <2>0, <2>5, CommitOnTime
    <3>2. PICK w : worker' = [worker EXCEPT ![d] = w]
      BY <2>5 DEF CommitWindow
    <3>3. w.began = worker[d].began /\ w.pc \notin {"seeding", "seeded"}
      <4>1. worker'[d] = w
        BY <1>0, <3>2
      <4> QED BY <1>0, <2>0, <2>5, <4>1 DEF CommitWindow, NextWindow, Resting, WorkerType
    <3> QED BY <1>1, <2>0, <2>5, <3>1, <3>2, <3>3, WorkerInTime DEF CommitWindow
  <2>6. ~DeadlockDetected(d)
    <3> SUFFICES ASSUME DeadlockDetected(d) PROVE FALSE
      OBVIOUS
    <3>1. PICK e \in Aggregators : Waits(d, e)
      BY DEF DeadlockDetected, OnCycle
    <3>2. worker[d].pc = "waiting" /\ d # e /\ worker[e].done # {}
      BY <3>1 DEF Waits, At, LockedBy
    <3>3. worker[e].pc \in {"upsert", "waiting"}
      BY <1>0, <3>2 DEF Holding
    <3> QED BY <3>2, <3>3 DEF OneAtATime
  <2>7. CASE StatementFails(d)
    <3>1. worker' = [worker EXCEPT ![d] = Abandon(d)] /\ faults' = faults + 1
          /\ UNCHANGED <<now, logs, inserting>>
      BY <2>7 DEF StatementFails, Fault
    <3>2. Abandon(d).began = worker[d].began /\ Abandon(d).pc \in {"idle", "down"}
          /\ worker'[d] = Abandon(d)
      BY <1>0, <3>1 DEF Abandon, Resting
    <3>3. ASSUME NEW p \in Periods, NEW l \in logs PROVE OnTime(d, p, l)'
      BY <1>0, <1>1, <2>0, <2>a, <3>1, <3>2, StaysOnTime
    <3> QED BY <1>1, <2>0, <3>1, <3>2, <3>3, WorkerInTime
  <2>8. CASE Stop(d)
    <3> DEFINE w == [worker[d] EXCEPT !.stop = TRUE]
    <3>1. ~At(d, "idle")
      BY <1>0, <2>b, <2>8 DEF Stop, Resting
    <3>2. worker' = [worker EXCEPT ![d] = w] /\ UNCHANGED <<now, logs, inserting, faults>>
      BY <1>0, <2>8, <3>1 DEF Stop
    <3>3. /\ w.pc = worker[d].pc /\ w.began = worker[d].began /\ w.period = worker[d].period
          /\ w.todo = worker[d].todo /\ w.done = worker[d].done
          /\ w.found = worker[d].found /\ worker'[d] = w
      BY <1>0, <2>0, <3>2 DEF WorkerType
    <3> HIDE DEF w
    <3>4. ASSUME NEW p \in Periods, NEW l \in logs PROVE OnTime(d, p, l)'
      <4>1. Busy(worker[d], p, l) => Busy(worker'[d], p, l)
        BY <3>3 DEF Busy
      <4> QED BY <1>0, <1>1, <2>0, <2>a, <3>2, <3>3, <4>1, StaysOnTime
    <3> QED BY <1>1, <2>0, <3>2, <3>3, <3>4, WorkerInTime DEF At
  <2>9. ~Crash(d)
    BY <1>0, <2>b DEF Crash, Resting
  <2>10. ~Start(d) /\ ~Seed(d)
    BY <2>0 DEF Start, Seed, RunSeed, Reset, SeedLogs
  <2> QED BY <2>1, <2>2, <2>3, <2>4, <2>5, <2>6, <2>7, <2>8, <2>9, <2>10
          DEF Proceed, Disturb
<1> QED BY <1>2, <1>3, <1>4 DEF PunctualNext

(***************************************************************************)
(* metrics_worker.py:32-35 keeps a deadline, for workers whose             *)
(* transactions do not overlap, whatever the lengths of hour and day, the  *)
(* logs, the faults, and the moments at which INSERTs commit.              *)
(***************************************************************************)
THEOREM Serial_CountedInTime ==
  ASSUME Daemons = Aggregators, Daemons # {}
  PROVE  PunctualSpec /\ []OneAtATime => CountedInTime
<1> DEFINE Deadline ==
             \A p \in Periods, l \in logs :
                now >= l.at + 4 + faults /\ StillDue(p, l.at, l.at + 2 + faults)
                   => CountedIn(p, l)
<1>1. PunctualSpec => Spec
  <2>1. [PunctualNext]_vars => [Next]_vars
    BY DEF PunctualNext, Next
  <2> QED BY <2>1, PTL DEF PunctualSpec, Spec
<1>2. Init => InTime
  BY ClockAssumption DEF Init, Resting, InTime
<1>3. OneAtATime /\ FreshInv /\ IInv' /\ ~WorkerDown /\ ~WorkerDown' /\ InTime
      /\ [PunctualNext]_vars => InTime'
  BY NextInTime
<1>4. FreshInv => IInv
  BY DEF FreshInv
<1>5. FreshInv /\ InTime => Deadline
  <2> SUFFICES ASSUME FreshInv, InTime, NEW p \in Periods, NEW l \in logs,
                      now >= l.at + 4 + faults, StillDue(p, l.at, l.at + 2 + faults)
               PROVE  CountedIn(p, l)
    OBVIOUS
  <2> PICK d \in Daemons : TRUE
    OBVIOUS
  <2>1. /\ now \in Int /\ faults \in Nat /\ l.at \in Int /\ worker[d].began \in Int
    BY ClockAssumption, RollupBoundsAssumption DEF FreshInv, IInv, TypeOK, Log, WorkerType
  <2>2. now <= worker[d].began + 1 /\ OnTime(d, p, l)
    BY DEF InTime
  <2> QED BY <2>1, <2>2 DEF OnTime
<1> QED BY <1>1, <1>2, <1>3, <1>4, <1>5, FreshInvariance, PTL DEF PunctualSpec, CountedInTime

(***************************************************************************)
(* The metrics worker alone, as docker-compose.yml runs it, is in time.    *)
(***************************************************************************)
THEOREM SoleWorker_CountedInTime ==
  ASSUME Daemons = Aggregators, Daemons # {}, \A d, e \in Aggregators : d = e
  PROVE  PunctualSpec => CountedInTime
BY SoleIsSerial, Serial_CountedInTime, PTL

(***************************************************************************)
(* Two hours reach back a whole hour from any of their times.              *)
(***************************************************************************)
LEMMA HourReachesBack ==
  ASSUME NEW u \in Int, NEW k \in Nat, k <= HourLength
  PROVE  StillDue("hourly", u, u + k)
<1> DEFINE H == HourLength
<1>0. "hourly" \in Periods /\ Length("hourly") = H /\ H \in Nat \ {0}
  BY ClockAssumption DEF Periods, Length
<1>1. PICK q \in Int : Trunc("hourly", u) = H * q
  BY <1>0, TruncMultiple
<1>2. PICK m \in Int : Trunc("hourly", u + k) = H * m
  <2>1. u + k \in Int
    OBVIOUS
  <2> QED BY <1>0, <2>1, TruncMultiple
<1>3. u < H * q + H /\ H * m <= u + k
  BY <1>0, <1>1, <1>2, TruncMultiple
<1> HIDE DEF H
<1>4. H * q \in Int /\ H * m \in Int /\ H * (q + 1) = H * q + H
  BY <1>0
<1>5. H * m < H * (q + 1) + H
  BY <1>0, <1>3, <1>4 DEF H
<1>6. m <= q + 1
  BY <1>0, <1>5, ScaleDown
<1>7. H * m <= H * q + H
  BY <1>0, <1>4, <1>6, ScaleUp
<1> QED BY <1>1, <1>2, <1>7 DEF StillDue, H

(***************************************************************************)
(* In particular no hourly row misses a log for longer, unless there are   *)
(* more faults than the hour has units to spare: the previous hour is      *)
(* aggregated again for long enough.                                       *)
(***************************************************************************)
THEOREM SoleWorker_HourlyInTime ==
  ASSUME Daemons = Aggregators, Daemons # {}, \A d, e \in Aggregators : d = e
  PROVE  PunctualSpec /\ []~WorkerDown =>
            [](\A l \in logs : now >= l.at + 4 + faults /\ faults + 2 <= HourLength
                                  => CountedIn("hourly", l))
<1> DEFINE Deadline ==
             \A p \in Periods, l \in logs :
                now >= l.at + 4 + faults /\ StillDue(p, l.at, l.at + 2 + faults)
                   => CountedIn(p, l)
           Hourly ==
             \A l \in logs : now >= l.at + 4 + faults /\ faults + 2 <= HourLength
                                => CountedIn("hourly", l)
<1>1. TypeOK /\ Deadline => Hourly
  <2> SUFFICES ASSUME TypeOK, Deadline, NEW l \in logs, now >= l.at + 4 + faults,
                      faults + 2 <= HourLength
               PROVE  CountedIn("hourly", l)
    OBVIOUS
  <2>1. l.at \in Int /\ faults \in Nat /\ "hourly" \in Periods
    BY ClockAssumption, RollupBoundsAssumption DEF TypeOK, Log, Periods
  <2>2. StillDue("hourly", l.at, l.at + (2 + faults))
    BY <2>1, HourReachesBack
  <2>3. l.at + (2 + faults) = l.at + 2 + faults
    BY <2>1
  <2> QED BY <2>1, <2>2, <2>3
<1>2. PunctualSpec => Spec
  <2>1. [PunctualNext]_vars => [Next]_vars
    BY DEF PunctualNext, Next
  <2> QED BY <2>1, PTL DEF PunctualSpec, Spec
<1>3. IInv => TypeOK
  BY DEF IInv
<1> QED BY <1>1, <1>2, <1>3, RollupInvariance, SoleWorker_CountedInTime, PTL DEF CountedInTime

-------------------------------------------------------------------------------
(* Waiting for each other's rows. *)

(***************************************************************************)
(* Processes each of which waits for another of them: one is on a cycle,   *)
(* since a smallest such set is one.                                       *)
(***************************************************************************)
Entangled(S) == \A e \in S : \E f \in S : Waits(e, f)

LEMMA EntangledHasCycle ==
  ASSUME NEW S \in SUBSET Aggregators, S # {}, IsFiniteSet(S), Entangled(S)
  PROVE  \E d \in S : OnCycle(d)
<1> DEFINE R == StrictSubsetOrdering(S)
           Tangles == {T \in FiniteSubsetsOf(S) : T # {} /\ Entangled(T)}
<1>1. S \in Tangles
  BY DEF FiniteSubsetsOf
<1>2. PICK T \in Tangles : \A U \in Tangles : <<U, T>> \notin R
  <2>1. IsWellFoundedOn(R, FiniteSubsetsOf(S))
    BY FS_StrictSubsetOrderingWellFounded
  <2> QED BY <1>1, <2>1, WFMin
<1>3. T \in SUBSET S /\ IsFiniteSet(T) /\ T # {} /\ Entangled(T)
  BY DEF FiniteSubsetsOf
<1>4. ASSUME NEW e \in T PROVE \E f \in T : Waits(f, e)
  <2> SUFFICES ASSUME \A f \in T : ~Waits(f, e) PROVE FALSE
    OBVIOUS
  <2> DEFINE U == T \ {e}
  <2>1. PICK f \in T : Waits(e, f)
    BY <1>3 DEF Entangled
  <2>2. U # {}
    BY <2>1 DEF Waits
  <2>3. Entangled(U)
    BY <1>3 DEF Entangled
  <2>4. IsFiniteSet(U) /\ U \in SUBSET S
    BY <1>3, FS_Subset
  <2>5. U \in Tangles
    BY <2>2, <2>3, <2>4 DEF FiniteSubsetsOf
  <2>6. <<U, T>> \in R
    BY <1>3, <2>4 DEF StrictSubsetOrdering
  <2> QED BY <1>2, <2>5, <2>6
<1>5. \A d \in T : OnCycle(d)
  BY <1>3, <1>4 DEF OnCycle, Entangled
<1> QED BY <1>3, <1>5

(***************************************************************************)
(* Ticks never hang: rows are locked only by transactions that are still   *)
(* at work, so if all of them wait, some wait for each other in a circle,  *)
(* and PostgreSQL finds that one.                                          *)
(***************************************************************************)
THEOREM Never_Stuck ==
  ASSUME IsFiniteSet(Aggregators)
  PROVE  Spec => []NeverStuck
<1>1. ASSUME IInv PROVE NeverStuck
  <2> DEFINE S == {d \in Aggregators : Active(d)}
  <2> SUFFICES ASSUME S # {}, \A d \in S : ~CanMove(d)
               PROVE  \E d \in Aggregators : OnCycle(d)
    BY DEF NeverStuck, CanMove
  <2>1. Entangled(S)
    <3> SUFFICES ASSUME NEW d \in S PROVE \E f \in S : Waits(d, f)
      BY DEF Entangled
    <3>1. PICK f \in Aggregators : Waits(d, f)
      BY DEF CanMove
    <3>2. worker[f].done # {}
      BY <3>1 DEF Waits, LockedBy
    <3>3. Active(f)
      BY <1>1, <3>2 DEF IInv, Holding, Active
    <3> QED BY <3>1, <3>3
  <2>2. IsFiniteSet(S)
    BY FS_Subset
  <2> QED BY <2>1, <2>2, EntangledHasCycle
<1> QED BY <1>1, RollupInvariance, PTL
===============================================================================
