-------------------------- MODULE DriftMonitor_proofs --------------------------
(***************************************************************************)
(* Proofs about DriftMonitor, for every set of applications, detectors and *)
(* requests.  Almost every step of a detector changes its own record only, *)
(* so the step proofs rest on three lemmas: the record alone changes       *)
(* (WorkerMove), an alert is added with it (AlertAdded), the delivery of   *)
(* the alert in hand changes with it (DeliveryMove).                       *)
(***************************************************************************)
EXTENDS DriftMonitor, TLAPS, FiniteSetTheorems, SequenceTheorems

(***************************************************************************)
(* drift_detector.severity_for ranges over none, low, ..., critical.       *)
(***************************************************************************)
LEMMA SeverityRange ==
  ASSUME NEW s
  PROVE  severity_for(s) \in Severities \cup {NoSeverity}
<1> DEFINE T == {t \in Thresholds : s >= t}
<1>1. IsFiniteSet({15}) /\ Cardinality({15}) = 1
  BY FS_Singleton
<1>2. IsFiniteSet({15, 25}) /\ Cardinality({15, 25}) = 2
  <2>1. {15, 25} = {15} \cup {25} /\ 25 \notin {15}
    OBVIOUS
  <2> QED BY <1>1, <2>1, FS_AddElement
<1>3. IsFiniteSet({15, 25, 35}) /\ Cardinality({15, 25, 35}) = 3
  <2>1. {15, 25, 35} = {15, 25} \cup {35} /\ 35 \notin {15, 25}
    OBVIOUS
  <2> QED BY <1>2, <2>1, FS_AddElement
<1>4. IsFiniteSet(Thresholds) /\ Cardinality(Thresholds) = 4
  <2>1. Thresholds = {15, 25, 35} \cup {50} /\ 50 \notin {15, 25, 35}
    BY DEF Thresholds
  <2> QED BY <1>3, <2>1, FS_AddElement
<1>5. IsFiniteSet(T) /\ Cardinality(T) <= 4
  <2>1. T \in SUBSET Thresholds
    OBVIOUS
  <2> QED BY <1>4, <2>1, FS_Subset
<1>6. Cardinality(T) \in Nat
  BY <1>5, FS_CardinalityType
<1> QED
  BY <1>5, <1>6 DEF severity_for, Severities, NoSeverity

(***************************************************************************)
(* The initial state satisfies the inductive invariant.                    *)
(***************************************************************************)
LEMMA InitIInv == Init => IInv
<1> SUFFICES ASSUME Init PROVE IInv
  OBVIOUS
<1> USE DEF Init, WorkerInit, LifecycleInit
<1>1. Idle \in WorkerType
  BY DEF Idle, WorkerType, PCs, NoSeverity, MaxAttempts
<1>2. TypeOK
  BY <1>1, MaxPatchesAssumption, MaxFaultsAssumption
     DEF TypeOK, WorkerTypeOK, LifecycleTypeOK, FreeRequest, NewStatuses, Statuses
<1>3. \A d \in Detectors : Sound(d, worker[d])
  BY DEF Sound, InProgress, NothingToDedup, HoldsAlert, Idle, Detecting, MaxAttempts
<1>4. LoadedRows
  BY DEF LoadedRows, FreeRequest
<1>5. DedupPerDetector /\ DeliveryHonest
  BY DEF DedupPerDetector, DeliveryHonest, At, Idle
<1> QED
  BY <1>2, <1>3, <1>4, <1>5 DEF IInv

-------------------------------------------------------------------------------
(***************************************************************************)
(* A step that changes only detector d's record keeps the invariant when   *)
(* the new record is sound.                                                *)
(***************************************************************************)
LEMMA WorkerMove ==
  ASSUME IInv, NEW d \in Detectors, NEW w \in WorkerType, Sound(d, w),
         worker' = [worker EXCEPT ![d] = w],
         faults' \in 0..MaxFaults,
         UNCHANGED <<alerts, score, delivery, patchVars>>
  PROVE  IInv'
<1> USE DEF IInv, patchVars
<1>1. TypeOK'
  BY DEF TypeOK, WorkerTypeOK, LifecycleTypeOK
<1>2. \A e \in Detectors : worker'[e] = IF e = d THEN w ELSE worker[e]
  BY DEF TypeOK, WorkerTypeOK
<1>3. (\A e \in Detectors : Sound(e, worker[e]))'
  BY <1>2 DEF Sound, InProgress, NothingToDedup, HoldsAlert, IsOpen
<1>4. LoadedRows'
  BY DEF LoadedRows, IsOpen
<1>5. DedupPerDetector'
  BY DEF DedupPerDetector, IsOpen
<1>6. DeliveryHonest'
  BY <1>3 DEF DeliveryHonest, Sound, HoldsAlert, At
<1> QED
  BY <1>1, <1>3, <1>4, <1>5, <1>6

(***************************************************************************)
(* Detector d adds its alert, after a check that still holds.              *)
(***************************************************************************)
LEMMA AlertAdded ==
  ASSUME IInv, NEW d \in Detectors, At(d, "insert"), AppendAlert(d),
         NEW w \in WorkerType, InProgress(w), w.pc # "insert",
         w.pc \in {"refresh", "post"} => w.id = Len(alerts) + 1,
         worker' = [worker EXCEPT ![d] = w],
         faults' \in 0..MaxFaults,
         UNCHANGED <<score, patchVars>>
  PROVE  IInv'
<1> DEFINE n == Len(alerts) + 1
           new == NewAlert(worker[d].app, worker[d].sev, d)
           sent == [outcome |-> "none", received |-> 0]
<1> USE DEF IInv, patchVars
<1>1. new \in AlertRow /\ sent \in DeliveryType
  BY DEF At, Sound, InProgress, NewAlert, AlertRow, Statuses, DeliveryType, Outcomes, Detecting
<1>2. /\ alerts \in Seq(AlertRow) /\ delivery \in Seq(DeliveryType)
      /\ alerts' = Append(alerts, new) /\ delivery' = Append(delivery, sent)
  BY DEF TypeOK, WorkerTypeOK, AppendAlert
<1>3. /\ Len(alerts) \in Nat /\ n \in Nat
      /\ DOMAIN alerts = 1..Len(alerts) /\ DOMAIN delivery = 1..Len(alerts)
      /\ DOMAIN alerts' = 1..n /\ DOMAIN delivery' = 1..n
      /\ Len(alerts') = n /\ Len(delivery') = n
      /\ \A i \in DOMAIN alerts : alerts'[i] = alerts[i] /\ delivery'[i] = delivery[i]
      /\ alerts'[n] = new /\ delivery'[n] = sent
      /\ \A i \in 1..n : i \in DOMAIN alerts \/ i = n
      /\ \A i \in DOMAIN alerts : i < n
  BY <1>1, <1>2
<1> HIDE DEF n, new, sent
<1>4. TypeOK'
  BY <1>1, <1>2 DEF TypeOK, WorkerTypeOK, LifecycleTypeOK
<1>5. \A e \in Detectors : worker'[e] = IF e = d THEN w ELSE worker[e]
  BY DEF TypeOK, WorkerTypeOK
<1>6. \A e \in Detectors : Sound(e, worker[e])'
  <2> SUFFICES ASSUME NEW e \in Detectors PROVE Sound(e, worker[e])'
    OBVIOUS
  <2>1. CASE e = d
    <3>1. InProgress(w)' /\ NothingToDedup(d, w)'
      BY DEF InProgress, NothingToDedup
    <3>2. HoldsAlert(d, w)'
      <4> SUFFICES ASSUME w.pc \in {"refresh", "post"}
                   PROVE  w.id = n /\ new.by = d /\ sent.outcome = "none"
                          /\ sent.received <= w.attempt
        BY <1>3 DEF HoldsAlert
      <4> QED BY DEF n, new, sent, NewAlert, WorkerType, MaxAttempts
    <3> QED BY <2>1, <1>5, <3>1, <3>2 DEF Sound
  <2>2. CASE e # d
    <3>1. worker'[e] = worker[e] /\ Sound(e, worker[e])
      BY <2>2, <1>5
    <3>2. new.by = d
      BY DEF new, NewAlert
    <3> QED BY <1>3, <2>2, <3>1, <3>2
            DEF Sound, InProgress, NothingToDedup, HoldsAlert, IsOpen
  <2> QED BY <2>1, <2>2
<1>7. LoadedRows'
  BY <1>3 DEF LoadedRows, IsOpen
<1>8. DedupPerDetector'
  <2>1. \A i \in DOMAIN alerts : alerts[i].app = new.app /\ alerts[i].by = new.by /\ IsOpen(i)
                                => alerts[i].sev < new.sev
    BY DEF new, NewAlert, Sound, NothingToDedup, At
  <2> QED BY <1>3, <2>1 DEF DedupPerDetector, IsOpen
<1>9. DeliveryHonest'
  <2>1. sent.received = 0 /\ sent.outcome = "none"
    BY DEF sent
  <2>2. \A i \in DOMAIN delivery' :
           /\ delivery'[i].received <= MaxAttempts
           /\ delivery'[i].outcome = "delivered" => delivery'[i].received >= 1
           /\ delivery'[i].outcome = "skipped" => delivery'[i].received = 0
    BY <1>3, <2>1 DEF DeliveryHonest, MaxAttempts
  <2> QED BY <2>2, <1>6 DEF DeliveryHonest, Sound, HoldsAlert, At
<1> QED
  BY <1>3, <1>4, <1>6, <1>7, <1>8, <1>9

(***************************************************************************)
(* Detector d records what became of one POST of the alert in its hands.   *)
(***************************************************************************)
LEMMA DeliveryMove ==
  ASSUME IInv, NEW d \in Detectors, At(d, "post"),
         NEW o \in DeliveryType,
         o.received <= MaxAttempts,
         o.outcome = "delivered" => o.received >= 1,
         o.outcome = "skipped" => o.received = 0,
         NEW w \in WorkerType, InProgress(w), w.pc \in {"sweep", "post"},
         w.pc = "post" => /\ w.id = worker[d].id
                          /\ o.outcome = "none" /\ o.received <= w.attempt,
         delivery' = [delivery EXCEPT ![worker[d].id] = o],
         worker' = [worker EXCEPT ![d] = w],
         UNCHANGED <<alerts, score, faults, patchVars>>
  PROVE  IInv'
<1> DEFINE k == worker[d].id
<1> USE DEF IInv, patchVars
<1>1. k \in DOMAIN alerts /\ alerts[k].by = d
  BY DEF Sound, HoldsAlert, At
<1>2. alerts \in Seq(AlertRow) /\ delivery \in Seq(DeliveryType) /\ Len(delivery) = Len(alerts)
  BY DEF TypeOK, WorkerTypeOK
<1>3. /\ delivery' \in Seq(DeliveryType) /\ Len(delivery') = Len(alerts)
      /\ DOMAIN delivery' = DOMAIN delivery
      /\ \A i \in DOMAIN delivery : delivery'[i] = IF i = k THEN o ELSE delivery[i]
      /\ DOMAIN alerts = DOMAIN delivery
  BY <1>1, <1>2
<1> HIDE DEF k
<1>4. TypeOK'
  BY <1>3 DEF TypeOK, WorkerTypeOK, LifecycleTypeOK
<1>5. \A e \in Detectors : worker'[e] = IF e = d THEN w ELSE worker[e]
  BY DEF TypeOK, WorkerTypeOK
<1>6. \A e \in Detectors : Sound(e, worker[e])'
  <2> SUFFICES ASSUME NEW e \in Detectors PROVE Sound(e, worker[e])'
    OBVIOUS
  <2>1. CASE e = d
    BY <2>1, <1>1, <1>3, <1>5 DEF Sound, InProgress, NothingToDedup, HoldsAlert, IsOpen, k
  <2>2. CASE e # d
    <3>1. worker'[e] = worker[e] /\ Sound(e, worker[e])
      BY <2>2, <1>5
    <3> QED BY <1>1, <1>3, <2>2, <3>1
            DEF Sound, InProgress, NothingToDedup, HoldsAlert, IsOpen
  <2> QED BY <2>1, <2>2
<1>7. LoadedRows' /\ DedupPerDetector'
  BY DEF LoadedRows, DedupPerDetector, IsOpen
<1>8. DeliveryHonest'
  BY <1>3, <1>6 DEF DeliveryHonest, Sound, HoldsAlert, At
<1> QED
  BY <1>3, <1>4, <1>6, <1>7, <1>8

-------------------------------------------------------------------------------
(***************************************************************************)
(* The records the loop writes, whatever the detection returned or raised, *)
(* are sound: no detection is then in progress.                            *)
(***************************************************************************)
LEMMA RestingRecords ==
  ASSUME IInv, NEW d \in Detectors
  PROVE  /\ Idle \in WorkerType /\ Sound(d, Idle)
         /\ Down \in WorkerType /\ Sound(d, Down)
         /\ Return(worker[d]) \in WorkerType /\ Sound(d, Return(worker[d]))
         /\ worker[d].app \in Apps =>
               /\ Answer(worker[d]) \in WorkerType /\ Sound(d, Answer(worker[d]))
               /\ \A s \in {"ok", "failed"} :
                     Raise(d, s) \in WorkerType /\ Sound(d, Raise(d, s))
<1> DEFINE W == worker[d]
<1>1. W \in WorkerType
  BY DEF IInv, TypeOK, WorkerTypeOK
<1>2. \A w : w.pc \in {"idle", "down", "sweep"} /\ w.attempt = 0 => Sound(d, w)
  BY DEF Sound, InProgress, NothingToDedup, HoldsAlert, Detecting, MaxAttempts
<1>3. /\ Idle \in WorkerType /\ Idle.pc = "idle" /\ Idle.attempt = 0
      /\ Down \in WorkerType /\ Down.pc = "down" /\ Down.attempt = 0
  <2>1. Idle \in WorkerType /\ Idle.pc = "idle" /\ Idle.attempt = 0
    BY DEF Idle, WorkerType, PCs, NoSeverity, MaxAttempts
  <2> QED BY <2>1 DEF Down, WorkerType, PCs
<1>4. /\ Return(W) \in WorkerType /\ Return(W).pc = "sweep" /\ Return(W).attempt = 0
  <2>1. 0 \in Nat /\ 0 \in 0..MaxAttempts
    BY DEF MaxAttempts
  <2> QED BY <1>1, <2>1, Zenon DEF Return, WorkerType, PCs
<1>5. ASSUME W.app \in Apps
      PROVE  /\ Answer(W) \in WorkerType /\ Answer(W).pc = "sweep" /\ Answer(W).attempt = 0
             /\ \A s \in {"ok", "failed"} :
                   /\ Raise(d, s) \in WorkerType
                   /\ Raise(d, s).pc \in {"sweep", "down"} /\ Raise(d, s).attempt = 0
  <2> HIDE DEF W
  <2>1. /\ Answer(W) \in WorkerType /\ Answer(W).pc = "sweep" /\ Answer(W).attempt = 0
    BY <1>4, <1>5 DEF Answer, WorkerType
  <2>2. ASSUME NEW s \in {"ok", "failed"}
        PROVE  LET R == [Return(W) EXCEPT !.session = s, !.bad = @ \cup {W.app}]
               IN  R \in WorkerType /\ R.pc = "sweep" /\ R.attempt = 0
    BY <1>4, <1>5 DEF WorkerType
  <2> QED BY <1>3, <2>1, <2>2 DEF Raise, W
<1> QED
  BY <1>2, <1>3, <1>4, <1>5

(***************************************************************************)
(* The steps of the loop and the signals around it keep the invariant.     *)
(***************************************************************************)
LEMMA LoopSteps ==
  ASSUME IInv, NEW d \in Detectors, UNCHANGED patchVars,
         SweepStep(d) \/ Stop(d) \/ Start(d)
  PROVE  IInv'
<1>1. worker[d] \in WorkerType /\ faults \in 0..MaxFaults /\ Sound(d, worker[d])
  BY DEF IInv, TypeOK, WorkerTypeOK
<1>2. CASE StartSweep(d)
  <2>1. PICK apps \in SUBSET Apps :
           worker' = [worker EXCEPT ![d] = [Idle EXCEPT !.pc = "sweep",
                                              !.snapshot = apps, !.todo = apps]]
    BY <1>2 DEF StartSweep
  <2> DEFINE w == [Idle EXCEPT !.pc = "sweep", !.snapshot = apps, !.todo = apps]
  <2>2. w \in WorkerType /\ Sound(d, w)
    <3>1. Idle \in WorkerType /\ Idle.attempt = 0
      BY RestingRecords DEF Idle
    <3>2. w \in WorkerType /\ w.pc = "sweep" /\ w.attempt = 0
      BY <3>1 DEF WorkerType, PCs
    <3> HIDE DEF w
    <3> QED BY <3>2 DEF Sound, InProgress, NothingToDedup, HoldsAlert, Detecting, MaxAttempts
  <2> QED BY <1>1, <1>2, <2>1, <2>2, WorkerMove DEF StartSweep
<1>3. CASE TakeApp(d)
  <2>1. PICK a \in worker[d].todo :
           worker' = [worker EXCEPT ![d].pc = "measure", ![d].app = a, ![d].todo = @ \ {a}]
    BY <1>3 DEF TakeApp
  <2> DEFINE w == [worker[d] EXCEPT !.pc = "measure", !.app = a, !.todo = @ \ {a}]
  <2>2. w \in WorkerType /\ Sound(d, w)
    BY <1>1, <1>3 DEF WorkerType, PCs, TakeApp, At, Sound, InProgress, NothingToDedup, HoldsAlert, Detecting
  <2>3. worker' = [worker EXCEPT ![d] = w]
    BY <2>1 DEF IInv, TypeOK, WorkerTypeOK
  <2> QED BY <1>1, <1>3, <2>2, <2>3, WorkerMove DEF TakeApp
<1>4. CASE EndSweep(d)
  BY <1>1, <1>4, WorkerMove, RestingRecords DEF EndSweep
<1>5. CASE Stop(d)
  <2> DEFINE w == [worker[d] EXCEPT !.stop = TRUE]
  <2>1. w \in WorkerType /\ Sound(d, w)
    BY <1>1 DEF WorkerType, Sound, InProgress, NothingToDedup, HoldsAlert, Detecting
  <2>2. worker' = [worker EXCEPT ![d] = IF At(d, "idle") THEN Down ELSE w]
    BY <1>5 DEF Stop
  <2> HIDE DEF w
  <2>3. CASE At(d, "idle")
    BY <1>1, <1>5, <2>2, <2>3, WorkerMove, RestingRecords DEF Stop
  <2>4. CASE ~At(d, "idle")
    BY <1>1, <1>5, <2>1, <2>2, <2>4, WorkerMove DEF Stop
  <2> QED BY <2>3, <2>4
<1>6. CASE Start(d)
  BY <1>1, <1>6, WorkerMove, RestingRecords DEF Start
<1> QED
  BY <1>2, <1>3, <1>4, <1>5, <1>6 DEF SweepStep

(***************************************************************************)
(* The steps of detect_drift_for_app keep the invariant; Dedup is where    *)
(* the condition that Insert relies on is established.                     *)
(***************************************************************************)
LEMMA DetectSteps ==
  ASSUME IInv, NEW d \in Detectors, UNCHANGED patchVars, DetectStep(d)
  PROVE  IInv'
<1>1. worker[d] \in WorkerType /\ faults \in 0..MaxFaults /\ Sound(d, worker[d])
  BY DEF IInv, TypeOK, WorkerTypeOK
<1>2. CASE Measure(d)
  <2> DEFINE s == severity_for(score[worker[d].app])
             w == [worker[d] EXCEPT !.pc = "dedup", !.sev = s]
  <2>1. worker' = [worker EXCEPT ![d] = IF s = NoSeverity THEN Answer(worker[d]) ELSE w]
    BY <1>2 DEF Measure
  <2>2. worker[d].app \in Apps
    BY <1>1, <1>2 DEF Measure, At, Sound, InProgress, NothingToDedup, HoldsAlert, Detecting
  <2>3. s \in Severities \cup {NoSeverity}
    BY SeverityRange
  <2> HIDE DEF s
  <2>4. s # NoSeverity => w \in WorkerType /\ Sound(d, w)
    BY <1>1, <1>2, <2>2, <2>3 DEF WorkerType, PCs, Measure, At,
                                          Sound, InProgress, NothingToDedup, HoldsAlert, Detecting
  <2> HIDE DEF w
  <2>5. CASE s = NoSeverity
    BY <1>1, <1>2, <2>1, <2>2, <2>5, WorkerMove, RestingRecords DEF Measure
  <2>6. CASE s # NoSeverity
    BY <1>1, <1>2, <2>1, <2>4, <2>6, WorkerMove DEF Measure
  <2> QED BY <2>5, <2>6
<1>3. CASE Dedup(d)
  <2> DEFINE w == [worker[d] EXCEPT !.pc = "insert"]
             dup == \E s \in OpenSeverities(worker[d].app) : s >= worker[d].sev
  <2>1. worker' = [worker EXCEPT ![d] = IF dup THEN Answer(worker[d]) ELSE w]
    BY <1>3 DEF Dedup
  <2>2. worker[d].app \in Apps /\ worker[d].sev \in Severities
    BY <1>1, <1>3 DEF Dedup, At, Sound, InProgress, NothingToDedup, HoldsAlert, Detecting
  <2>3. alerts \in Seq(AlertRow)
    BY DEF IInv, TypeOK
  <2>4. ~dup => \A i \in DOMAIN alerts :
                   alerts[i].app = worker[d].app /\ IsOpen(i) => alerts[i].sev < worker[d].sev
    <3> SUFFICES ASSUME ~dup, NEW i \in DOMAIN alerts,
                        alerts[i].app = worker[d].app, IsOpen(i)
                 PROVE  alerts[i].sev < worker[d].sev
      OBVIOUS
    <3>1. alerts[i].sev \in Severities
      <4>1. alerts[i] \in AlertRow
        BY <2>3
      <4> QED BY <4>1 DEF AlertRow
    <3>2. alerts[i].sev \in OpenSeverities(worker[d].app)
      BY DEF OpenSeverities
    <3> QED BY <2>2, <3>1, <3>2 DEF Severities
  <2> HIDE DEF dup
  <2>5. ~dup => w \in WorkerType /\ Sound(d, w)
    BY <1>1, <1>3, <2>2, <2>4 DEF WorkerType, PCs, Dedup, At,
                                          Sound, InProgress, NothingToDedup, HoldsAlert, Detecting
  <2> HIDE DEF w
  <2>6. CASE dup
    BY <1>1, <1>3, <2>1, <2>2, <2>6, WorkerMove, RestingRecords DEF Dedup
  <2>7. CASE ~dup
    BY <1>1, <1>3, <2>1, <2>5, <2>7, WorkerMove DEF Dedup
  <2> QED BY <2>6, <2>7
<1>4. CASE Insert(d)
  <2> DEFINE w == [worker[d] EXCEPT !.pc = "refresh", !.id = Len(alerts) + 1]
  <2>1. worker' = [worker EXCEPT ![d] = w]
    BY <1>4 DEF Insert, IInv, TypeOK, WorkerTypeOK
  <2>2. w \in WorkerType /\ InProgress(w)
    <3>1. Len(alerts) + 1 \in Nat
      BY DEF IInv, TypeOK
    <3>2. w \in WorkerType /\ w.pc = "refresh" /\ w.app = worker[d].app
          /\ w.sev = worker[d].sev /\ w.attempt = worker[d].attempt
      BY <1>1, <3>1, Zenon DEF WorkerType, PCs
    <3> QED BY <1>1, <1>4, <3>2 DEF Insert, At, Sound, InProgress, Detecting
  <2>3. w.pc = "refresh" /\ w.id = Len(alerts) + 1
    BY <1>1 DEF WorkerType
  <2> HIDE DEF w
  <2> QED BY <1>1, <1>4, <2>1, <2>2, <2>3, AlertAdded DEF Insert
<1>5. CASE Refresh(d)
  <2> DEFINE w == [worker[d] EXCEPT !.pc = "post"]
  <2>1. w \in WorkerType /\ Sound(d, w)
    BY <1>1, <1>5 DEF WorkerType, PCs, Refresh, At,
                      Sound, InProgress, NothingToDedup, HoldsAlert, Detecting
  <2>2. worker' = [worker EXCEPT ![d] = IF d \in Daemons THEN w ELSE Answer(worker[d])]
    BY <1>5 DEF Refresh
  <2>3. worker[d].app \in Apps
    BY <1>1, <1>5 DEF Refresh, At, Sound, InProgress, Detecting
  <2> HIDE DEF w
  <2>4. CASE d \in Daemons
    BY <1>1, <1>5, <2>1, <2>2, <2>4, WorkerMove DEF Refresh
  <2>5. CASE d \notin Daemons
    BY <1>1, <1>5, <2>2, <2>3, <2>5, WorkerMove, RestingRecords DEF Refresh
  <2> QED BY <2>4, <2>5
<1>6. CASE SessionRefuses(d)
  BY <1>1, <1>6, WorkerMove, RestingRecords DEF SessionRefuses
<1> QED
  BY <1>2, <1>3, <1>4, <1>5, <1>6 DEF DetectStep

(***************************************************************************)
(* The steps of dispatch_drift_alert keep the invariant: three attempts    *)
(* are counted before any of them can be a fourth.                         *)
(***************************************************************************)
LEMMA DispatchSteps ==
  ASSUME IInv, NEW d \in Detectors, UNCHANGED patchVars, DispatchStep(d)
  PROVE  IInv'
<1> DEFINE k == worker[d].id
<1>1. At(d, "post")
  BY DEF DispatchStep, SkipHook, PostAccepted, PostFailed
<1>2. worker[d] \in WorkerType /\ Sound(d, worker[d])
  BY DEF IInv, TypeOK, WorkerTypeOK
<1>3. /\ worker[d].app \in Apps /\ worker[d].attempt \in Nat
      /\ worker[d].attempt < MaxAttempts /\ InProgress(worker[d])
  BY <1>1, <1>2 DEF Sound, InProgress, At, WorkerType, MaxAttempts
<1>4. /\ k \in DOMAIN delivery /\ delivery[k] \in DeliveryType
      /\ delivery[k].outcome = "none" /\ delivery[k].received \in Nat
      /\ delivery[k].received <= worker[d].attempt
  <2>1. delivery \in Seq(DeliveryType) /\ alerts \in Seq(AlertRow) /\ Len(alerts) = Len(delivery)
    BY DEF IInv, TypeOK, WorkerTypeOK
  <2>2. k \in DOMAIN delivery
    BY <1>1, <1>2, <2>1 DEF Sound, HoldsAlert, At
  <2>3. delivery[k] \in DeliveryType
    BY <2>1, <2>2
  <2>4. delivery[k].outcome = "none" /\ delivery[k].received <= worker[d].attempt
    BY <1>1, <1>2 DEF Sound, HoldsAlert, At
  <2> QED BY <2>2, <2>3, <2>4 DEF DeliveryType
<1>5. /\ Answer(worker[d]) \in WorkerType /\ InProgress(Answer(worker[d]))
      /\ Answer(worker[d]).pc = "sweep"
  <2>1. Answer(worker[d]).pc = "sweep"
    BY <1>2 DEF Answer, Return, WorkerType
  <2> QED BY <1>3, <2>1, RestingRecords DEF Sound
<1>6. delivery \in Seq(DeliveryType)
  BY DEF IInv, TypeOK, WorkerTypeOK
<1>7. CASE SkipHook(d)
  <2> DEFINE o == [delivery[k] EXCEPT !.outcome = "skipped"]
  <2>1. worker[d].attempt = 0
    BY <1>3, <1>7 DEF SkipHook, InProgress
  <2>2. o \in DeliveryType /\ o.received = 0 /\ o.outcome = "skipped"
    BY <1>3, <1>4, <2>1 DEF DeliveryType, Outcomes
  <2>3. delivery' = [delivery EXCEPT ![k] = o]
    BY <1>4, <1>6, <1>7 DEF SkipHook
  <2>4. o.received <= MaxAttempts
    BY <2>2 DEF MaxAttempts
  <2> HIDE DEF o, k
  <2> QED BY <1>1, <1>5, <1>7, <2>2, <2>3, <2>4, DeliveryMove DEF SkipHook, k
<1>8. CASE PostAccepted(d)
  <2> DEFINE o == [outcome |-> "delivered", received |-> delivery[k].received + 1]
  <2>1. /\ o \in DeliveryType /\ o.received <= MaxAttempts /\ o.received >= 1
        /\ o.outcome = "delivered"
    BY <1>3, <1>4 DEF DeliveryType, Outcomes, MaxAttempts
  <2>2. delivery' = [delivery EXCEPT ![k] = o]
    BY <1>8 DEF PostAccepted
  <2> HIDE DEF o, k
  <2> QED BY <1>1, <1>5, <1>8, <2>1, <2>2, DeliveryMove DEF PostAccepted, k
<1>9. CASE PostFailed(d)
  <2> DEFINE last == LastAttempt(worker[d])
  <2>1. PICK arrived \in {0, 1} :
           delivery' = [delivery EXCEPT ![k] =
                          [outcome |-> IF last THEN "gaveup" ELSE @.outcome,
                           received |-> @.received + arrived]]
    BY <1>9 DEF PostFailed
  <2> DEFINE o == [outcome |-> IF last THEN "gaveup" ELSE delivery[k].outcome,
                   received |-> delivery[k].received + arrived]
             w == Retry(worker[d])
  <2>2. /\ o \in DeliveryType /\ o.received <= worker[d].attempt + 1
        /\ o.outcome \in {"none", "gaveup"} /\ (~last => o.outcome = "none")
    BY <1>3, <1>4 DEF DeliveryType, Outcomes, MaxAttempts
  <2>3. /\ w \in WorkerType /\ InProgress(w) /\ w.pc \in {"sweep", "post"}
        /\ w.pc = "post" => ~last /\ w.id = k /\ w.attempt = worker[d].attempt + 1
    <3>1. CASE last
      BY <1>5, <3>1 DEF Retry
    <3>2. CASE ~last
      <4>1. worker[d].attempt + 1 \in 0..MaxAttempts /\ worker[d].attempt + 1 < MaxAttempts
        BY <1>3, <3>2 DEF MaxAttempts, LastAttempt
      <4>2. /\ w \in WorkerType /\ w.pc = worker[d].pc /\ w.app = worker[d].app
            /\ w.sev = worker[d].sev /\ w.id = k /\ w.attempt = worker[d].attempt + 1
        BY <1>2, <3>2, <4>1 DEF WorkerType, Retry
      <4>3. HookConfigured
        BY <1>9 DEF PostFailed
      <4> HIDE DEF w
      <4> QED BY <1>1, <1>3, <3>2, <4>1, <4>2, <4>3 DEF InProgress, At
    <3> QED BY <3>1, <3>2
  <2>4. worker' = [worker EXCEPT ![d] = w]
    BY <1>9 DEF PostFailed
  <2>5. delivery' = [delivery EXCEPT ![k] = o]
    BY <2>1
  <2>6. o.received <= MaxAttempts
    BY <1>3, <2>2 DEF MaxAttempts, DeliveryType
  <2> HIDE DEF o, w, k, last
  <2> QED BY <1>1, <1>9, <2>2, <2>3, <2>4, <2>5, <2>6, DeliveryMove DEF PostFailed, k
<1> QED
  BY <1>7, <1>8, <1>9 DEF DispatchStep

(***************************************************************************)
(* Failing statements, exceptions and crashes keep the invariant: what the *)
(* detector forgets is the alert it holds, never a check it still relies   *)
(* on.                                                                     *)
(***************************************************************************)
LEMMA FaultSteps ==
  ASSUME IInv, NEW d \in Detectors, UNCHANGED patchVars,
         StatementFails(d) \/ DetectionRaises(d) \/ Crash(d)
  PROVE  IInv'
<1>1. worker[d] \in WorkerType /\ Sound(d, worker[d])
  BY DEF IInv, TypeOK, WorkerTypeOK
<1>2. faults' \in 0..MaxFaults
  BY MaxFaultsAssumption
     DEF IInv, TypeOK, WorkerTypeOK, StatementFails, DetectionRaises, Crash, Fault
<1>3. worker[d].pc \in Detecting => worker[d].app \in Apps
  BY <1>1 DEF Sound, InProgress
<1>4. CASE StatementFails(d)
  <2>1. worker' = [worker EXCEPT ![d] = Raise(d, "failed")]
    BY <1>4 DEF StatementFails
  <2>2. Raise(d, "failed") \in WorkerType /\ Sound(d, Raise(d, "failed"))
    BY <1>3, <1>4, RestingRecords DEF StatementFails
  <2>3. CASE UNCHANGED <<alerts, delivery>>
    BY <1>2, <1>4, <2>1, <2>2, <2>3, WorkerMove DEF StatementFails
  <2>4. CASE At(d, "insert") /\ AppendAlert(d)
    <3>1. Raise(d, "failed").pc \in {"sweep", "down"}
      BY <1>1 DEF Raise, Return, Down, Idle, WorkerType
    <3> QED BY <1>2, <1>4, <2>1, <2>2, <2>4, <3>1, AlertAdded DEF StatementFails, Sound
  <2> QED BY <1>4, <2>3, <2>4 DEF StatementFails
<1>5. CASE DetectionRaises(d)
  <2>1. Raise(d, "ok") \in WorkerType /\ Sound(d, Raise(d, "ok"))
    BY <1>3, <1>5, RestingRecords DEF DetectionRaises, Detecting
  <2> QED BY <1>2, <1>5, <2>1, WorkerMove DEF DetectionRaises
<1>6. CASE Crash(d)
  BY <1>2, <1>6, WorkerMove, RestingRecords DEF Crash
<1> QED
  BY <1>4, <1>5, <1>6

(***************************************************************************)
(* The PATCH handlers keep the invariant: they only close alerts, so they  *)
(* can only weaken what a detector has to look out for.                    *)
(***************************************************************************)
LEMMA LifecycleSteps ==
  ASSUME IInv, NEW r \in Requests, LifecycleNext(r), UNCHANGED workerVars
  PROVE  IInv'
<1> USE DEF IInv, workerVars
<1>1. alerts \in Seq(AlertRow) /\ WorkerTypeOK /\ LifecycleTypeOK
  BY DEF TypeOK
<1>2. CASE LoadAlert(r)
  <2>1. PICK i \in DOMAIN alerts, new \in NewStatuses :
           patch' = [patch EXCEPT ![r] =
                       [pc |-> "loaded", id |-> i, new |-> new,
                        status |-> alerts[i].status, resolved |-> alerts[i].resolved]]
    BY <1>2 DEF LoadAlert
  <2>2. alerts[i] \in AlertRow /\ i \in Nat
    BY <1>1
  <2>3. TypeOK'
    BY <1>1, <1>2, <2>1, <2>2, MaxPatchesAssumption
       DEF TypeOK, WorkerTypeOK, LifecycleTypeOK, LoadAlert, AlertRow
  <2>4. LoadedRows'
    BY <1>1, <1>2, <2>1 DEF LoadedRows, LoadAlert, LifecycleTypeOK, IsOpen
  <2>5. (\A d \in Detectors : Sound(d, worker[d]))'
    BY <1>2 DEF LoadAlert, Sound, InProgress, NothingToDedup, HoldsAlert, IsOpen
  <2>6. DedupPerDetector' /\ DeliveryHonest'
    BY <1>2 DEF LoadAlert, DedupPerDetector, DeliveryHonest, IsOpen, At
  <2> QED BY <1>2, <2>3, <2>4, <2>5, <2>6 DEF LoadAlert
<1>3. CASE CommitPatch(r)
  <2> DEFINE k == patch[r].id
             row == Patched(alerts[k], patch[r])
  <2>1. /\ k \in DOMAIN alerts /\ alerts[k] \in AlertRow
        /\ patch[r].status # "open" => ~IsOpen(k)
        /\ patch[r].new \in NewStatuses
    BY <1>1, <1>3 DEF LoadedRows, CommitPatch, LifecycleTypeOK
  <2>2. /\ row \in AlertRow /\ row.status # "open"
        /\ row.app = alerts[k].app /\ row.by = alerts[k].by /\ row.sev = alerts[k].sev
    BY <2>1 DEF Patched, AlertRow, Statuses, NewStatuses, IsOpen
  <2>3. alerts' = [alerts EXCEPT ![k] = row]
    BY <1>3 DEF CommitPatch
  <2> HIDE DEF row, k
  <2>4. /\ alerts' \in Seq(AlertRow) /\ DOMAIN alerts' = DOMAIN alerts
        /\ Len(alerts') = Len(alerts)
        /\ \A i \in DOMAIN alerts : alerts'[i] = IF i = k THEN row ELSE alerts[i]
    BY <1>1, <2>1, <2>2, <2>3
  <2>5. \A i \in DOMAIN alerts :
           /\ alerts'[i].app = alerts[i].app /\ alerts'[i].by = alerts[i].by
           /\ alerts'[i].sev = alerts[i].sev
           /\ alerts'[i].status = "open" => alerts[i].status = "open"
    BY <2>2, <2>4
  <2>6. TypeOK'
    BY <1>1, <1>3, <2>4
       DEF TypeOK, WorkerTypeOK, LifecycleTypeOK, CommitPatch, FreeRequest, NewStatuses, Statuses
  <2>7. LoadedRows'
    BY <1>1, <1>3, <2>4, <2>5 DEF LoadedRows, CommitPatch, LifecycleTypeOK, FreeRequest, IsOpen
  <2>8. (\A d \in Detectors : Sound(d, worker[d]))'
    BY <2>4, <2>5 DEF Sound, InProgress, NothingToDedup, HoldsAlert, IsOpen
  <2>9. DedupPerDetector' /\ DeliveryHonest'
    <3>1. DedupPerDetector'
      BY <2>4, <2>5 DEF DedupPerDetector, IsOpen
    <3>2. DeliveryHonest'
      BY <2>8 DEF DeliveryHonest, Sound, HoldsAlert, At
    <3> QED BY <3>1, <3>2
  <2> QED BY <2>4, <2>6, <2>7, <2>8, <2>9
<1>4. CASE AbortPatch(r)
  <2>1. TypeOK'
    BY <1>1, <1>4
       DEF TypeOK, WorkerTypeOK, LifecycleTypeOK, AbortPatch, FreeRequest, NewStatuses, Statuses
  <2>2. LoadedRows'
    BY <1>1, <1>4 DEF LoadedRows, AbortPatch, LifecycleTypeOK, FreeRequest, IsOpen
  <2>3. (\A d \in Detectors : Sound(d, worker[d]))'
    BY <1>4 DEF AbortPatch, Sound, InProgress, NothingToDedup, HoldsAlert, IsOpen
  <2>4. DedupPerDetector' /\ DeliveryHonest'
    BY <1>4 DEF AbortPatch, DedupPerDetector, DeliveryHonest, IsOpen, At
  <2> QED BY <1>4, <2>1, <2>2, <2>3, <2>4 DEF AbortPatch
<1> QED
  BY <1>2, <1>3, <1>4 DEF LifecycleNext

(***************************************************************************)
(* Every step keeps the inductive invariant.                               *)
(***************************************************************************)
LEMMA NextIInv == IInv /\ [Next]_vars => IInv'
<1> SUFFICES ASSUME IInv, [Next]_vars PROVE IInv'
  OBVIOUS
<1>1. ASSUME NEW d \in Detectors, Proceed(d), UNCHANGED patchVars
      PROVE  IInv'
  BY <1>1, LoopSteps, DetectSteps, DispatchSteps DEF Proceed
<1>2. ASSUME NEW d \in Detectors, Disturb(d), UNCHANGED patchVars
      PROVE  IInv'
  BY <1>2, LoopSteps, FaultSteps DEF Disturb
<1>3. ASSUME NEW a \in Apps, Drift(a), UNCHANGED patchVars
      PROVE  IInv'
  <2>1. TypeOK'
    BY <1>3 DEF Drift, patchVars, IInv, TypeOK, WorkerTypeOK, LifecycleTypeOK
  <2> QED BY <1>3, <2>1 DEF Drift, patchVars, IInv, LoadedRows, DedupPerDetector,
            DeliveryHonest, Sound, InProgress, NothingToDedup, HoldsAlert, IsOpen, At
<1>4. ASSUME NEW r \in Requests, LifecycleNext(r), UNCHANGED workerVars
      PROVE  IInv'
  BY <1>4, LifecycleSteps
<1>5. CASE UNCHANGED vars
  <2>1. TypeOK'
    BY <1>5 DEF vars, workerVars, patchVars, IInv, TypeOK, WorkerTypeOK, LifecycleTypeOK
  <2> QED BY <1>5, <2>1 DEF vars, workerVars, patchVars, IInv, LoadedRows, DedupPerDetector,
            DeliveryHonest, Sound, InProgress, NothingToDedup, HoldsAlert, IsOpen, At
<1> QED
  BY <1>1, <1>2, <1>3, <1>4, <1>5 DEF Next

(***************************************************************************)
(* The invariant holds throughout every behaviour.                         *)
(***************************************************************************)
THEOREM Invariance == Spec => []IInv
  BY InitIInv, NextIInv, PTL DEF Spec

(***************************************************************************)
(* Every variable keeps its type.                                          *)
(***************************************************************************)
THEOREM TypeCorrect == Spec => []TypeOK
<1>1. IInv => TypeOK
  BY DEF IInv
<1> QED BY <1>1, Invariance, PTL

(***************************************************************************)
(* However many detectors and PATCH handlers run, and whenever they crash, *)
(* no detector duplicates or undercuts an open alert of its own.           *)
(***************************************************************************)
THEOREM Dedup_Correct == Spec => []DedupPerDetector
<1>1. IInv => DedupPerDetector
  BY DEF IInv
<1> QED BY <1>1, Invariance, PTL

(***************************************************************************)
(* Whatever the receiver, the timeouts and the crashes do, an alert is     *)
(* posted at most three times and never reported delivered unsent.         *)
(***************************************************************************)
THEOREM Delivery_Honest == Spec => []DeliveryHonest
<1>1. IInv => DeliveryHonest
  BY DEF IInv
<1> QED BY <1>1, Invariance, PTL

-------------------------------------------------------------------------------
(***************************************************************************)
(* The only steps that touch the table: a detector's insert and a PATCH    *)
(* handler's UPDATE.                                                       *)
(***************************************************************************)
LEMMA TableSteps ==
  ASSUME [Next]_vars
  PROVE  \/ UNCHANGED alerts
         \/ \E d \in Detectors : At(d, "insert") /\ AppendAlert(d)
         \/ \E r \in Requests : CommitPatch(r)
<1>1. ASSUME NEW d \in Detectors, Proceed(d)
      PROVE  UNCHANGED alerts \/ (At(d, "insert") /\ AppendAlert(d))
  BY <1>1 DEF Proceed, SweepStep, StartSweep, TakeApp, EndSweep, DetectStep, Measure, Dedup,
     Insert, Refresh, SessionRefuses, DispatchStep, SkipHook, PostAccepted, PostFailed
<1>2. ASSUME NEW d \in Detectors, Disturb(d)
      PROVE  UNCHANGED alerts \/ (At(d, "insert") /\ AppendAlert(d))
  BY <1>2 DEF Disturb, Stop, Start, StatementFails, DetectionRaises, Crash
<1>3. ASSUME NEW a \in Apps, Drift(a) PROVE UNCHANGED alerts
  BY <1>3 DEF Drift
<1>4. ASSUME NEW r \in Requests, LifecycleNext(r)
      PROVE  UNCHANGED alerts \/ CommitPatch(r)
  BY <1>4 DEF LifecycleNext, LoadAlert, AbortPatch
<1> QED
  BY <1>1, <1>2, <1>3, <1>4 DEF Next, vars

(***************************************************************************)
(* What an UPDATE makes of its row: closed, and otherwise itself.          *)
(***************************************************************************)
LEMMA PatchCloses ==
  ASSUME IInv, NEW r \in Requests, CommitPatch(r)
  PROVE  \E k \in DOMAIN alerts, st \in NewStatuses, res \in BOOLEAN :
            /\ alerts[k] \in AlertRow
            /\ alerts' = [alerts EXCEPT ![k] = [alerts[k] EXCEPT !.status = st, !.resolved = res]]
<1> DEFINE k == patch[r].id
           row == Patched(alerts[k], patch[r])
<1>1. /\ k \in DOMAIN alerts /\ alerts[k] \in AlertRow
      /\ patch[r].status # "open" => ~IsOpen(k)
      /\ patch[r].new \in NewStatuses /\ patch[r].status \in Statuses
  BY DEF IInv, TypeOK, LifecycleTypeOK, LoadedRows, CommitPatch
<1>2. alerts[k].status \in Statuses /\ alerts[k].resolved \in BOOLEAN
  BY <1>1 DEF AlertRow
<1>3. PICK st \in NewStatuses, res \in BOOLEAN :
         row = [alerts[k] EXCEPT !.status = st, !.resolved = res]
  <2> DEFINE st == IF patch[r].new # patch[r].status THEN patch[r].new ELSE alerts[k].status
             res == IF patch[r].new = "resolved" THEN TRUE
                    ELSE IF patch[r].resolved THEN FALSE ELSE alerts[k].resolved
  <2>1. st \in NewStatuses
    BY <1>1, <1>2 DEF Statuses, NewStatuses, IsOpen
  <2>2. res \in BOOLEAN
    BY <1>2
  <2>3. row = [alerts[k] EXCEPT !.status = st, !.resolved = res]
    BY DEF Patched
  <2> HIDE DEF st, res
  <2> QED BY <2>1, <2>2, <2>3
<1>4. alerts' = [alerts EXCEPT ![k] = row]
  BY DEF CommitPatch
<1> QED
  BY <1>1, <1>3, <1>4

-------------------------------------------------------------------------------
(* Detectors that do not race *)

(***************************************************************************)
(* A detector is at its insert because it just read the open alerts, or    *)
(* was there already; then only another one can have appended meanwhile.   *)
(***************************************************************************)
LEMMA AtInsert ==
  ASSUME IInv, [Next]_vars, NEW e \in Detectors, At(e, "insert")'
  PROVE  /\ worker'[e].app = worker[e].app /\ worker'[e].sev = worker[e].sev
         /\ \/ Dedup(e) /\ ~\E s \in OpenSeverities(worker[e].app) : s >= worker[e].sev
            \/ At(e, "insert") /\ UNCHANGED alerts
            \/ At(e, "insert") /\ \E d \in Detectors \ {e} : At(d, "insert") /\ AppendAlert(d)
            \/ At(e, "insert") /\ \E r \in Requests : CommitPatch(r)
<1>1. /\ worker \in [Detectors -> WorkerType] /\ worker[e] \in WorkerType
      /\ worker'[e].pc = "insert"
  BY DEF IInv, TypeOK, WorkerTypeOK, At
<1>2. /\ Idle.pc = "idle" /\ Down.pc = "down" /\ Return(worker[e]).pc = "sweep"
      /\ Answer(worker[e]).pc = "sweep"
      /\ \A s \in {"ok", "failed"} : Raise(e, s).pc \in {"sweep", "down"}
  <2>1. Idle.pc = "idle" /\ Down.pc = "down"
    BY DEF Idle, Down
  <2>2. Return(worker[e]).pc = "sweep" /\ Answer(worker[e]).pc = "sweep"
    BY <1>1 DEF Return, Answer, WorkerType
  <2>3. \A s \in {"ok", "failed"} : Raise(e, s).pc \in {"sweep", "down"}
    BY <1>1, <2>1 DEF Raise, Return, WorkerType
  <2> QED BY <2>1, <2>2, <2>3
<1>3. ASSUME UNCHANGED worker
      PROVE  At(e, "insert") /\ worker'[e].app = worker[e].app /\ worker'[e].sev = worker[e].sev
  BY <1>1, <1>3 DEF At
<1>4. ASSUME NEW d \in Detectors, d # e, Proceed(d) \/ Disturb(d)
      PROVE  worker'[e] = worker[e]
  BY <1>1, <1>4 DEF Proceed, SweepStep, StartSweep, TakeApp, EndSweep, DetectStep, Measure, Dedup,
     Insert, Refresh, SessionRefuses, DispatchStep, SkipHook, PostAccepted, PostFailed,
     Disturb, Stop, Start, StatementFails, DetectionRaises, Crash
<1>5. ASSUME NEW d \in Detectors, d # e, Proceed(d) \/ Disturb(d)
      PROVE  UNCHANGED alerts \/ (At(d, "insert") /\ AppendAlert(d))
  BY <1>5 DEF Proceed, SweepStep, StartSweep, TakeApp, EndSweep, DetectStep, Measure, Dedup,
     Insert, Refresh, SessionRefuses, DispatchStep, SkipHook, PostAccepted, PostFailed,
     Disturb, Stop, Start, StatementFails, DetectionRaises, Crash
<1>6. ASSUME Proceed(e) \/ Disturb(e)
      PROVE  \/ Dedup(e)
             \/ UNCHANGED alerts /\ worker' = [worker EXCEPT ![e] = [@ EXCEPT !.stop = TRUE]]
  <2>1. ~SweepStep(e) /\ ~Start(e) /\ ~Crash(e)
    <3>1. ~StartSweep(e)
      BY <1>1 DEF StartSweep, Idle
    <3>2. ~TakeApp(e)
      <4> DEFINE w(a) == [worker[e] EXCEPT !.pc = "measure", !.app = a, !.todo = @ \ {a}]
      <4>1. TakeApp(e) => \E a : worker' = [worker EXCEPT ![e] = w(a)]
        BY <1>1 DEF TakeApp
      <4>2. \A a : w(a).pc = "measure"
        BY <1>1 DEF WorkerType
      <4> QED BY <1>1, <4>1, <4>2
    <3>3. ~EndSweep(e) /\ ~Start(e) /\ ~Crash(e)
      BY <1>1, <1>2 DEF EndSweep, Start, Crash
    <3> QED BY <3>1, <3>2, <3>3 DEF SweepStep
  <2>2. ~Measure(e) /\ ~SessionRefuses(e)
    BY <1>1, <1>2 DEF Measure, SessionRefuses, At, WorkerType
  <2>3. ~Insert(e) /\ ~Refresh(e)
    BY <1>1, <1>2 DEF Insert, Refresh, At, WorkerType
  <2>4. ~DispatchStep(e)
    BY <1>1, <1>2 DEF DispatchStep, SkipHook, PostAccepted, PostFailed, Retry, At, WorkerType
  <2>5. ~StatementFails(e) /\ ~DetectionRaises(e)
    BY <1>1, <1>2 DEF StatementFails, DetectionRaises
  <2>6. Stop(e) => UNCHANGED alerts /\ worker' = [worker EXCEPT ![e] = [@ EXCEPT !.stop = TRUE]]
    BY <1>1, <1>2 DEF Stop, At
  <2> QED BY <1>6, <2>1, <2>2, <2>3, <2>4, <2>5, <2>6 DEF Proceed, Disturb, DetectStep
<1>7. CASE Proceed(e) \/ Disturb(e)
  <2>1. CASE Dedup(e)
    <3> DEFINE dup == \E s \in OpenSeverities(worker[e].app) : s >= worker[e].sev
    <3>1. worker' = [worker EXCEPT ![e] = IF dup THEN Answer(worker[e])
                                          ELSE [worker[e] EXCEPT !.pc = "insert"]]
      BY <2>1 DEF Dedup
    <3> HIDE DEF dup
    <3>2. ~dup
      BY <1>1, <1>2, <3>1
    <3>3. worker'[e].app = worker[e].app /\ worker'[e].sev = worker[e].sev
      BY <1>1, <3>1, <3>2 DEF WorkerType
    <3> QED BY <2>1, <3>2, <3>3 DEF dup
  <2>2. CASE UNCHANGED alerts /\ worker' = [worker EXCEPT ![e] = [@ EXCEPT !.stop = TRUE]]
    BY <1>1, <2>2 DEF At, WorkerType
  <2> QED BY <1>6, <1>7, <2>1, <2>2
<1>8. CASE \E d \in Detectors \ {e} : Proceed(d) \/ Disturb(d)
  BY <1>1, <1>4, <1>5, <1>8 DEF At
<1>9. CASE \E a \in Apps : Drift(a)
  BY <1>3, <1>9 DEF Drift
<1>10. CASE \E r \in Requests : LifecycleNext(r) /\ UNCHANGED workerVars
  BY <1>3, <1>10 DEF LifecycleNext, LoadAlert, AbortPatch, workerVars
<1>11. CASE UNCHANGED vars
  BY <1>3, <1>11 DEF vars, workerVars
<1> QED
  BY <1>7, <1>8, <1>9, <1>10, <1>11 DEF Next

(***************************************************************************)
(* While no two detectors race for an application, what any of them read   *)
(* of its open alerts is still true when it inserts: the others can only   *)
(* have closed some.                                                       *)
(***************************************************************************)
FreshAnswer(d) ==
    At(d, "insert") =>
        \A i \in DOMAIN alerts :
            alerts[i].app = worker[d].app /\ IsOpen(i) => alerts[i].sev < worker[d].sev

SerialInv == IInv /\ DedupAcrossDetectors /\ \A d \in Detectors : FreshAnswer(d)

LEMMA NextSerialInv == SerialInv /\ OneInserting /\ [Next]_vars => SerialInv'
<1> SUFFICES ASSUME SerialInv, OneInserting, [Next]_vars PROVE SerialInv'
  OBVIOUS
<1>1. IInv /\ IInv'
  BY NextIInv DEF SerialInv
<1>2. alerts \in Seq(AlertRow)
  BY <1>1 DEF IInv, TypeOK
<1>3. ASSUME NEW k \in DOMAIN alerts, NEW st \in NewStatuses, NEW res \in BOOLEAN,
             alerts[k] \in AlertRow,
             alerts' = [alerts EXCEPT ![k] = [alerts[k] EXCEPT !.status = st, !.resolved = res]]
      PROVE  /\ DOMAIN alerts' = DOMAIN alerts
             /\ \A i \in DOMAIN alerts :
                   /\ alerts'[i].app = alerts[i].app /\ alerts'[i].sev = alerts[i].sev
                   /\ IsOpen(i)' => IsOpen(i)
  BY <1>2, <1>3 DEF AlertRow, NewStatuses, IsOpen
<1>4. ASSUME NEW r \in Requests, CommitPatch(r)
      PROVE  /\ DOMAIN alerts' = DOMAIN alerts
             /\ \A i \in DOMAIN alerts :
                   /\ alerts'[i].app = alerts[i].app /\ alerts'[i].sev = alerts[i].sev
                   /\ IsOpen(i)' => IsOpen(i)
  BY <1>1, <1>3, <1>4, PatchCloses
<1>5. ASSUME NEW d \in Detectors, At(d, "insert"), AppendAlert(d)
      PROVE  LET n == Len(alerts) + 1
             IN  /\ DOMAIN alerts = 1..Len(alerts) /\ DOMAIN alerts' = DOMAIN alerts \cup {n}
                 /\ \A i \in DOMAIN alerts : alerts'[i] = alerts[i]
                 /\ alerts'[n].app = worker[d].app /\ alerts'[n].sev = worker[d].sev
  BY <1>2, <1>5 DEF AppendAlert, NewAlert
<1>6. DedupAcrossDetectors'
  <2>1. CASE UNCHANGED alerts
    BY <2>1 DEF SerialInv, DedupAcrossDetectors, IsOpen
  <2>2. ASSUME NEW d \in Detectors, At(d, "insert"), AppendAlert(d)
        PROVE  DedupAcrossDetectors'
    BY <1>5, <2>2 DEF SerialInv, DedupAcrossDetectors, FreshAnswer, IsOpen
  <2>3. ASSUME NEW r \in Requests, CommitPatch(r)
        PROVE  DedupAcrossDetectors'
    BY <1>4, <2>3 DEF SerialInv, DedupAcrossDetectors
  <2> QED BY <2>1, <2>2, <2>3, TableSteps
<1>7. ASSUME NEW e \in Detectors, At(e, "insert")'
      PROVE  FreshAnswer(e)'
  <2>1. /\ worker'[e].app = worker[e].app /\ worker'[e].sev = worker[e].sev
        /\ worker[e] \in WorkerType
    BY <1>1, <1>7, AtInsert DEF IInv, TypeOK, WorkerTypeOK
  <2>2. CASE Dedup(e) /\ ~\E s \in OpenSeverities(worker[e].app) : s >= worker[e].sev
    <3>1. UNCHANGED alerts /\ worker[e].sev \in Severities
      BY <1>1, <2>2 DEF Dedup, At, IInv, Sound, InProgress
    <3> SUFFICES ASSUME NEW i \in DOMAIN alerts, alerts[i].app = worker[e].app, IsOpen(i)
                 PROVE  alerts[i].sev < worker[e].sev
      BY <2>1, <3>1 DEF FreshAnswer, IsOpen
    <3>2. alerts[i] \in AlertRow /\ alerts[i].sev \in OpenSeverities(worker[e].app)
      BY <1>2 DEF OpenSeverities
    <3>3. alerts[i].sev \in Severities
      BY <3>2 DEF AlertRow
    <3> QED BY <2>2, <3>1, <3>2, <3>3 DEF Severities
  <2>3. CASE At(e, "insert") /\ UNCHANGED alerts
    BY <2>1, <2>3 DEF SerialInv, FreshAnswer, IsOpen
  <2>4. ASSUME At(e, "insert"), NEW d \in Detectors \ {e}, At(d, "insert"), AppendAlert(d)
        PROVE  FreshAnswer(e)'
    <3>1. worker[d].app # worker[e].app
      BY <2>4 DEF OneInserting
    <3> QED BY <1>5, <2>1, <2>4, <3>1 DEF SerialInv, FreshAnswer, IsOpen
  <2>5. ASSUME At(e, "insert"), NEW r \in Requests, CommitPatch(r)
        PROVE  FreshAnswer(e)'
    BY <1>4, <2>1, <2>5 DEF SerialInv, FreshAnswer
  <2> QED BY <1>1, <1>7, <2>2, <2>3, <2>4, <2>5, AtInsert
<1> QED
  <2>1. \A e \in Detectors : FreshAnswer(e)'
    BY <1>7 DEF FreshAnswer
  <2> QED BY <1>1, <1>6, <2>1 DEF SerialInv

(***************************************************************************)
(* The docstring of drift_detector.py is right, whoever runs it and        *)
(* however often, as long as no two detectors stand between the dedup      *)
(* query and the insert for the same application: that race is all that    *)
(* can put a second open alert beside one of the same or a higher severity. *)
(***************************************************************************)
THEOREM Serial_Dedup == Spec /\ []OneInserting => []DedupAcrossDetectors
<1>1. Init => SerialInv
  <2>1. ASSUME Init PROVE IInv /\ DOMAIN alerts = {}
    BY <2>1, InitIInv DEF Init
  <2> QED BY <2>1 DEF SerialInv, DedupAcrossDetectors, FreshAnswer
<1>2. SerialInv => DedupAcrossDetectors
  BY DEF SerialInv
<1> QED BY <1>1, <1>2, NextSerialInv, PTL DEF Spec

(***************************************************************************)
(* So with a single detector process it is right.                          *)
(***************************************************************************)
COROLLARY SoleDetector_Dedup ==
  ASSUME \A d, e \in Detectors : d = e
  PROVE  Spec => []DedupAcrossDetectors
<1>1. OneInserting
  BY DEF OneInserting
<1> QED BY <1>1, Serial_Dedup, PTL

-------------------------------------------------------------------------------
(***************************************************************************)
(* No alert is ever opened again, removed, or changed but for its          *)
(* lifecycle columns.                                                      *)
(***************************************************************************)
THEOREM Never_Reopened == Spec => NoReopen
<1> DEFINE A == \A i \in DOMAIN alerts :
                  /\ i \in DOMAIN alerts'
                  /\ \A f \in {"app", "sev", "by"} : alerts'[i][f] = alerts[i][f]
                  /\ alerts'[i].status = "open" => IsOpen(i)
<1>1. ASSUME IInv, [Next]_vars PROVE A
  <2>1. alerts \in Seq(AlertRow)
    BY <1>1 DEF IInv, TypeOK
  <2>2. CASE UNCHANGED alerts
    BY <2>2 DEF IsOpen
  <2>3. ASSUME NEW d \in Detectors, AppendAlert(d) PROVE A
    <3>1. \A i \in DOMAIN alerts : i \in DOMAIN alerts' /\ alerts'[i] = alerts[i]
      BY <2>1, <2>3 DEF AppendAlert
    <3> QED BY <3>1 DEF IsOpen
  <2>4. ASSUME NEW r \in Requests, CommitPatch(r) PROVE A
    <3>1. PICK k \in DOMAIN alerts, st \in NewStatuses, res \in BOOLEAN :
             /\ alerts[k] \in AlertRow
             /\ alerts' = [alerts EXCEPT ![k] = [alerts[k] EXCEPT !.status = st, !.resolved = res]]
      BY <1>1, <2>4, PatchCloses
    <3> DEFINE row == [alerts[k] EXCEPT !.status = st, !.resolved = res]
    <3>2. /\ row.app = alerts[k].app /\ row.sev = alerts[k].sev /\ row.by = alerts[k].by
          /\ row.status # "open"
      BY <3>1 DEF AlertRow, NewStatuses
    <3>3. \A f \in {"app", "sev", "by"} : row[f] = alerts[k][f]
      BY <3>2
    <3>4. /\ DOMAIN alerts' = DOMAIN alerts
          /\ \A i \in DOMAIN alerts : alerts'[i] = IF i = k THEN row ELSE alerts[i]
      BY <3>1
    <3> HIDE DEF row
    <3> QED BY <3>2, <3>3, <3>4 DEF IsOpen
  <2> QED BY <1>1, <2>2, <2>3, <2>4, TableSteps
<1> QED
  BY <1>1, Invariance, PTL DEF Spec, NoReopen

(***************************************************************************)
(* The table implements the abstract ledger: reading and inserting in two  *)
(* statements looks, to every observer of the table, like one atomic       *)
(* check-and-add per detector.                                             *)
(***************************************************************************)
THEOREM Refines_Ledger == Spec => RefinesLedger
<1>1. Init => Ledger!Init
  BY DEF Init, Ledger!Init
<1>2. ASSUME IInv, [Next]_vars
      PROVE  [Ledger!Next]_alerts
  <2>1. ASSUME NEW d \in Detectors, At(d, "insert"), AppendAlert(d)
        PROVE  Ledger!Next
    <3>1. Sound(d, worker[d])
      BY <1>2 DEF IInv
    <3>2. worker[d].app \in Apps /\ worker[d].sev \in Ledger!Severities
      BY <2>1, <3>1 DEF Sound, InProgress, At, Detecting, Severities, Ledger!Severities
    <3>3. Ledger!Raise(d, worker[d].app, worker[d].sev)
      BY <2>1, <3>1
         DEF Ledger!Raise, AppendAlert, NewAlert, Sound, NothingToDedup, At, IsOpen
    <3> QED BY <3>2, <3>3 DEF Ledger!Next
  <2>2. ASSUME NEW r \in Requests, CommitPatch(r)
        PROVE  Ledger!Next
    <3>1. PICK k \in DOMAIN alerts, st \in NewStatuses, res \in BOOLEAN :
             /\ alerts[k] \in AlertRow
             /\ alerts' = [alerts EXCEPT ![k] = [alerts[k] EXCEPT !.status = st, !.resolved = res]]
      BY <1>2, <2>2, PatchCloses
    <3>2. Ledger!Close(k)
      BY <3>1 DEF Ledger!Close, NewStatuses
    <3> QED BY <3>2 DEF Ledger!Next
  <2> QED BY <1>2, <2>1, <2>2, TableSteps
<1> QED
  BY <1>1, <1>2, Invariance, PTL DEF Spec, RefinesLedger, Ledger!Spec

(***************************************************************************)
(* While no two PATCH requests are at one alert, the row a request loaded  *)
(* is the row it updates.                                                  *)
(***************************************************************************)
LoadedFresh ==
    \A r \in Requests : patch[r].pc = "loaded" =>
        /\ patch[r].status = alerts[patch[r].id].status
        /\ patch[r].resolved = alerts[patch[r].id].resolved

(***************************************************************************)
(* drift_alert.py:47 is right whenever no two PATCH requests overlap on    *)
(* one alert: resolved_at is set exactly on the resolved alerts, whichever *)
(* transitions are asked for, and whatever requests for other alerts do.   *)
(***************************************************************************)
THEOREM Serial_ResolvedAt == Spec /\ []OnePatching => []ResolvedAtMatchesStatus
<1> DEFINE RInv == ResolvedAtMatchesStatus /\ LoadedFresh
<1>1. Init => RInv
  BY DEF Init, LifecycleInit, FreeRequest, ResolvedAtMatchesStatus, LoadedFresh
<1>2. ASSUME IInv, OnePatching, RInv, [Next]_vars
      PROVE  RInv'
  <2>1. /\ alerts \in Seq(AlertRow) /\ LifecycleTypeOK /\ LoadedRows
    BY <1>2 DEF IInv, TypeOK
  <2>2. CASE UNCHANGED <<alerts, patch>>
    BY <1>2, <2>2 DEF ResolvedAtMatchesStatus, LoadedFresh
  <2>3. ASSUME NEW d \in Detectors, AppendAlert(d), UNCHANGED patchVars PROVE RInv'
    <3> DEFINE new == NewAlert(worker[d].app, worker[d].sev, d)
    <3>1. alerts' = Append(alerts, new) /\ new.status = "open" /\ new.resolved = FALSE
      BY <2>3 DEF AppendAlert, NewAlert
    <3> HIDE DEF new
    <3>2. /\ DOMAIN alerts' = 1..(Len(alerts) + 1)
          /\ \A i \in DOMAIN alerts' : i \in DOMAIN alerts \/ i = Len(alerts) + 1
          /\ \A i \in DOMAIN alerts : alerts'[i] = alerts[i]
          /\ alerts'[Len(alerts) + 1] = new
      BY <2>1, <3>1
    <3>3. ResolvedAtMatchesStatus'
      BY <1>2, <3>1, <3>2 DEF ResolvedAtMatchesStatus
    <3>4. LoadedFresh'
      BY <1>2, <2>1, <2>3, <3>2 DEF LoadedFresh, LoadedRows, patchVars
    <3> QED BY <3>3, <3>4
  <2>4. ASSUME NEW r \in Requests, LoadAlert(r) PROVE RInv'
    <3>1. ResolvedAtMatchesStatus'
      BY <1>2, <2>4 DEF ResolvedAtMatchesStatus, LoadAlert
    <3>2. PICK i \in DOMAIN alerts, n \in NewStatuses :
             patch' = [patch EXCEPT ![r] =
                         [pc |-> "loaded", id |-> i, new |-> n,
                          status |-> alerts[i].status, resolved |-> alerts[i].resolved]]
      BY <2>4 DEF LoadAlert
    <3>3. LoadedFresh'
      BY <1>2, <2>1, <2>4, <3>2 DEF LoadedFresh, LoadAlert, LifecycleTypeOK
    <3> QED BY <3>1, <3>3
  <2>5. ASSUME NEW r \in Requests, CommitPatch(r) PROVE RInv'
    <3> DEFINE k == patch[r].id
               row == Patched(alerts[k], patch[r])
    <3>1. /\ k \in DOMAIN alerts /\ alerts[k] \in AlertRow
          /\ patch[r].status = alerts[k].status /\ patch[r].resolved = alerts[k].resolved
          /\ patch[r].new \in NewStatuses
      BY <1>2, <2>1, <2>5 DEF LoadedFresh, LoadedRows, CommitPatch, LifecycleTypeOK
    <3>2. row.resolved <=> row.status = "resolved"
      BY <3>1 DEF Patched, AlertRow, NewStatuses
    <3>3. /\ DOMAIN alerts' = DOMAIN alerts
          /\ \A i \in DOMAIN alerts : alerts'[i] = IF i = k THEN row ELSE alerts[i]
      BY <2>5, <3>1 DEF CommitPatch
    <3>4. \A q \in Requests : patch'[q].pc = "loaded" =>
             /\ patch[q].pc = "loaded" /\ patch'[q] = patch[q]
             /\ patch[q].id \in DOMAIN alerts /\ patch[q].id # k
      BY <1>2, <2>1, <2>5 DEF CommitPatch, FreeRequest, LifecycleTypeOK, LoadedRows, OnePatching
    <3> HIDE DEF row, k
    <3>5. ResolvedAtMatchesStatus'
      BY <1>2, <3>2, <3>3 DEF ResolvedAtMatchesStatus
    <3>6. LoadedFresh'
      BY <1>2, <3>3, <3>4 DEF LoadedFresh
    <3> QED BY <3>5, <3>6
  <2>6. ASSUME NEW r \in Requests, AbortPatch(r) PROVE RInv'
    <3>1. \A q \in Requests : patch'[q].pc = "loaded" => patch'[q] = patch[q]
      BY <2>1, <2>6 DEF AbortPatch, FreeRequest, LifecycleTypeOK
    <3> QED BY <1>2, <2>6, <3>1 DEF AbortPatch, ResolvedAtMatchesStatus, LoadedFresh
  <2>7. ASSUME NEW r \in Requests, LifecycleNext(r) PROVE RInv'
    BY <2>4, <2>5, <2>6, <2>7 DEF LifecycleNext
  <2> HIDE DEF RInv
  <2>8. ASSUME \/ \E d \in Detectors : (Proceed(d) \/ Disturb(d)) /\ UNCHANGED patchVars
               \/ \E a \in Apps : Drift(a) /\ UNCHANGED patchVars
        PROVE  RInv'
    <3>1. /\ UNCHANGED patchVars
          /\ \/ UNCHANGED alerts
             \/ \E d \in Detectors : At(d, "insert") /\ AppendAlert(d)
             \/ \E r \in Requests : CommitPatch(r)
      BY <2>8, TableSteps DEF Next
    <3>2. \A r \in Requests : CommitPatch(r) => patch'[r].pc = "free" /\ patch[r].pc = "loaded"
      BY <2>1 DEF CommitPatch, LifecycleTypeOK, FreeRequest
    <3> QED BY <2>2, <2>3, <3>1, <3>2 DEF patchVars
  <2> QED BY <1>2, <2>2, <2>7, <2>8 DEF Next, vars, workerVars, patchVars
<1>3. RInv => ResolvedAtMatchesStatus
  OBVIOUS
<1> QED
  BY <1>1, <1>2, <1>3, Invariance, PTL DEF Spec

(***************************************************************************)
(* So it is when the API answers one PATCH request at a time.              *)
(***************************************************************************)
COROLLARY OneAtATime_ResolvedAt ==
  ASSUME \A r, q \in Requests : r = q
  PROVE  Spec => []ResolvedAtMatchesStatus
<1>1. OnePatching
  BY DEF OnePatching
<1> QED BY <1>1, Serial_ResolvedAt, PTL

-------------------------------------------------------------------------------
(***************************************************************************)
(* While the table keeps its rows, a step of detector d can only lose the  *)
(* webhook of the alert that d has in hand, here said to be in S.          *)
(***************************************************************************)
LEMMA UnsentFrame ==
  ASSUME IInv, NEW d \in Detectors, NEW w, NEW S,
         worker' = [worker EXCEPT ![d] = w],
         DOMAIN alerts' = DOMAIN alerts,
         \A i \in DOMAIN alerts : alerts'[i].by = alerts[i].by,
         \A i \in DOMAIN alerts :
             delivery'[i].outcome = "none" => delivery[i].outcome = "none",
         worker[d].pc \in {"refresh", "post"} /\ d \in Daemons =>
             \/ w.pc \in {"refresh", "post"} /\ w.id = worker[d].id
             \/ worker[d].id \in S
             \/ delivery'[worker[d].id].outcome # "none"
  PROVE  Unsent' \subseteq Unsent \cup S
<1> SUFFICES ASSUME NEW i \in Unsent', i \notin S PROVE i \in Unsent
  OBVIOUS
<1>1. \A e \in Detectors : worker'[e] = IF e = d THEN w ELSE worker[e]
  BY DEF IInv, TypeOK, WorkerTypeOK
<1>2. /\ i \in DOMAIN alerts /\ alerts[i].by \in Daemons
      /\ delivery'[i].outcome = "none" /\ delivery[i].outcome = "none" /\ ~InHand(i)'
  BY DEF Unsent
<1>3. ASSUME NEW e \in Daemons, worker[e].pc \in {"refresh", "post"}, worker[e].id = i
      PROVE  FALSE
  <2>1. e \in Detectors
    BY DaemonsAssumption
  <2>2. CASE e = d
    BY <1>1, <1>2, <1>3, <2>1, <2>2 DEF InHand
  <2>3. CASE e # d
    BY <1>1, <1>2, <1>3, <2>1, <2>3 DEF InHand
  <2> QED BY <2>2, <2>3
<1> QED
  BY <1>2, <1>3 DEF Unsent, InHand

(***************************************************************************)
(* An alert added by d is unsent only if it is in nobody's hands.          *)
(***************************************************************************)
LEMMA UnsentAdded ==
  ASSUME IInv, NEW d \in Detectors, At(d, "insert"), AppendAlert(d),
         NEW w, worker' = [worker EXCEPT ![d] = w]
  PROVE  /\ Unsent' \subseteq Unsent \cup {Len(alerts) + 1}
         /\ w.pc = "refresh" /\ w.id = Len(alerts) + 1 => Unsent' \subseteq Unsent
<1> DEFINE n == Len(alerts) + 1
<1>1. \A e \in Detectors : worker'[e] = IF e = d THEN w ELSE worker[e]
  BY DEF IInv, TypeOK, WorkerTypeOK
<1>2. /\ alerts \in Seq(AlertRow) /\ delivery \in Seq(DeliveryType)
      /\ Len(delivery) = Len(alerts)
  BY DEF IInv, TypeOK, WorkerTypeOK
<1>3. /\ \A i \in DOMAIN alerts' : i \in DOMAIN alerts \/ i = n
      /\ \A i \in DOMAIN alerts : alerts'[i] = alerts[i] /\ delivery'[i] = delivery[i]
      /\ alerts'[n].by = d
  <2> DEFINE new == NewAlert(worker[d].app, worker[d].sev, d)
             sent == [outcome |-> "none", received |-> 0]
  <2>1. alerts' = Append(alerts, new) /\ delivery' = Append(delivery, sent) /\ new.by = d
    BY DEF AppendAlert, NewAlert
  <2> HIDE DEF new, sent
  <2> QED BY <1>2, <2>1
<1>4. ASSUME NEW i \in Unsent', i # n PROVE i \in Unsent
  <2>1. /\ i \in DOMAIN alerts /\ alerts[i].by \in Daemons
        /\ delivery[i].outcome = "none" /\ ~InHand(i)'
    BY <1>3, <1>4 DEF Unsent
  <2>2. ~InHand(i)
    BY <1>1, <2>1, DaemonsAssumption DEF InHand, At
  <2> QED BY <2>1, <2>2 DEF Unsent
<1>5. ASSUME w.pc = "refresh", w.id = n, NEW m \in Unsent', m = n PROVE FALSE
  <2>1. d \in Daemons /\ ~InHand(m)'
    BY <1>3, <1>5 DEF Unsent
  <2> QED BY <1>1, <1>5, <2>1 DEF InHand
<1> QED
  BY <1>4, <1>5

(***************************************************************************)
(* A step without a fault loses no webhook.                                *)
(***************************************************************************)
LEMMA CarefulSteps ==
  ASSUME IInv, NEW d \in Detectors, Proceed(d) \/ Stop(d) \/ Start(d)
  PROVE  Unsent' \subseteq Unsent /\ faults' = faults
<1>1. /\ worker[d] \in WorkerType /\ worker \in [Detectors -> WorkerType]
      /\ alerts \in Seq(AlertRow) /\ delivery \in Seq(DeliveryType)
      /\ Len(delivery) = Len(alerts)
  BY DEF IInv, TypeOK, WorkerTypeOK
<1>2. ASSUME NEW w, worker' = [worker EXCEPT ![d] = w], UNCHANGED <<alerts, delivery>>,
             worker[d].pc \in {"refresh", "post"} /\ d \in Daemons =>
                 w.pc \in {"refresh", "post"} /\ w.id = worker[d].id
      PROVE  Unsent' \subseteq Unsent
  <2>1. Unsent' \subseteq Unsent \cup {}
    BY <1>2, UnsentFrame
  <2> QED BY <2>1
<1>3. CASE StartSweep(d) \/ TakeApp(d) \/ EndSweep(d) \/ Start(d) \/ Measure(d) \/ Dedup(d)
           \/ SessionRefuses(d)
  <2>1. /\ worker[d].pc \notin {"refresh", "post"} /\ UNCHANGED <<alerts, delivery, faults>>
        /\ worker' = [worker EXCEPT ![d] = worker'[d]]
    BY <1>1, <1>3 DEF StartSweep, TakeApp, EndSweep, Start, Measure, Dedup, SessionRefuses, At
  <2> QED BY <1>2, <2>1
<1>4. CASE Stop(d)
  <2>1. /\ UNCHANGED <<alerts, delivery, faults>> /\ worker' = [worker EXCEPT ![d] = worker'[d]]
    BY <1>1, <1>4 DEF Stop
  <2>2. worker[d].pc # "idle" =>
           worker'[d].pc = worker[d].pc /\ worker'[d].id = worker[d].id
    <3>1. worker'[d] = IF At(d, "idle") THEN Down ELSE [worker[d] EXCEPT !.stop = TRUE]
      BY <1>1, <1>4 DEF Stop
    <3> QED BY <1>1, <3>1 DEF At, WorkerType
  <2> QED BY <1>2, <2>1, <2>2
<1>5. CASE Insert(d)
  <2> DEFINE w == [worker[d] EXCEPT !.pc = "refresh", !.id = Len(alerts) + 1]
  <2>1. worker' = [worker EXCEPT ![d] = w]
    BY <1>1, <1>5 DEF Insert
  <2>2. w.pc = "refresh" /\ w.id = Len(alerts) + 1
    BY <1>1 DEF WorkerType
  <2> HIDE DEF w
  <2> QED BY <1>5, <2>1, <2>2, UnsentAdded DEF Insert
<1>6. CASE Refresh(d)
  <2>1. /\ UNCHANGED <<alerts, delivery, faults>> /\ worker' = [worker EXCEPT ![d] = worker'[d]]
        /\ d \in Daemons => worker'[d] = [worker[d] EXCEPT !.pc = "post"]
    BY <1>1, <1>6 DEF Refresh
  <2>2. d \in Daemons => worker'[d].pc = "post" /\ worker'[d].id = worker[d].id
    BY <1>1, <2>1 DEF WorkerType
  <2> QED BY <1>2, <2>1, <2>2
<1>7. CASE DispatchStep(d)
  <2> DEFINE k == worker[d].id
             o == delivery'[k]
  <2>1. k \in DOMAIN delivery /\ delivery[k].outcome = "none"
    BY <1>1, <1>7
       DEF IInv, Sound, HoldsAlert, DispatchStep, SkipHook, PostAccepted, PostFailed, At
  <2>2. /\ UNCHANGED <<alerts, faults>> /\ worker' = [worker EXCEPT ![d] = worker'[d]]
        /\ delivery' = [delivery EXCEPT ![k] = o]
    BY <1>1, <1>7, <2>1 DEF DispatchStep, SkipHook, PostAccepted, PostFailed
  <2>3. o.outcome = "none" => worker'[d].pc = worker[d].pc /\ worker'[d].id = k
    <3>1. CASE SkipHook(d) \/ PostAccepted(d)
      <4>1. delivery[k] \in DeliveryType
        BY <1>1, <2>1
      <4> QED BY <1>1, <2>1, <3>1, <4>1 DEF SkipHook, PostAccepted, DeliveryType
    <3>2. CASE PostFailed(d)
      <4>1. o.outcome = IF LastAttempt(worker[d]) THEN "gaveup" ELSE delivery[k].outcome
        BY <1>1, <2>1, <3>2 DEF PostFailed
      <4>2. worker'[d] = Retry(worker[d])
        BY <1>1, <3>2 DEF PostFailed
      <4> QED BY <1>1, <4>1, <4>2 DEF Retry, WorkerType
    <3> QED BY <1>7, <3>1, <3>2 DEF DispatchStep
  <2>4. \A i \in DOMAIN alerts : delivery'[i].outcome = "none" => delivery[i].outcome = "none"
    BY <1>1, <2>1, <2>2
  <2> HIDE DEF o, k
  <2>5. Unsent' \subseteq Unsent \cup {}
    BY <2>2, <2>3, <2>4, UnsentFrame DEF o, k
  <2> QED BY <2>2, <2>5
<1> QED
  BY <1>3, <1>4, <1>5, <1>6, <1>7 DEF Proceed, SweepStep, DetectStep

(***************************************************************************)
(* A fault loses at most one webhook, that of the alert in hand.           *)
(***************************************************************************)
LEMMA FaultySteps ==
  ASSUME IInv, NEW d \in Detectors, StatementFails(d) \/ DetectionRaises(d) \/ Crash(d)
  PROVE  (\E x : Unsent' \subseteq Unsent \cup {x}) /\ faults' = faults + 1
<1>1. faults' = faults + 1
  BY DEF StatementFails, DetectionRaises, Crash, Fault
<1>2. worker' = [worker EXCEPT ![d] = worker'[d]]
  BY DEF IInv, TypeOK, WorkerTypeOK, StatementFails, DetectionRaises, Crash
<1>3. CASE UNCHANGED <<alerts, delivery>>
  <2> DEFINE k == worker[d].id
             w == worker'[d]
  <2>1. worker[d].id \in {k}
    OBVIOUS
  <2> HIDE DEF k, w
  <2>2. Unsent' \subseteq Unsent \cup {k}
    BY <1>2, <1>3, <2>1, UnsentFrame DEF w
  <2> QED BY <1>1, <2>2
<1>4. CASE At(d, "insert") /\ AppendAlert(d)
  <2>1. Unsent' \subseteq Unsent \cup {Len(alerts) + 1}
    BY <1>2, <1>4, UnsentAdded
  <2> QED BY <1>1, <2>1
<1> QED
  BY <1>3, <1>4 DEF StatementFails, DetectionRaises, Crash

(***************************************************************************)
(* Over a whole behaviour no more webhooks are lost than faults happened:  *)
(* however an alert's dispatch and the signals, restarts, requests and     *)
(* other detectors interleave, only a fault can lose one, and one only.    *)
(***************************************************************************)
THEOREM Loss_Bounded == Spec => []LossBoundedByFaults
<1> DEFINE U == IsFiniteSet(Unsent) /\ Cardinality(Unsent) <= faults
<1>1. Init => U
  <2> SUFFICES ASSUME Init PROVE U
    OBVIOUS
  <2>1. Unsent = {} /\ faults = 0
    BY DEF Init, WorkerInit, Unsent
  <2> QED BY <2>1, FS_EmptySet
<1>2. ASSUME IInv, U, [Next]_vars
      PROVE  U'
  <2>1. faults \in Nat
    BY <1>2, MaxFaultsAssumption DEF IInv, TypeOK, WorkerTypeOK
  <2>2. CASE Unsent' \subseteq Unsent /\ faults' = faults
    <3>1. IsFiniteSet(Unsent') /\ Cardinality(Unsent') <= Cardinality(Unsent)
      BY <1>2, <2>2, FS_Subset
    <3> QED
      BY <1>2, <2>1, <2>2, <3>1, FS_CardinalityType
  <2>3. ASSUME NEW x, Unsent' \subseteq Unsent \cup {x}, faults' = faults + 1
        PROVE  U'
    <3>1. /\ IsFiniteSet(Unsent \cup {x})
          /\ Cardinality(Unsent \cup {x}) <= Cardinality(Unsent) + 1
      <4>1. Cardinality(Unsent) \in Nat
        BY <1>2, FS_CardinalityType
      <4>2. /\ IsFiniteSet(Unsent \cup {x})
            /\ Cardinality(Unsent \cup {x}) =
                 IF x \in Unsent THEN Cardinality(Unsent) ELSE Cardinality(Unsent) + 1
        BY <1>2, FS_AddElement
      <4> QED BY <4>1, <4>2
    <3>2. /\ IsFiniteSet(Unsent') /\ Cardinality(Unsent') <= Cardinality(Unsent \cup {x})
      BY <2>3, <3>1, FS_Subset
    <3>3. /\ Cardinality(Unsent) \in Nat /\ Cardinality(Unsent') \in Nat
          /\ Cardinality(Unsent \cup {x}) \in Nat
      BY <1>2, <3>1, <3>2, FS_CardinalityType
    <3> QED
      BY <1>2, <2>1, <2>3, <3>1, <3>2, <3>3
  <2> HIDE DEF U
  <2>4. ASSUME NEW d \in Detectors, Proceed(d) \/ Disturb(d)
        PROVE  U'
    BY <1>2, <2>2, <2>3, <2>4, CarefulSteps, FaultySteps DEF Disturb
  <2>5. ASSUME NEW a \in Apps, Drift(a)
        PROVE  U'
    <3>1. Unsent' = Unsent /\ faults' = faults
      BY <2>5 DEF Drift, Unsent, InHand
    <3> QED BY <2>2, <3>1
  <2>6. ASSUME NEW r \in Requests, LifecycleNext(r), UNCHANGED workerVars
        PROVE  U'
    <3>1. /\ DOMAIN alerts' = DOMAIN alerts
          /\ \A i \in DOMAIN alerts : alerts'[i].by = alerts[i].by
      <4>1. CASE UNCHANGED alerts
        BY <4>1
      <4>2. CASE CommitPatch(r)
        <5>1. PICK k \in DOMAIN alerts, st \in NewStatuses, res \in BOOLEAN :
                 /\ alerts[k] \in AlertRow
                 /\ alerts' = [alerts EXCEPT ![k] = [alerts[k] EXCEPT !.status = st,
                                                                     !.resolved = res]]
          BY <1>2, <4>2, PatchCloses
        <5>2. [alerts[k] EXCEPT !.status = st, !.resolved = res].by = alerts[k].by
          BY <5>1 DEF AlertRow
        <5> QED BY <5>1, <5>2
      <4> QED BY <2>6, <4>1, <4>2 DEF LifecycleNext, LoadAlert, AbortPatch
    <3>2. Unsent' = Unsent /\ faults' = faults
      BY <2>6, <3>1 DEF Unsent, InHand, workerVars
    <3> QED BY <2>2, <3>2
  <2>7. CASE UNCHANGED vars
    <3>1. Unsent' = Unsent /\ faults' = faults
      BY <2>7 DEF vars, workerVars, Unsent, InHand
    <3> QED BY <2>2, <3>1
  <2> QED BY <1>2, <2>4, <2>5, <2>6, <2>7 DEF Next
<1>3. U => LossBoundedByFaults
  BY DEF LossBoundedByFaults
<1> QED
  BY <1>1, <1>2, <1>3, Invariance, PTL DEF Spec

(***************************************************************************)
(* The applications of a sweep, the one in hand included.                  *)
(***************************************************************************)
AppInHand(w) == IF w.pc = "sweep" THEN {} ELSE {w.app}
KeepsAll(w) ==
    w.pc \notin {"idle", "down"} /\ w.session = "ok" =>
        w.snapshot = w.todo \cup w.answered \cup w.bad \cup AppInHand(w)
NoneLost == \A d \in Detectors : KeepsAll(worker[d])

(***************************************************************************)
(* What the loop writes when a detection is over loses no application: the *)
(* one in hand is answered or bad, or the session has failed.              *)
(***************************************************************************)
LEMMA SweepRecords ==
  ASSUME NEW d \in Detectors, worker[d] \in WorkerType, KeepsAll(worker[d])
  PROVE  /\ KeepsAll(Idle) /\ KeepsAll(Down)
         /\ worker[d].pc \notin {"idle", "down", "sweep"} =>
               /\ KeepsAll(Answer(worker[d]))
               /\ worker[d].session = "ok" => KeepsAll(Raise(d, "ok"))
         /\ KeepsAll(Raise(d, "failed"))
         /\ worker[d].session = "failed" => KeepsAll(Return(worker[d]))
<1> DEFINE w == worker[d]
           R == Return(w)
<1>1. /\ R.pc = "sweep" /\ R.session = w.session /\ R.snapshot = w.snapshot
      /\ R.todo = w.todo /\ R.answered = w.answered /\ R.bad = w.bad
      /\ DOMAIN R = DOMAIN w
  BY DEF Return, WorkerType
<1>2. KeepsAll(Idle) /\ KeepsAll(Down)
  BY DEF KeepsAll, Idle, Down
<1>3. worker[d].session = "failed" => KeepsAll(R)
  BY <1>1 DEF KeepsAll
<1>4. /\ "pc" \in DOMAIN w /\ "session" \in DOMAIN w /\ "snapshot" \in DOMAIN w
      /\ "todo" \in DOMAIN w /\ "answered" \in DOMAIN w /\ "bad" \in DOMAIN w
  BY DEF WorkerType
<1> HIDE DEF R
<1> DEFINE A == [R EXCEPT !.answered = @ \cup {w.app}]
<1>5. /\ A.pc = "sweep" /\ A.session = w.session /\ A.snapshot = w.snapshot
      /\ A.todo = w.todo /\ A.answered = w.answered \cup {w.app} /\ A.bad = w.bad
  BY <1>1, <1>4
<1>6. w.pc \notin {"idle", "down", "sweep"} => KeepsAll(A)
  BY <1>5 DEF KeepsAll, AppInHand
<1>7. ASSUME NEW s \in {"ok", "failed"},
             s = "ok" => w.session = "ok" /\ w.pc \notin {"idle", "down", "sweep"}
      PROVE  KeepsAll(Raise(d, s))
  <2> DEFINE B == [R EXCEPT !.session = s, !.bad = @ \cup {w.app}]
  <2>1. /\ B.pc = "sweep" /\ B.session = s /\ B.snapshot = w.snapshot
        /\ B.todo = w.todo /\ B.answered = w.answered /\ B.bad = w.bad \cup {w.app}
    BY <1>1, <1>4
  <2>2. KeepsAll(B)
    BY <1>7, <2>1 DEF KeepsAll, AppInHand
  <2> QED BY <1>2, <2>2 DEF Raise, R
<1>8. w.pc \notin {"idle", "down", "sweep"} /\ w.session = "ok" => KeepsAll(Raise(d, "ok"))
  BY <1>7
<1> QED BY <1>2, <1>3, <1>6, <1>7, <1>8 DEF Answer, R

(***************************************************************************)
(* Every step of a detector keeps the applications of its sweep together.  *)
(***************************************************************************)
LEMMA NextNoneLost ==
  ASSUME IInv, NoneLost, [Next]_vars
  PROVE  NoneLost'
<1>1. worker \in [Detectors -> WorkerType]
  BY DEF IInv, TypeOK, WorkerTypeOK
<1>2. ASSUME NEW d \in Detectors, NEW w, worker' = [worker EXCEPT ![d] = w], KeepsAll(w)
      PROVE  NoneLost'
  BY <1>1, <1>2 DEF NoneLost
<1>3. CASE UNCHANGED worker
  BY <1>3 DEF NoneLost
<1>4. ASSUME NEW d \in Detectors, Proceed(d) \/ Disturb(d)
      PROVE  NoneLost'
  <2> DEFINE w == worker[d]
  <2>1. w \in WorkerType /\ KeepsAll(w)
    BY <1>1 DEF NoneLost
  <2>2. CASE StartSweep(d)
    <3>1. PICK apps \in SUBSET Apps :
             worker' = [worker EXCEPT ![d] = [Idle EXCEPT !.pc = "sweep",
                                                !.snapshot = apps, !.todo = apps]]
      BY <2>2 DEF StartSweep
    <3>2. KeepsAll([Idle EXCEPT !.pc = "sweep", !.snapshot = apps, !.todo = apps])
      BY DEF KeepsAll, AppInHand, Idle
    <3> QED BY <1>2, <3>1, <3>2
  <2>3. CASE TakeApp(d)
    <3>1. PICK a \in w.todo :
             worker' = [worker EXCEPT ![d].pc = "measure", ![d].app = a, ![d].todo = @ \ {a}]
      BY <2>3 DEF TakeApp
    <3> DEFINE y == [w EXCEPT !.pc = "measure", !.app = a, !.todo = @ \ {a}]
    <3>2. worker' = [worker EXCEPT ![d] = y]
      BY <1>1, <3>1
    <3>3. /\ y.pc = "measure" /\ y.app = a /\ y.todo = w.todo \ {a}
          /\ y.session = w.session /\ y.snapshot = w.snapshot
          /\ y.answered = w.answered /\ y.bad = w.bad
      BY <2>1 DEF WorkerType
    <3> HIDE DEF y
    <3>4. KeepsAll(y)
      BY <2>1, <2>3, <3>1, <3>3 DEF KeepsAll, AppInHand, TakeApp, At
    <3> QED BY <1>2, <3>2, <3>4
  <2>4. ASSUME NEW y, worker' = [worker EXCEPT ![d] = y],
               /\ y.pc = w.pc \/ (w.pc \in Detecting /\ y.pc \in Detecting \cup {"post"})
               /\ y.session = w.session /\ y.snapshot = w.snapshot /\ y.todo = w.todo
               /\ y.answered = w.answered /\ y.bad = w.bad /\ y.app = w.app
        PROVE  NoneLost'
    <3>1. KeepsAll(y)
      BY <2>1, <2>4 DEF KeepsAll, AppInHand, Detecting
    <3> QED BY <1>2, <2>4, <3>1
  <2>5. CASE Measure(d) \/ Dedup(d)
    <3>1. w.pc \notin {"idle", "down", "sweep"} /\ w.pc \in Detecting
      BY <2>5 DEF Measure, Dedup, At, Detecting
    <3>2. PICK pc \in Detecting, s \in Severities \cup {NoSeverity} :
             \/ worker' = [worker EXCEPT ![d] = Answer(w)]
             \/ worker' = [worker EXCEPT ![d] = [w EXCEPT !.pc = pc, !.sev = s]]
      <4>1. CASE Measure(d)
        BY <4>1, SeverityRange DEF Measure, Detecting
      <4>2. CASE Dedup(d)
        <5>1. w.sev \in Severities \cup {NoSeverity}
          BY <2>1 DEF WorkerType
        <5>2. [w EXCEPT !.pc = "insert"] = [w EXCEPT !.pc = "insert", !.sev = w.sev]
          BY <2>1 DEF WorkerType
        <5> QED BY <4>2, <5>1, <5>2 DEF Dedup, Detecting
      <4> QED BY <2>5, <4>1, <4>2
    <3>3. CASE worker' = [worker EXCEPT ![d] = Answer(w)]
      BY <1>2, <2>1, <3>1, <3>3, SweepRecords
    <3>4. CASE worker' = [worker EXCEPT ![d] = [w EXCEPT !.pc = pc, !.sev = s]]
      <4> DEFINE y == [w EXCEPT !.pc = pc, !.sev = s]
      <4>1. /\ y.pc = pc /\ y.session = w.session /\ y.snapshot = w.snapshot /\ y.todo = w.todo
            /\ y.answered = w.answered /\ y.bad = w.bad /\ y.app = w.app
        BY <2>1 DEF WorkerType
      <4> HIDE DEF y
      <4> QED BY <2>4, <3>1, <3>4, <4>1 DEF y
    <3> QED BY <3>2, <3>3, <3>4
  <2>6. CASE Insert(d)
    <3> DEFINE y == [w EXCEPT !.pc = "refresh", !.id = Len(alerts) + 1]
    <3>1. worker' = [worker EXCEPT ![d] = y]
      BY <1>1, <2>6 DEF Insert
    <3>2. /\ y.pc = "refresh" /\ y.session = w.session /\ y.snapshot = w.snapshot /\ y.todo = w.todo
          /\ y.answered = w.answered /\ y.bad = w.bad /\ y.app = w.app
      BY <2>1 DEF WorkerType
    <3> HIDE DEF y
    <3> QED BY <2>4, <2>6, <3>1, <3>2 DEF Insert, At, Detecting
  <2>7. CASE Refresh(d)
    <3> DEFINE y == [w EXCEPT !.pc = "post"]
    <3>1. /\ y.pc = "post" /\ y.session = w.session /\ y.snapshot = w.snapshot /\ y.todo = w.todo
          /\ y.answered = w.answered /\ y.bad = w.bad /\ y.app = w.app
      BY <2>1 DEF WorkerType
    <3>2. worker' = [worker EXCEPT ![d] = y] \/ worker' = [worker EXCEPT ![d] = Answer(w)]
      BY <2>7 DEF Refresh
    <3>3. w.pc = "refresh"
      BY <2>7 DEF Refresh, At
    <3> HIDE DEF y
    <3>4. CASE worker' = [worker EXCEPT ![d] = y]
      BY <2>4, <3>1, <3>3, <3>4 DEF Detecting
    <3>5. CASE worker' = [worker EXCEPT ![d] = Answer(w)]
      BY <1>2, <2>1, <3>3, <3>5, SweepRecords
    <3> QED BY <3>2, <3>4, <3>5
  <2>8. CASE DispatchStep(d)
    <3> DEFINE y == [w EXCEPT !.attempt = w.attempt + 1]
    <3>1. /\ y.pc = w.pc /\ y.session = w.session /\ y.snapshot = w.snapshot /\ y.todo = w.todo
          /\ y.answered = w.answered /\ y.bad = w.bad /\ y.app = w.app
      BY <2>1 DEF WorkerType
    <3>2. worker' = [worker EXCEPT ![d] = y] \/ worker' = [worker EXCEPT ![d] = Answer(w)]
      BY <2>8 DEF DispatchStep, SkipHook, PostAccepted, PostFailed, Retry
    <3>3. w.pc = "post"
      BY <2>8 DEF DispatchStep, SkipHook, PostAccepted, PostFailed, At
    <3> HIDE DEF y
    <3>4. CASE worker' = [worker EXCEPT ![d] = y]
      BY <2>4, <3>1, <3>4
    <3>5. CASE worker' = [worker EXCEPT ![d] = Answer(w)]
      BY <1>2, <2>1, <3>3, <3>5, SweepRecords
    <3> QED BY <3>2, <3>4, <3>5
  <2>9. CASE Stop(d)
    <3> DEFINE y == [w EXCEPT !.stop = TRUE]
    <3>1. /\ y.pc = w.pc /\ y.session = w.session /\ y.snapshot = w.snapshot /\ y.todo = w.todo
          /\ y.answered = w.answered /\ y.bad = w.bad /\ y.app = w.app
      BY <2>1 DEF WorkerType
    <3>2. worker' = [worker EXCEPT ![d] = y] \/ worker' = [worker EXCEPT ![d] = Down]
      BY <2>9 DEF Stop
    <3> HIDE DEF y
    <3> QED BY <1>2, <2>1, <2>4, <3>1, <3>2, SweepRecords
  <2>10. CASE EndSweep(d) \/ Start(d) \/ Crash(d)
    <3>1. worker' = [worker EXCEPT ![d] = Idle] \/ worker' = [worker EXCEPT ![d] = Down]
      BY <2>10 DEF EndSweep, Start, Crash
    <3> QED BY <1>2, <2>1, <3>1, SweepRecords
  <2>11. CASE StatementFails(d)
    BY <1>2, <2>1, <2>11, SweepRecords DEF StatementFails
  <2>12. CASE DetectionRaises(d)
    BY <1>2, <2>1, <2>12, SweepRecords DEF DetectionRaises
  <2>13. CASE SessionRefuses(d)
    BY <1>2, <2>1, <2>13, SweepRecords DEF SessionRefuses
  <2> QED
    BY <1>4, <2>2, <2>3, <2>5, <2>6, <2>7, <2>8, <2>9, <2>10, <2>11, <2>12, <2>13
       DEF Proceed, SweepStep, DetectStep, Disturb
<1>5. ASSUME NEW a \in Apps, Drift(a) PROVE UNCHANGED worker
  BY <1>5 DEF Drift
<1>6. ASSUME UNCHANGED workerVars PROVE UNCHANGED worker
  BY <1>6 DEF workerVars
<1> QED BY <1>3, <1>4, <1>5, <1>6 DEF Next, vars

(***************************************************************************)
(* As long as no statement of a sweep has failed, every application that   *)
(* the tick selected is to come, answered, or bad of itself.               *)
(***************************************************************************)
THEOREM Sweep_Complete == Spec => []SweepComplete
<1>1. Init => NoneLost
  BY DEF Init, WorkerInit, NoneLost, KeepsAll, Idle
<1>2. IInv /\ NoneLost /\ [Next]_vars => NoneLost'
  BY NextNoneLost
<1>3. NoneLost => SweepComplete
  BY DaemonsAssumption DEF NoneLost, KeepsAll, AppInHand, SweepComplete, Accounted, At
<1> QED BY <1>1, <1>2, <1>3, Invariance, PTL DEF Spec

-------------------------------------------------------------------------------
(* A sweep goes on towards its end *)

(***************************************************************************)
(* The stages of an application, by how far they are from the end.         *)
(***************************************************************************)
LEMMA AheadFacts ==
  ASSUME NEW w \in WorkerType, InProgress(w), UnderWay(w)
  PROVE  /\ w.pc = "sweep" => Ahead(w) = 0
         /\ w.pc = "post" => Ahead(w) = 3 - w.attempt
         /\ w.pc = "refresh" => Ahead(w) = 4
         /\ w.pc = "insert" => Ahead(w) = 5
         /\ w.pc = "dedup" => Ahead(w) = 6
         /\ w.pc = "measure" => Ahead(w) = 7
         /\ w.pc # "sweep" => Ahead(w) \in 1..7
<1>1. w.pc \in {"sweep", "measure", "dedup", "insert", "refresh", "post"}
      /\ w.attempt \in 0..2
  BY DEF WorkerType, PCs, Detecting, UnderWay, InProgress, MaxAttempts
<1>2. /\ w.pc = "sweep" => Ahead(w) = 0
      /\ w.pc = "post" => Ahead(w) = 3 - w.attempt
      /\ w.pc = "refresh" => Ahead(w) = 4
      /\ w.pc = "insert" => Ahead(w) = 5
      /\ w.pc = "dedup" => Ahead(w) = 6
      /\ w.pc = "measure" => Ahead(w) = 7
  BY DEF Ahead, MaxAttempts
<1> QED BY <1>1, <1>2

(***************************************************************************)
(* With its application out of hand, whatever became of it, a detector is  *)
(* nearer to the end of its sweep.                                         *)
(***************************************************************************)
LEMMA OutOfHand ==
  ASSUME IInv, NEW d \in Detectors, UnderWay(worker[d]), worker[d].pc # "sweep"
  PROVE  /\ Nearer(Answer(worker[d]), worker[d])
         /\ Nearer(Return(worker[d]), worker[d])
         /\ \A s \in {"ok", "failed"} :
               UnderWay(Raise(d, s)) => Nearer(Raise(d, s), worker[d])
<1> DEFINE w == worker[d]
<1>1. w \in WorkerType /\ InProgress(w)
  BY DEF IInv, TypeOK, WorkerTypeOK, Sound
<1>2. Ahead(w) \in 1..7
  BY <1>1, AheadFacts
<1>3. ASSUME NEW y, y.pc = "sweep", y.todo = w.todo
      PROVE  Nearer(y, w)
  <2>1. Ahead(y) = 0
    BY <1>3 DEF Ahead
  <2> QED BY <1>2, <1>3, <2>1 DEF Nearer
<1>4. /\ Return(w).pc = "sweep" /\ Return(w).todo = w.todo
      /\ Answer(w).pc = "sweep" /\ Answer(w).todo = w.todo
  BY <1>1 DEF Return, Answer, WorkerType
<1>5. ASSUME NEW s \in {"ok", "failed"}, UnderWay(Raise(d, s))
      PROVE  Raise(d, s).pc = "sweep" /\ Raise(d, s).todo = w.todo
  <2>1. d \in Daemons
    BY <1>5 DEF Raise, Down, UnderWay
  <2> QED BY <1>1, <2>1 DEF Raise, Return, WorkerType
<1> QED BY <1>3, <1>4, <1>5

(***************************************************************************)
(* Each step of a sweep that does not end it brings its end nearer.        *)
(***************************************************************************)
LEMMA ProceedShrinks ==
  ASSUME IInv, NEW d \in Detectors, Proceed(d),
         UnderWay(worker[d]), UnderWay(worker'[d])
  PROVE  Nearer(worker'[d], worker[d])
<1> DEFINE w == worker[d]
<1>1. /\ w \in WorkerType /\ worker \in [Detectors -> WorkerType]
      /\ w.attempt \in 0..2
  BY DEF IInv, TypeOK, WorkerTypeOK, WorkerType, Sound, InProgress, MaxAttempts
<1>2. ASSUME NEW y \in {Answer(w), Return(w)}, w.pc # "sweep", worker' = [worker EXCEPT ![d] = y]
      PROVE  Nearer(worker'[d], w)
  BY <1>1, <1>2, OutOfHand
<1>3. ASSUME NEW y, worker' = [worker EXCEPT ![d] = y], y.todo = w.todo, Ahead(y) < Ahead(w)
      PROVE  Nearer(worker'[d], w)
  BY <1>1, <1>3 DEF Nearer
<1>4. ~StartSweep(d)
  BY DEF StartSweep, At, UnderWay
<1>5. CASE TakeApp(d)
  <2>1. PICK a \in w.todo :
           worker' = [worker EXCEPT ![d].pc = "measure", ![d].app = a, ![d].todo = @ \ {a}]
    BY <1>5 DEF TakeApp
  <2> DEFINE y == [w EXCEPT !.pc = "measure", !.app = a, !.todo = @ \ {a}]
  <2>2. worker' = [worker EXCEPT ![d] = y] /\ y.todo = w.todo \ {a}
    BY <1>1, <2>1 DEF WorkerType
  <2> HIDE DEF y
  <2> QED BY <1>1, <2>2 DEF Nearer
<1>6. ~EndSweep(d)
  BY <1>1 DEF EndSweep, Idle, Down, UnderWay
<1>7. CASE Measure(d)
  <2> DEFINE s == severity_for(score[w.app])
             y == [w EXCEPT !.pc = "dedup", !.sev = s]
  <2>1. w.pc = "measure"
    BY <1>7 DEF Measure, At
  <2>2. worker' = [worker EXCEPT ![d] = Answer(w)] \/ worker' = [worker EXCEPT ![d] = y]
    BY <1>7 DEF Measure
  <2>3. y.pc = "dedup" /\ y.todo = w.todo
    BY <1>1 DEF WorkerType
  <2> HIDE DEF y
  <2>4. Ahead(w) = 7 /\ Ahead(y) = 6
    BY <2>1, <2>3 DEF Ahead, MaxAttempts
  <2> QED BY <1>2, <1>3, <2>1, <2>2, <2>3, <2>4
<1>8. CASE Dedup(d)
  <2> DEFINE y == [w EXCEPT !.pc = "insert"]
  <2>1. w.pc = "dedup"
    BY <1>8 DEF Dedup, At
  <2>2. worker' = [worker EXCEPT ![d] = Answer(w)] \/ worker' = [worker EXCEPT ![d] = y]
    BY <1>8 DEF Dedup
  <2>3. y.pc = "insert" /\ y.todo = w.todo
    BY <1>1 DEF WorkerType
  <2> HIDE DEF y
  <2>4. Ahead(w) = 6 /\ Ahead(y) = 5
    BY <2>1, <2>3 DEF Ahead, MaxAttempts
  <2> QED BY <1>2, <1>3, <2>1, <2>2, <2>3, <2>4
<1>9. CASE Insert(d)
  <2> DEFINE y == [w EXCEPT !.pc = "refresh", !.id = Len(alerts) + 1]
  <2>1. w.pc = "insert" /\ worker' = [worker EXCEPT ![d] = y]
    BY <1>1, <1>9 DEF Insert, At
  <2>2. y.pc = "refresh" /\ y.todo = w.todo
    BY <1>1 DEF WorkerType
  <2> HIDE DEF y
  <2>3. Ahead(w) = 5 /\ Ahead(y) = 4
    BY <2>1, <2>2 DEF Ahead, MaxAttempts
  <2>4. Ahead(y) < Ahead(w)
    BY <2>3
  <2> QED BY <1>3, <2>1, <2>2, <2>4
<1>10. CASE Refresh(d)
  <2> DEFINE y == [w EXCEPT !.pc = "post"]
  <2>1. w.pc = "refresh"
    BY <1>10 DEF Refresh, At
  <2>2. worker' = [worker EXCEPT ![d] = Answer(w)] \/ worker' = [worker EXCEPT ![d] = y]
    BY <1>10 DEF Refresh
  <2>3. y.pc = "post" /\ y.todo = w.todo /\ y.attempt \in 0..2
    BY <1>1 DEF WorkerType
  <2> HIDE DEF y
  <2>4. Ahead(w) = 4 /\ Ahead(y) < 4
    BY <2>1, <2>3 DEF Ahead, MaxAttempts
  <2> QED BY <1>2, <1>3, <2>1, <2>2, <2>3, <2>4
<1>11. CASE SessionRefuses(d)
  BY <1>2, <1>11 DEF SessionRefuses, At
<1>12. CASE DispatchStep(d)
  <2> DEFINE y == [w EXCEPT !.attempt = w.attempt + 1]
  <2>1. w.pc = "post"
    BY <1>12 DEF DispatchStep, SkipHook, PostAccepted, PostFailed, At
  <2>2. worker' = [worker EXCEPT ![d] = Answer(w)] \/ worker' = [worker EXCEPT ![d] = y]
    BY <1>12 DEF DispatchStep, SkipHook, PostAccepted, PostFailed, Retry
  <2>3. y.pc = "post" /\ y.todo = w.todo /\ y.attempt = w.attempt + 1
    BY <1>1, <2>1 DEF WorkerType
  <2> HIDE DEF y
  <2>4. Ahead(w) = 3 - w.attempt /\ Ahead(y) = 3 - (w.attempt + 1)
    BY <2>1, <2>3 DEF Ahead, MaxAttempts
  <2>5. Ahead(y) < Ahead(w)
    BY <1>1, <2>4
  <2> QED BY <1>2, <1>3, <2>1, <2>2, <2>3, <2>5
<1> QED BY <1>4, <1>5, <1>6, <1>7, <1>8, <1>9, <1>10, <1>11, <1>12
        DEF Proceed, SweepStep, DetectStep

(***************************************************************************)
(* For every set of applications, each step of a sweep brings its end      *)
(* nearer, and no fault, signal or other process takes it back: what       *)
(* SweepEnds adds is only that the process goes on.                        *)
(***************************************************************************)
THEOREM Sweep_Shrinks == Spec => SweepShrinks
<1>1. ASSUME IInv, [Next]_vars, NEW d \in Detectors, ~Proceed(d),
             UnderWay(worker[d]), UnderWay(worker'[d])
      PROVE  \/ Nearer(worker'[d], worker[d])
             \/ worker'[d] \in {worker[d], [worker[d] EXCEPT !.stop = TRUE]}
  <2>1. worker \in [Detectors -> WorkerType]
    BY <1>1 DEF IInv, TypeOK, WorkerTypeOK
  <2>2. ASSUME NEW e \in Detectors, e # d, Proceed(e) \/ Disturb(e)
        PROVE  worker'[d] = worker[d]
    BY <2>1, <2>2 DEF Proceed, SweepStep, StartSweep, TakeApp, EndSweep, DetectStep, Measure,
       Dedup, Insert, Refresh, SessionRefuses, DispatchStep, SkipHook, PostAccepted, PostFailed,
       Disturb, Stop, Start, StatementFails, DetectionRaises, Crash
  <2>3. CASE Disturb(d)
    <3>1. ~Start(d) /\ ~Crash(d)
      BY <1>1, <2>1 DEF Start, Crash, At, UnderWay, Down, Idle
    <3>2. CASE Stop(d)
      BY <1>1, <2>1, <3>2 DEF Stop, Down, UnderWay
    <3>3. CASE StatementFails(d) \/ DetectionRaises(d)
      <4>1. PICK s \in {"ok", "failed"} : worker' = [worker EXCEPT ![d] = Raise(d, s)]
        BY <3>3 DEF StatementFails, DetectionRaises
      <4>2. worker[d].pc # "sweep"
        BY <3>3 DEF StatementFails, DetectionRaises, Detecting
      <4> QED BY <1>1, <2>1, <4>1, <4>2, OutOfHand
    <3> QED BY <2>3, <3>1, <3>2, <3>3 DEF Disturb
  <2>4. ASSUME NEW a \in Apps, Drift(a) PROVE UNCHANGED worker
    BY <2>4 DEF Drift
  <2> QED BY <1>1, <2>2, <2>3, <2>4 DEF Next, vars, workerVars
<1>2. IInv /\ [Next]_vars =>
        [\A d \in Detectors : UnderWay(worker[d]) /\ UnderWay(worker'[d]) =>
            \/ Nearer(worker'[d], worker[d])
            \/ ~Proceed(d) /\ worker'[d] \in {worker[d], [worker[d] EXCEPT !.stop = TRUE]}]_vars
  BY <1>1, ProceedShrinks
<1> QED BY <1>2, Invariance, PTL DEF Spec, SweepShrinks
================================================================================
