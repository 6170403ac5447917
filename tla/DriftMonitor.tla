----------------------------- MODULE DriftMonitor -----------------------------
(***************************************************************************)
(* Drift monitoring as a whole: the detectors of DriftWorker and the PATCH *)
(* handlers of AlertLifecycle over the one alerts table, with the          *)
(* properties that make it correct.                                        *)
(***************************************************************************)
EXTENDS AlertLifecycle, DriftWorker

workerVars == <<score, worker, delivery, faults>>
patchVars == <<patch, patches>>
vars == <<alerts, workerVars, patchVars>>

Init == alerts = << >> /\ WorkerInit /\ LifecycleInit

Next ==
    \/ \E d \in Detectors : (Proceed(d) \/ Disturb(d)) /\ UNCHANGED patchVars
    \/ \E a \in Apps : Drift(a) /\ UNCHANGED patchVars
    \/ \E r \in Requests : LifecycleNext(r) /\ UNCHANGED workerVars

Spec == Init /\ [][Next]_vars

(***************************************************************************)
(* A running process takes its steps: the loop's wait and every POST have  *)
(* a timeout.  Nothing is assumed of signals, restarts, faults, requests   *)
(* or the data.                                                            *)
(***************************************************************************)
Fairness == \A d \in Daemons : WF_vars(Proceed(d) /\ UNCHANGED patchVars)

FairSpec == Spec /\ Fairness

TypeOK ==
    /\ alerts \in Seq(AlertRow)
    /\ WorkerTypeOK
    /\ LifecycleTypeOK

-------------------------------------------------------------------------------
(* Alerts *)

(***************************************************************************)
(* drift_detector.py:107-117.  The open alerts one detector raised for one *)
(* application have strictly increasing severities: it never duplicates or *)
(* undercuts an alert of its own that is still open, whatever the PATCH    *)
(* handlers, the other detectors and its own restarts do between its read  *)
(* of the open alerts and its insert.                                      *)
(***************************************************************************)
DedupPerDetector ==
    \A i, j \in DOMAIN alerts :
        i < j /\ alerts[i].app = alerts[j].app /\ alerts[i].by = alerts[j].by
              /\ IsOpen(i) /\ IsOpen(j)
        => alerts[i].sev < alerts[j].sev

(***************************************************************************)
(* The docstring of drift_detector.py, lines 9-10: "while an `open` alert  *)
(* exists for the app at the same-or-higher severity, no new alert is      *)
(* inserted", whoever raised it.                                           *)
(***************************************************************************)
DedupAcrossDetectors ==
    \A i, j \in DOMAIN alerts :
        i < j /\ alerts[i].app = alerts[j].app /\ IsOpen(i) /\ IsOpen(j)
        => alerts[i].sev < alerts[j].sev

\* No two detectors stand between the dedup query and the insert for one application.
OneInserting ==
    \A d, e \in Detectors :
        At(d, "insert") /\ At(e, "insert") /\ worker[d].app = worker[e].app => d = e

(***************************************************************************)
(* Alerts are append-only but for their lifecycle columns, and an alert    *)
(* that left "open" never returns to it: so what an operator dealt with    *)
(* never suppresses a later detection again.                               *)
(***************************************************************************)
NoReopen ==
    [][\A i \in DOMAIN alerts :
          /\ i \in DOMAIN alerts'
          /\ \A f \in {"app", "sev", "by"} : alerts'[i][f] = alerts[i][f]
          /\ alerts'[i].status = "open" => IsOpen(i)]_vars

(***************************************************************************)
(* drift_alert.py:47, "Set when status transitions to resolved", and the   *)
(* ack-then-resolve test of test_drift_api.py: resolved_at is set exactly  *)
(* on the resolved alerts.                                                 *)
(***************************************************************************)
ResolvedAtMatchesStatus ==
    \A i \in DOMAIN alerts : alerts[i].resolved <=> alerts[i].status = "resolved"

\* No two PATCH requests stand between loading and updating one alert.
OnePatching ==
    \A r, q \in Requests :
        patch[r].pc = "loaded" /\ patch[q].pc = "loaded" /\ patch[r].id = patch[q].id => r = q

Ledger == INSTANCE AlertLedger WITH ledger <- alerts

(***************************************************************************)
(* The table behaves as the ledger of AlertLedger: although a detector     *)
(* reads the open alerts in one statement and inserts in another, and a    *)
(* PATCH loads in one and updates in another, each insert and each UPDATE  *)
(* is one that the ledger allows at the instant it commits.                *)
(***************************************************************************)
RefinesLedger == Ledger!Spec

-------------------------------------------------------------------------------
(* Sweeps *)

Accounted(w) == w.snapshot = w.todo \cup w.answered \cup w.bad

(***************************************************************************)
(* drift_worker.py:40-45.  As long as no statement of a sweep has failed,  *)
(* every application the tick selected is still to come, has been          *)
(* answered, or raised of itself: an exception in one application loses    *)
(* none of the others.                                                     *)
(***************************************************************************)
SweepComplete ==
    \A d \in Daemons : At(d, "sweep") /\ worker[d].session = "ok" => Accounted(worker[d])

(***************************************************************************)
(* The comment of drift_worker.py:43, "one bad app never stops the sweep": *)
(* the same whatever fails, a statement of one application included.       *)
(***************************************************************************)
OneBadAppNeverStopsTheSweep ==
    \A d \in Daemons : At(d, "sweep") => Accounted(worker[d])

-------------------------------------------------------------------------------
(* Webhooks *)

(***************************************************************************)
(* webhooks.py:44-57.  The receiver gets at most three copies of an alert, *)
(* at least one of an alert logged as delivered, and none of one whose     *)
(* dispatch was skipped; only the dispatch of an alert just raised by the  *)
(* worker itself is ever under way, so no outcome is ever followed by more *)
(* posts.                                                                  *)
(***************************************************************************)
DeliveryHonest ==
    /\ \A i \in DOMAIN delivery :
          /\ delivery[i].received <= MaxAttempts
          /\ delivery[i].outcome = "delivered" => delivery[i].received >= 1
          /\ delivery[i].outcome = "skipped" => delivery[i].received = 0
    /\ \A d \in Detectors : At(d, "post") =>
          /\ delivery[worker[d].id].outcome = "none"
          /\ delivery[worker[d].id].received <= worker[d].attempt
          /\ alerts[worker[d].id].by = d

InHand(i) == \E d \in Daemons : worker[d].pc \in {"refresh", "post"} /\ worker[d].id = i

Unsent == {i \in DOMAIN alerts :
             alerts[i].by \in Daemons /\ delivery[i].outcome = "none" /\ ~InHand(i)}

(***************************************************************************)
(* drift_worker.py:42-56.  Between the commit of an alert and the end of   *)
(* its dispatch the alert is in no queue, only in the worker's hands: each *)
(* fault loses the webhook of at most one alert, and nothing but a fault   *)
(* loses one, a stop signal included.                                      *)
(***************************************************************************)
LossBoundedByFaults == Cardinality(Unsent) <= faults

-------------------------------------------------------------------------------
(* The inductive invariant *)

\* A row a request loaded is still there, and was not reopened since.
LoadedRows ==
    \A r \in Requests : patch[r].pc = "loaded" =>
        /\ patch[r].id \in DOMAIN alerts
        /\ patch[r].status # "open" => ~IsOpen(patch[r].id)

\* What detector d holds at each point of its loop.
InProgress(w) ==
    /\ w.pc \in Detecting \cup {"post"} => w.app \in Apps
    /\ w.pc \in {"dedup", "insert", "refresh", "post"} => w.sev \in Severities
    /\ w.attempt < MaxAttempts
    /\ w.attempt > 0 => w.pc = "post" /\ HookConfigured

\* The answer of Dedup still holds at Insert: the detector's own open alerts can
\* only have been closed since.
NothingToDedup(d, w) ==
    w.pc = "insert" =>
        \A i \in DOMAIN alerts :
            alerts[i].app = w.app /\ alerts[i].by = d /\ IsOpen(i) => alerts[i].sev < w.sev

\* The alert in its hands is its own, and has no outcome yet.
HoldsAlert(d, w) ==
    w.pc \in {"refresh", "post"} =>
        /\ w.id \in DOMAIN alerts
        /\ alerts[w.id].by = d
        /\ delivery[w.id].outcome = "none"
        /\ delivery[w.id].received <= w.attempt

Sound(d, w) == InProgress(w) /\ NothingToDedup(d, w) /\ HoldsAlert(d, w)

(***************************************************************************)
(* Each detection step finds the state it relies on although others moved  *)
(* between its statements: the strengthening under which DedupPerDetector  *)
(* and DeliveryHonest are preserved by every step.                         *)
(***************************************************************************)
IInv ==
    /\ TypeOK
    /\ Len(delivery) = Len(alerts)
    /\ LoadedRows
    /\ \A d \in Detectors : Sound(d, worker[d])
    /\ DedupPerDetector
    /\ DeliveryHonest

-------------------------------------------------------------------------------
(* Liveness *)

\* drift_worker.py:40-56 and webhooks.py:45: every sweep ends, the retries of
\* its webhooks included.
SweepEnds == \A d \in Daemons : At(d, "sweep") ~> worker[d].pc \in {"idle", "down"}

UnderWay(w) == w.pc \notin {"idle", "down"}

\* How far the application in hand still has to go.
Ahead(w) ==
    IF w.pc = "post" THEN MaxAttempts - w.attempt
    ELSE [sweep |-> 0, refresh |-> MaxAttempts + 1, insert |-> MaxAttempts + 2,
          dedup |-> MaxAttempts + 3, measure |-> MaxAttempts + 4][w.pc]

Nearer(v, w) == \/ v.todo \subseteq w.todo /\ v.todo # w.todo
                \/ v.todo = w.todo /\ Ahead(v) < Ahead(w)

(***************************************************************************)
(* Why SweepEnds: whatever the others do and whatever fails, each step of  *)
(* a detector brings its sweep nearer to the end, and no step takes it     *)
(* back; a stop signal is no more than noted.                              *)
(***************************************************************************)
SweepShrinks ==
    [][\A d \in Detectors : UnderWay(worker[d]) /\ UnderWay(worker'[d]) =>
          \/ Nearer(worker'[d], worker[d])
          \/ ~Proceed(d) /\ worker'[d] \in {worker[d], [worker[d] EXCEPT !.stop = TRUE]}]_vars

Covered(a, n) == \E s \in OpenSeverities(a) : s >= n
DaemonDown == \E d \in Daemons : At(d, "down")

(***************************************************************************)
(* drift_worker.py:67-76.  Drift that persists at a severity is, unless    *)
(* the daemon is down, again and again covered by an open alert of at      *)
(* least that severity: failed statements, exceptions, lost sessions and   *)
(* operators closing alerts only delay it.                                 *)
(***************************************************************************)
PersistentDriftCovered ==
    \A a \in Apps, n \in Severities :
        <>[](severity_for(score[a]) >= n) => []<>(Covered(a, n) \/ DaemonDown)
================================================================================
