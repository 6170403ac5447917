----------------------------- MODULE DriftWorker ------------------------------
(***************************************************************************)
(* The processes that detect drift: the daemon of workers/drift_worker.py  *)
(* (tick, sweep of the active applications, webhook for each new alert)    *)
(* and the one-off detection of scripts/seed.py, both around               *)
(* monitor/drift_detector.detect_drift_for_app.                            *)
(*                                                                         *)
(* Every await of the code is a step boundary.  A sweep shares one session *)
(* between its applications: once a statement of it has failed the session *)
(* refuses every further statement, because nothing rolls it back.         *)
(***************************************************************************)
EXTENDS AlertTable

CONSTANTS
    Daemons,        \* the detectors that run drift_worker; the others run seed
    HookConfigured, \* whether DRIFT_WEBHOOK_URL is set
    Scores,         \* drift scores, in hundredths, that a window pair may have
    NoApp,          \* "no application in hand"
    MaxFaults       \* bound: failed statements, exceptions and crashes

ASSUME DaemonsAssumption == Daemons \subseteq Detectors
ASSUME HookAssumption == HookConfigured \in BOOLEAN
ASSUME ScoresAssumption == Scores \subseteq Nat
ASSUME NoAppAssumption == NoApp \notin Apps
ASSUME MaxFaultsAssumption == MaxFaults \in Nat

VARIABLES
    score,      \* score[a]: drift of a's current against its baseline window
    worker,     \* worker[d]: where the process is in its loop
    delivery,   \* delivery[i]: what became of the webhook of alerts[i]
    faults      \* faults so far

MaxAttempts == 3
ShortWindow == -1   \* fewer embeddings than drift_min_baseline or drift_min_current

Thresholds == {15, 25, 35, 50}

severity_for(s) == Cardinality({t \in Thresholds : s >= t})

-------------------------------------------------------------------------------
(* State *)

Idle == [pc |-> "idle", stop |-> FALSE, session |-> "ok", snapshot |-> {},
         todo |-> {}, app |-> NoApp, sev |-> NoSeverity, id |-> 0, attempt |-> 0,
         answered |-> {}, bad |-> {}]

Down == [Idle EXCEPT !.pc = "down"]

PCs == {"idle", "sweep", "measure", "dedup", "insert", "refresh", "post", "down"}
Detecting == {"measure", "dedup", "insert", "refresh"}

(***************************************************************************)
(* snapshot: the application ids the tick's SELECT returned; todo: those   *)
(* the for loop has yet to take; answered: those whose detection returned; *)
(* bad: those whose detection raised of itself, not because the session    *)
(* had failed before.                                                      *)
(***************************************************************************)
WorkerType ==
    [pc : PCs, stop : BOOLEAN, session : {"ok", "failed"}, snapshot : SUBSET Apps,
     todo : SUBSET Apps, app : Apps \cup {NoApp}, sev : Severities \cup {NoSeverity},
     id : Nat, attempt : 0..MaxAttempts, answered : SUBSET Apps, bad : SUBSET Apps]

(***************************************************************************)
(* received counts the POSTs that reached the receiver, whatever the       *)
(* worker saw of the response; outcome is what dispatch_drift_alert logged *)
(* at its end ("skipped": no URL is configured).                           *)
(***************************************************************************)
Outcomes == {"none", "delivered", "gaveup", "skipped"}
DeliveryType == [outcome : Outcomes, received : Nat]

WorkerTypeOK ==
    /\ score \in [Apps -> Scores \cup {ShortWindow}]
    /\ worker \in [Detectors -> WorkerType]
    /\ delivery \in Seq(DeliveryType)
    /\ faults \in 0..MaxFaults

WorkerInit ==
    /\ score \in [Apps -> Scores \cup {ShortWindow}]
    /\ worker = [d \in Detectors |-> Idle]
    /\ delivery = << >>
    /\ faults = 0

At(d, pc) == worker[d].pc = pc

\* The detection of the application in hand is over; the for loop goes on.
Return(w) == [w EXCEPT !.pc = "sweep", !.app = NoApp, !.sev = NoSeverity,
                       !.id = 0, !.attempt = 0]
Answer(w) == [Return(w) EXCEPT !.answered = @ \cup {w.app}]

\* Mutant: an exception leaves the for loop instead of continuing it.
Raise_StopsSweep(d, session) ==
    IF d \in Daemons
    THEN [Return(worker[d]) EXCEPT !.session = session, !.todo = {},
                                   !.bad = @ \cup {worker[d].app}]
    ELSE Down

\* The detection raised: the daemon logs and continues, the script dies.
Raise(d, session) ==
    IF d \in Daemons
    THEN [Return(worker[d]) EXCEPT !.session = session, !.bad = @ \cup {worker[d].app}]
    ELSE Down

-------------------------------------------------------------------------------
(* The loop *)

\* SELECT DISTINCT application_id: every application whose windows are full has
\* logs, and others may.  seed detects for one application.
StartSweep(d) ==
    /\ At(d, "idle")
    /\ ~worker[d].stop
    /\ \E apps \in SUBSET Apps :
          /\ IF d \in Daemons THEN {a \in Apps : score[a] # ShortWindow} \subseteq apps
                              ELSE Cardinality(apps) = 1
          /\ worker' = [worker EXCEPT ![d] = [Idle EXCEPT !.pc = "sweep",
                                                 !.snapshot = apps, !.todo = apps]]
    /\ UNCHANGED <<alerts, score, delivery, faults>>

TakeApp(d) ==
    /\ At(d, "sweep")
    /\ \E a \in worker[d].todo :
          worker' = [worker EXCEPT ![d].pc = "measure", ![d].app = a,
                                   ![d].todo = @ \ {a}]
    /\ UNCHANGED <<alerts, score, delivery, faults>>

\* The tick ends and its session is closed.  seed exits after its sweep, and the
\* daemon when SIGTERM came during it.
EndSweep(d) ==
    /\ At(d, "sweep")
    /\ worker[d].todo = {}
    /\ worker' = [worker EXCEPT ![d] =
                    IF worker[d].stop \/ d \notin Daemons THEN Down ELSE Idle]
    /\ UNCHANGED <<alerts, score, delivery, faults>>

\* Mutant: the signal cancels the sweep under way.
Stop_AtOnce(d) ==
    /\ d \in Daemons
    /\ worker[d].pc # "down"
    /\ worker' = [worker EXCEPT ![d] = Down]
    /\ UNCHANGED <<alerts, score, delivery, faults>>

\* SIGTERM or SIGINT only sets the event that the loop looks at between ticks.
Stop(d) ==
    /\ d \in Daemons
    /\ worker[d].pc # "down"
    /\ worker' = [worker EXCEPT ![d] = IF At(d, "idle") THEN Down
                                       ELSE [@ EXCEPT !.stop = TRUE]]
    /\ UNCHANGED <<alerts, score, delivery, faults>>

\* An operator starts the process; docker-compose.yml has no restart policy.
Start(d) ==
    /\ At(d, "down")
    /\ worker' = [worker EXCEPT ![d] = Idle]
    /\ UNCHANGED <<alerts, score, delivery, faults>>

-------------------------------------------------------------------------------
(* detect_drift_for_app *)

\* Mutant: an application without an answer yet is put back into the sweep.
Measure_Requeues(d) ==
    /\ At(d, "measure")
    /\ worker[d].session = "ok"
    /\ LET s == severity_for(score[worker[d].app])
       IN  worker' = [worker EXCEPT ![d] =
                        IF s = NoSeverity
                        THEN [Return(@) EXCEPT !.todo = @ \cup {worker[d].app}]
                        ELSE [@ EXCEPT !.pc = "dedup", !.sev = s]]
    /\ UNCHANGED <<alerts, score, delivery, faults>>

\* Both windows are read and compared; too short a window or a score below the
\* floor returns None.
Measure(d) ==
    /\ At(d, "measure")
    /\ worker[d].session = "ok"
    /\ LET s == severity_for(score[worker[d].app])
       IN  worker' = [worker EXCEPT ![d] = IF s = NoSeverity THEN Answer(@)
                                           ELSE [@ EXCEPT !.pc = "dedup", !.sev = s]]
    /\ UNCHANGED <<alerts, score, delivery, faults>>

\* Mutant: only a strictly higher severity suppresses.
Dedup_StrictlyHigher(d) ==
    /\ At(d, "dedup")
    /\ worker' = [worker EXCEPT ![d] =
                    IF \E s \in OpenSeverities(worker[d].app) : s > worker[d].sev
                    THEN Answer(@) ELSE [@ EXCEPT !.pc = "insert"]]
    /\ UNCHANGED <<alerts, score, delivery, faults>>

\* Mutant: the dedup query forgets its filter on the status.
Dedup_AnyStatus(d) ==
    /\ At(d, "dedup")
    /\ worker' = [worker EXCEPT ![d] =
                    IF \E i \in DOMAIN alerts :
                          alerts[i].app = worker[d].app /\ alerts[i].sev >= worker[d].sev
                    THEN Answer(@) ELSE [@ EXCEPT !.pc = "insert"]]
    /\ UNCHANGED <<alerts, score, delivery, faults>>

\* The severities of the open alerts are read; one at the same or a higher
\* severity suppresses the new alert.
Dedup(d) ==
    /\ At(d, "dedup")
    /\ worker' = [worker EXCEPT ![d] =
                    IF \E s \in OpenSeverities(worker[d].app) : s >= worker[d].sev
                    THEN Answer(@) ELSE [@ EXCEPT !.pc = "insert"]]
    /\ UNCHANGED <<alerts, score, delivery, faults>>

\* The alert in hand becomes a row, with no webhook sent yet.
AppendAlert(d) ==
    /\ alerts' = Append(alerts, NewAlert(worker[d].app, worker[d].sev, d))
    /\ delivery' = Append(delivery, [outcome |-> "none", received |-> 0])

\* Mutant: the alert handed on is the one before the new one.
Insert_StaleId(d) ==
    /\ At(d, "insert")
    /\ AppendAlert(d)
    /\ worker' = [worker EXCEPT ![d].pc = "refresh", ![d].id = Len(alerts)]
    /\ UNCHANGED <<score, faults>>

Insert(d) ==
    /\ At(d, "insert")
    /\ AppendAlert(d)
    /\ worker' = [worker EXCEPT ![d].pc = "refresh", ![d].id = Len(alerts) + 1]
    /\ UNCHANGED <<score, faults>>

\* The row is read back and the alert returned: to run_once, which dispatches
\* it, or to seed, which does not.
Refresh(d) ==
    /\ At(d, "refresh")
    /\ worker' = [worker EXCEPT ![d] =
                    IF d \in Daemons THEN [@ EXCEPT !.pc = "post"] ELSE Answer(@)]
    /\ UNCHANGED <<alerts, score, delivery, faults>>

-------------------------------------------------------------------------------
(* dispatch_drift_alert *)

SkipHook(d) ==
    /\ At(d, "post")
    /\ ~HookConfigured
    /\ delivery' = [delivery EXCEPT ![worker[d].id].outcome = "skipped"]
    /\ worker' = [worker EXCEPT ![d] = Answer(@)]
    /\ UNCHANGED <<alerts, score, faults>>

PostAccepted(d) ==
    /\ At(d, "post")
    /\ HookConfigured
    /\ delivery' = [delivery EXCEPT ![worker[d].id] =
                      [outcome |-> "delivered", received |-> @.received + 1]]
    /\ worker' = [worker EXCEPT ![d] = Answer(@)]
    /\ UNCHANGED <<alerts, score, faults>>

\* Mutant: off by one, a fourth attempt.
LastAttempt_OneMore(w) == w.attempt = MaxAttempts

LastAttempt(w) == w.attempt + 1 = MaxAttempts
Retry(w) == IF LastAttempt(w) THEN Answer(w) ELSE [w EXCEPT !.attempt = w.attempt + 1]

\* Refused (arrived: the receiver answered outside 2xx, or its 2xx came after the
\* client's timeout) or lost on the way; the worker cannot tell which.
PostFailed(d) ==
    /\ At(d, "post")
    /\ HookConfigured
    /\ \E arrived \in {0, 1} :
          delivery' = [delivery EXCEPT ![worker[d].id] =
                         [outcome |-> IF LastAttempt(worker[d]) THEN "gaveup" ELSE @.outcome,
                          received |-> @.received + arrived]]
    /\ worker' = [worker EXCEPT ![d] = Retry(@)]
    /\ UNCHANGED <<alerts, score, faults>>

-------------------------------------------------------------------------------
(* Faults *)

Fault == faults < MaxFaults /\ faults' = faults + 1

\* A statement of the detection fails: the session's transaction is left failed.
\* A failed COMMIT may have committed all the same.
StatementFails(d) ==
    /\ worker[d].pc \in Detecting
    /\ worker[d].session = "ok"
    /\ Fault
    /\ worker' = [worker EXCEPT ![d] = Raise(d, "failed")]
    /\ \/ UNCHANGED <<alerts, delivery>>
       \/ At(d, "insert") /\ AppendAlert(d)
    /\ UNCHANGED score

\* The detection raises outside the database: an ill-shaped embedding, a severity
\* the code does not know.  The session stays usable.
DetectionRaises(d) ==
    /\ worker[d].pc \in {"measure", "dedup"}
    /\ worker[d].session = "ok"
    /\ Fault
    /\ worker' = [worker EXCEPT ![d] = Raise(d, "ok")]
    /\ UNCHANGED <<alerts, score, delivery>>

\* The first statement on a failed session raises at once.
SessionRefuses(d) ==
    /\ At(d, "measure")
    /\ worker[d].session = "failed"
    /\ worker' = [worker EXCEPT ![d] = Return(@)]
    /\ UNCHANGED <<alerts, score, delivery, faults>>

Crash(d) ==
    /\ worker[d].pc # "down"
    /\ Fault
    /\ worker' = [worker EXCEPT ![d] = Down]
    /\ UNCHANGED <<alerts, score, delivery>>

-------------------------------------------------------------------------------
(* The environment: logs arrive, are embedded and age, so the windows drift. *)

Drift(a) ==
    /\ \E s \in Scores \cup {ShortWindow} : score' = [score EXCEPT ![a] = s]
    /\ UNCHANGED <<alerts, worker, delivery, faults>>

DetectStep(d) == Measure(d) \/ Dedup(d) \/ Insert(d) \/ Refresh(d) \/ SessionRefuses(d)
DispatchStep(d) == SkipHook(d) \/ PostAccepted(d) \/ PostFailed(d)
SweepStep(d) == StartSweep(d) \/ TakeApp(d) \/ EndSweep(d)

\* What the process does of itself, and what is done to it.
Proceed(d) == SweepStep(d) \/ DetectStep(d) \/ DispatchStep(d)
Disturb(d) == Stop(d) \/ Start(d) \/ StatementFails(d) \/ DetectionRaises(d) \/ Crash(d)
================================================================================
