------------------------------ MODULE AlertTable ------------------------------
(***************************************************************************)
(* The drift_alerts table: the state that the drift detectors and the      *)
(* PATCH handlers of the API share.  The services only append and update   *)
(* rows, so the table is a sequence and an alert's position is its primary *)
(* key; the TRUNCATE of seed --reset is left out here.  Every access is    *)
(* one statement of a READ COMMITTED transaction; the modules that extend  *)
(* this one say when each runs.                                            *)
(***************************************************************************)
EXTENDS Integers, Sequences, FiniteSets

CONSTANTS
    Apps,       \* application ids
    Detectors   \* processes that run detect_drift_for_app

VARIABLE alerts \* rows of drift_alerts, in commit order

Severities == 1..4   \* low, medium, high, critical
NoSeverity == 0      \* severity_for returned None

\* Mutant: the request schema also lets "open" through.
NewStatuses_WithOpen == {"open", "acknowledged", "resolved"}

NewStatuses == {"acknowledged", "resolved"}   \* what a PATCH may ask for
Statuses == {"open"} \cup NewStatuses

(***************************************************************************)
(* resolved tells whether resolved_at is set.  by is a history field that  *)
(* no code stores: the process that inserted the row.                      *)
(***************************************************************************)
AlertRow == [app : Apps, sev : Severities, status : Statuses,
             resolved : BOOLEAN, by : Detectors]

NewAlert(a, s, d) ==
    [app |-> a, sev |-> s, status |-> "open", resolved |-> FALSE, by |-> d]

IsOpen(i) == alerts[i].status = "open"

\* Mutant: the filter asks for the wrong status.
OpenSeverities_Acknowledged(a) ==
    {alerts[i].sev : i \in {j \in DOMAIN alerts :
                              alerts[j].app = a /\ alerts[j].status = "acknowledged"}}

\* SELECT severity FROM drift_alerts WHERE application_id = a AND status = 'open'
OpenSeverities(a) ==
    {alerts[i].sev : i \in {j \in DOMAIN alerts : alerts[j].app = a /\ IsOpen(j)}}
================================================================================
