---------------------------- MODULE AlertLifecycle ----------------------------
(***************************************************************************)
(* PATCH /drift/alerts/{id}: drift_service.update_status behind the route  *)
(* of api/routers/drift.py.  A request loads the row, then writes back in  *)
(* one UPDATE only the columns whose value differs from what IT loaded, as *)
(* SQLAlchemy's unit of work does; the two statements are separate under   *)
(* READ COMMITTED, so other requests commit in between.                    *)
(***************************************************************************)
EXTENDS AlertTable

CONSTANTS
    Requests,   \* PATCH handlers that may be in progress at once
    MaxPatches  \* bound: PATCH requests in a behaviour

ASSUME MaxPatchesAssumption == MaxPatches \in Nat

VARIABLES
    patch,      \* patch[r]: the handler's progress and the row it loaded
    patches     \* PATCH requests received so far

FreeRequest == [pc |-> "free", id |-> 0, new |-> "resolved",
                status |-> "open", resolved |-> FALSE]

LifecycleTypeOK ==
    /\ patch \in [Requests -> [pc : {"free", "loaded"}, id : Nat, new : NewStatuses,
                               status : Statuses, resolved : BOOLEAN]]
    /\ patches \in 0..MaxPatches

LifecycleInit ==
    /\ patch = [r \in Requests |-> FreeRequest]
    /\ patches = 0

(***************************************************************************)
(* SELECT the row.  An unknown id answers 404 and changes nothing, so only *)
(* ids of existing rows are taken.  No guard on the row's current status.  *)
(***************************************************************************)
LoadAlert(r) ==
    /\ patch[r].pc = "free"
    /\ patches < MaxPatches
    /\ \E i \in DOMAIN alerts, new \in NewStatuses :
          patch' = [patch EXCEPT ![r] =
                      [pc |-> "loaded", id |-> i, new |-> new,
                       status |-> alerts[i].status, resolved |-> alerts[i].resolved]]
    /\ patches' = patches + 1
    /\ UNCHANGED alerts

\* Mutant: resolved_at is set on resolving and never cleared.
Patched_KeepsResolvedAt(row, p) ==
    [row EXCEPT
       !.status = IF p.new # p.status THEN p.new ELSE @,
       !.resolved = @ \/ p.new = "resolved"]

\* The row after the UPDATE: status is written when it changes what was loaded;
\* resolved_at is written when it is set anew, or cleared from a loaded value.
Patched(row, p) ==
    [row EXCEPT
       !.status = IF p.new # p.status THEN p.new ELSE @,
       !.resolved = IF p.new = "resolved" THEN TRUE
                    ELSE IF p.resolved THEN FALSE ELSE @]

CommitPatch(r) ==
    /\ patch[r].pc = "loaded"
    /\ alerts' = [alerts EXCEPT ![patch[r].id] = Patched(@, patch[r])]
    /\ patch' = [patch EXCEPT ![r] = FreeRequest]
    /\ UNCHANGED patches

\* The statement or the API process fails before the commit: rolled back.
AbortPatch(r) ==
    /\ patch[r].pc = "loaded"
    /\ patch' = [patch EXCEPT ![r] = FreeRequest]
    /\ UNCHANGED <<alerts, patches>>

LifecycleNext(r) == LoadAlert(r) \/ CommitPatch(r) \/ AbortPatch(r)
================================================================================
