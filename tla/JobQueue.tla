------------------------------- MODULE JobQueue -------------------------------
(***************************************************************************)
(* One queue of RQ, as workers/log_worker.py and workers/eval_worker.py    *)
(* use it: enqueue, and an `rq worker` that calls the job's function.  No  *)
(* Retry is ever passed, so a job runs once and ends in the registry of    *)
(* finished or of failed jobs.  Redis keeps what it has acknowledged.      *)
(***************************************************************************)
EXTENDS Integers, Sequences

CONSTANTS
    Jobs,     \* job ids
    NoJob,    \* "no job in hand"
    Workers   \* the rq worker processes that listen to this queue

ASSUME NoJobAssumption == NoJob \notin Jobs

VARIABLES
    queue,    \* the Redis list of the jobs that wait
    registry  \* registry[j]: where RQ has job j

queueVars == <<queue, registry>>

Places == {"none", "queued", "started", "finished", "failed"}

QueueTypeOK ==
    /\ queue \in Seq(Jobs)
    /\ registry \in [Jobs -> Places]

QueueInit ==
    /\ queue = << >>
    /\ registry = [j \in Jobs |-> "none"]

Enqueue(j) ==
    /\ queue' = Append(queue, j)
    /\ registry' = [registry EXCEPT ![j] = "queued"]

\* A worker takes the job that has waited longest.
Dequeue ==
    /\ queue # << >>
    /\ queue' = Tail(queue)
    /\ registry' = [registry EXCEPT ![Head(queue)] = "started"]

\* The function returned, or an exception left it.
Ended(j, place) ==
    /\ registry' = [registry EXCEPT ![j] = place]
    /\ UNCHANGED queue

\* The maintenance of any worker fails a job whose worker died.
AbandonJob(j) ==
    /\ registry[j] = "started"
    /\ registry' = [registry EXCEPT ![j] = "failed"]
    /\ UNCHANGED queue
================================================================================
