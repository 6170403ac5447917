------------------------------ MODULE LogIngest -------------------------------
(***************************************************************************)
(* A log's way from POST /logs to its embedding: api/routers/logs.py and   *)
(* log_service.create_log store the row and answer; a background task of   *)
(* the API process then enqueues a job (workers/log_worker.py), and an rq  *)
(* worker reads the prompt, embeds it and updates the row.  seed --reset   *)
(* may truncate the table in between.  A request is named by the id of the *)
(* row it inserts, and its job by the same id.                             *)
(***************************************************************************)
EXTENDS JobQueue, FiniteSets

CONSTANT MaxFaults   \* bound: failed statements, calls and crashes

ASSUME FaultsAssumption == MaxFaults \in Nat

Logs == Jobs

VARIABLES
    handler,   \* handler[r]: how far the request that inserts r is
    reply,     \* reply[r]: what its client got
    stored,    \* llm_logs: the ids of the committed rows
    embedded,  \* those whose prompt_embedding is not NULL
    exec,      \* exec[w]: the job that worker w runs, and how far
    faults,    \* faults so far
    wiped,     \* history: rows that a reset deleted
    hit        \* history: logs whose way a fault has cut short

apiVars == <<handler, reply>>
tableVars == <<stored, embedded, wiped>>
vars == <<queue, registry, handler, reply, stored, embedded, exec, faults, wiped, hit>>

-------------------------------------------------------------------------------
(* State *)

Handling == {"insert", "refresh", "background"}
Free == [pc |-> "idle", job |-> NoJob]
Running == {"fetch", "embed", "update"}

TypeOK ==
    /\ QueueTypeOK
    /\ handler \in [Logs -> Handling \cup {"new", "done"}]
    /\ reply \in [Logs -> {"none", "201", "500", "lost"}]
    /\ stored \in SUBSET Logs
    /\ embedded \in SUBSET Logs
    /\ exec \in [Workers -> [pc : Running \cup {"idle", "down"}, job : Jobs \cup {NoJob}]]
    /\ faults \in 0..MaxFaults
    /\ wiped \in SUBSET Logs
    /\ hit \in SUBSET Logs

Init ==
    /\ QueueInit
    /\ handler = [r \in Logs |-> "new"]
    /\ reply = [r \in Logs |-> "none"]
    /\ stored = {}
    /\ embedded = {}
    /\ exec = [w \in Workers |-> Free]
    /\ faults = 0
    /\ wiped = {}
    /\ hit = {}

\* A fault that cuts short the way of the logs in S.
Fault(S) ==
    /\ faults < MaxFaults
    /\ faults' = faults + 1
    /\ hit' = hit \cup S

NoFault == UNCHANGED <<faults, hit>>

-------------------------------------------------------------------------------
(* POST /logs *)

Receive(r) ==
    /\ handler[r] = "new"
    /\ handler' = [handler EXCEPT ![r] = "insert"]
    /\ NoFault
    /\ UNCHANGED <<queueVars, reply, tableVars, exec>>

\* INSERT and COMMIT.
Store(r) ==
    /\ handler[r] = "insert"
    /\ stored' = stored \cup {r}
    /\ handler' = [handler EXCEPT ![r] = "refresh"]
    /\ NoFault
    /\ UNCHANGED <<queueVars, reply, embedded, wiped, exec>>

\* The row is read back and answered; the enqueueing is left to a background task.
Respond(r) ==
    /\ handler[r] = "refresh"
    /\ r \in stored
    /\ reply' = [reply EXCEPT ![r] = "201"]
    /\ handler' = [handler EXCEPT ![r] = "background"]
    /\ NoFault
    /\ UNCHANGED <<queueVars, tableVars, exec>>

\* Mutant: the row is answered from memory, without reading it back.
RefreshFindsNothing_Answers(r) ==
    /\ handler[r] = "refresh"
    /\ r \notin stored
    /\ reply' = [reply EXCEPT ![r] = "201"]
    /\ handler' = [handler EXCEPT ![r] = "background"]
    /\ NoFault
    /\ UNCHANGED <<queueVars, tableVars, exec>>

\* The row was truncated before it was read back: the refresh raises.
RefreshFindsNothing(r) ==
    /\ handler[r] = "refresh"
    /\ r \notin stored
    /\ reply' = [reply EXCEPT ![r] = "500"]
    /\ handler' = [handler EXCEPT ![r] = "done"]
    /\ NoFault
    /\ UNCHANGED <<queueVars, tableVars, exec>>

\* Mutant: the job is enqueued while the row is being inserted.
EnqueueJob_Early(r) ==
    /\ handler[r] \in {"insert", "background"}
    /\ IF registry[r] = "none" THEN Enqueue(r) ELSE UNCHANGED queueVars
    /\ handler' = [handler EXCEPT ![r] = IF @ = "insert" THEN "insert" ELSE "done"]
    /\ NoFault
    /\ UNCHANGED <<reply, tableVars, exec>>

\* enqueue_embedding_job, run after the response.
EnqueueJob(r) ==
    /\ handler[r] = "background"
    /\ Enqueue(r)
    /\ handler' = [handler EXCEPT ![r] = "done"]
    /\ NoFault
    /\ UNCHANGED <<reply, tableVars, exec>>

\* The exception is logged and swallowed, whether Redis got the job or not.
EnqueueFails(r) ==
    /\ handler[r] = "background"
    /\ Fault({r})
    /\ Enqueue(r) \/ UNCHANGED queueVars
    /\ handler' = [handler EXCEPT ![r] = "done"]
    /\ UNCHANGED <<reply, tableVars, exec>>

\* A statement of create_log raises; a COMMIT that fails may have committed.
StoreFails(r) ==
    /\ handler[r] \in {"insert", "refresh"}
    /\ Fault({r})
    /\ \/ UNCHANGED stored
       \/ handler[r] = "insert" /\ stored' = stored \cup {r}
    /\ reply' = [reply EXCEPT ![r] = "500"]
    /\ handler' = [handler EXCEPT ![r] = "done"]
    /\ UNCHANGED <<queueVars, embedded, wiped, exec>>

InFlight == {r \in Logs : handler[r] \in Handling}

\* The API process dies with all it has in hand, background tasks included; of
\* the INSERTs under way some may have been committed.
ApiCrash ==
    /\ InFlight # {}
    /\ Fault(InFlight)
    /\ \E S \in SUBSET {r \in InFlight : handler[r] = "insert"} : stored' = stored \cup S
    /\ handler' = [r \in Logs |-> IF r \in InFlight THEN "done" ELSE handler[r]]
    /\ reply' = [r \in Logs |-> IF r \in InFlight /\ reply[r] = "none" THEN "lost"
                                ELSE reply[r]]
    /\ UNCHANGED <<queueVars, embedded, wiped, exec>>

-------------------------------------------------------------------------------
(* The rq worker and generate_embedding *)

At(w, pc) == exec[w].pc = pc

Take(w) ==
    /\ At(w, "idle")
    /\ Dequeue
    /\ exec' = [exec EXCEPT ![w] = [pc |-> "fetch", job |-> Head(queue)]]
    /\ NoFault
    /\ UNCHANGED <<apiVars, tableVars>>

\* The job's function ends, and RQ files the job.
End(w, place) ==
    /\ Ended(exec[w].job, place)
    /\ exec' = [exec EXCEPT ![w] = Free]

\* SELECT id, prompt; a transaction is open from here on.  Without a row the job
\* returns, with a warning.
Fetch(w) ==
    /\ At(w, "fetch")
    /\ IF exec[w].job \in stored
       THEN exec' = [exec EXCEPT ![w].pc = "embed"] /\ UNCHANGED queueVars
       ELSE End(w, "finished")
    /\ NoFault
    /\ UNCHANGED <<apiVars, tableVars>>

Embed(w) ==
    /\ At(w, "embed")
    /\ exec' = [exec EXCEPT ![w].pc = "update"]
    /\ NoFault
    /\ UNCHANGED <<queueVars, apiVars, tableVars>>

\* The exception is logged and swallowed: the column stays NULL.
EmbedFails(w) ==
    /\ At(w, "embed")
    /\ Fault({exec[w].job})
    /\ End(w, "finished")
    /\ UNCHANGED <<apiVars, tableVars>>

\* UPDATE and COMMIT.
Update(w) ==
    /\ At(w, "update")
    /\ embedded' = embedded \cup {exec[w].job}
    /\ End(w, "finished")
    /\ NoFault
    /\ UNCHANGED <<apiVars, stored, wiped>>

\* A statement raises, and the exception leaves the job.
StatementFails(w) ==
    /\ exec[w].pc \in {"fetch", "update"}
    /\ Fault({exec[w].job})
    /\ \/ UNCHANGED embedded
       \/ At(w, "update") /\ embedded' = embedded \cup {exec[w].job}
    /\ End(w, "failed")
    /\ UNCHANGED <<apiVars, stored, wiped>>

Crash(w) ==
    /\ exec[w].pc \in Running
    /\ Fault({exec[w].job})
    /\ exec' = [exec EXCEPT ![w] = [pc |-> "down", job |-> NoJob]]
    /\ UNCHANGED <<queueVars, apiVars, tableVars>>

\* Mutant: the signal drops the job in hand.
Stop_AtOnce(w) ==
    /\ ~At(w, "down")
    /\ exec' = [exec EXCEPT ![w] = [pc |-> "down", job |-> NoJob]]
    /\ NoFault
    /\ UNCHANGED <<queueVars, apiVars, tableVars>>

\* SIGTERM: a worker finishes the job it has, so it stops between jobs.
Stop(w) ==
    /\ At(w, "idle")
    /\ exec' = [exec EXCEPT ![w].pc = "down"]
    /\ NoFault
    /\ UNCHANGED <<queueVars, apiVars, tableVars>>

Start(w) ==
    /\ At(w, "down")
    /\ exec' = [exec EXCEPT ![w] = Free]
    /\ NoFault
    /\ UNCHANGED <<queueVars, apiVars, tableVars>>

Abandon(j) ==
    /\ \E w \in Workers : At(w, "idle")
    /\ \A w \in Workers : exec[w].job # j
    /\ AbandonJob(j)
    /\ NoFault
    /\ UNCHANGED <<apiVars, tableVars, exec>>

-------------------------------------------------------------------------------
(* seed --reset *)

\* Mutant: rows are deleted without the table lock.
Reset_NoLock ==
    /\ stored # {}
    /\ wiped' = wiped \cup stored
    /\ stored' = {}
    /\ embedded' = {}
    /\ NoFault
    /\ UNCHANGED <<queueVars, apiVars, exec>>

\* TRUNCATE waits for the transactions that have read the table.
Reset ==
    /\ stored # {}
    /\ \A w \in Workers : exec[w].pc \notin {"embed", "update"}
    /\ wiped' = wiped \cup stored
    /\ stored' = {}
    /\ embedded' = {}
    /\ NoFault
    /\ UNCHANGED <<queueVars, apiVars, exec>>

-------------------------------------------------------------------------------
Handle(r) == Receive(r) \/ Store(r) \/ Respond(r) \/ RefreshFindsNothing(r) \/ EnqueueJob(r)
HandleFails(r) == EnqueueFails(r) \/ StoreFails(r)
Work(w) == Take(w) \/ Fetch(w) \/ Embed(w) \/ Update(w)
WorkFails(w) == EmbedFails(w) \/ StatementFails(w) \/ Crash(w)

Next ==
    \/ \E r \in Logs : Handle(r) \/ HandleFails(r)
    \/ \E w \in Workers : Work(w) \/ WorkFails(w) \/ Stop(w) \/ Start(w)
    \/ \E j \in Jobs : Abandon(j)
    \/ ApiCrash
    \/ Reset

Spec == Init /\ [][Next]_vars

(***************************************************************************)
(* Handlers and workers that are up take their steps; nobody has to send a *)
(* request, to reset the tables or to start a worker.                      *)
(***************************************************************************)
Fairness ==
    /\ \A r \in Logs : WF_vars(Handle(r) /\ handler[r] # "new")
    /\ \A w \in Workers : WF_vars(Work(w))
FairSpec == Spec /\ Fairness

-------------------------------------------------------------------------------
(* Properties *)

(***************************************************************************)
(* logs.py:16, "log is already persisted regardless".  A log that was      *)
(* answered 201 is in the table unless a reset deleted it, and so is every *)
(* log that a job was made for: a job never misses a row that is still to  *)
(* be committed.                                                           *)
(***************************************************************************)
Persisted(r) == r \in stored \cup wiped
AnsweredIsStored ==
    \A r \in Logs : reply[r] = "201" \/ registry[r] # "none" => Persisted(r)

OnItsWay(r) ==
    \/ handler[r] \in {"refresh", "background"}
    \/ registry[r] = "queued"
    \/ \E w \in Workers : exec[w].job = r /\ exec[w].pc \in Running

(***************************************************************************)
(* logs.py:53-63 and log_worker.py:55-84.  A stored log that is not        *)
(* embedded is on its way, in its handler's hands, in the queue or in a    *)
(* worker's, unless a fault hit it: nothing else, a reset, a stop signal   *)
(* or the order of commits and jobs included, leaves a NULL behind.        *)
(***************************************************************************)
NoneForgotten == \A r \in stored \ embedded : OnItsWay(r) \/ r \in hit

(***************************************************************************)
(* log_worker.py:62-83.  Only rows that exist have embeddings, although    *)
(* the table may be truncated at any moment of a job.                      *)
(***************************************************************************)
EmbeddedExist == embedded \subseteq stored

Ledger == INSTANCE LogLedger WITH confirmed <- {r \in Logs : reply[r] = "201"}, gone <- wiped

(***************************************************************************)
(* log_service.create_log and generate_embedding as a whole.  Although a   *)
(* log is stored, read back, answered, queued, read and updated in         *)
(* statements of two processes, with failures, crashes and truncations in  *)
(* between, the table behaves as LogLedger: a log is stored once,          *)
(* confirmed and embedded only while it is there, and stays away when it   *)
(* was truncated.                                                          *)
(***************************************************************************)
RefinesLogLedger == Ledger!Spec

(***************************************************************************)
(* What makes the properties inductive: a log is in the table before       *)
(* anything else knows it, and a worker that reads on has a row locked.    *)
(***************************************************************************)
IInv ==
    /\ TypeOK
    /\ \A r \in Logs : handler[r] \in {"refresh", "background"} => Persisted(r)
    /\ \A i \in DOMAIN queue : Persisted(queue[i])
    /\ \A w \in Workers : exec[w].pc \in Running => exec[w].job \in Jobs /\ Persisted(exec[w].job)
    /\ \A w \in Workers : exec[w].pc \in {"embed", "update"} => exec[w].job \in stored
    /\ AnsweredIsStored
    /\ NoneForgotten
    /\ EmbeddedExist

(***************************************************************************)
(* log_worker.py:4-7, the flow of the docstring: a stored log is embedded  *)
(* in the end, unless it is deleted, a fault hits it or a worker is down.  *)
(***************************************************************************)
EventuallyEmbedded ==
    \A r \in Logs : r \in stored ~> \/ r \in embedded
                                    \/ r \notin stored
                                    \/ r \in hit
                                    \/ \E w \in Workers : At(w, "down")

================================================================================
