------------------------------- MODULE EvalRuns -------------------------------
(***************************************************************************)
(* Eval runs of one suite: POST /evals/run (api/routers/evals.py), which   *)
(* enqueues a job, the rq worker that executes it (workers/eval_worker.py), *)
(* and the gate's command line (eval/runner.py), both around               *)
(* eval/engine.run_eval.  A run and its results are written in the one     *)
(* transaction that read the test cases.                                   *)
(***************************************************************************)
EXTENDS JobQueue, FiniteSets, EvalGate

CONSTANTS
    Runners,        \* processes of the command line, one per CI job
    Cases,          \* test cases that may be created in the suite
    eval_methods,   \* eval_methods[c]: the scorers of case c, in order
    gate_threshold, \* gate_threshold[k]: that of the request or the command line k
    NoCase,         \* "no case in hand"
    MaxFaults       \* bound: failed statements, calls and crashes

Methods == {"exact_match", "embedding_similarity", "llm_judge"}
Answers == {"pass", "fail", "raised"}
MaxJudgeAttempts == 3

ASSUME RunnersAssumption == Runners \cap (Workers \cup Jobs) = {}
ASSUME MethodsAssumption == eval_methods \in [Cases -> Seq(Methods)]
ASSUME ThresholdAssumption == gate_threshold \in [Jobs \cup Runners -> 0..Scale]
ASSUME CasesAssumption == IsFiniteSet(Cases)
ASSUME NoCaseAssumption == NoCase \notin Cases
ASSUME EvalFaultsAssumption == MaxFaults \in Nat

VARIABLES
    cases,     \* test_cases: the committed rows of the suite
    runs,      \* eval_runs with their eval_results, in commit order
    reply,     \* reply[j]: what the client of POST /evals/run got
    exit,      \* exit[r]: the exit code of the command line
    exec,      \* exec[e]: what the process executes, and how far
    faults     \* faults so far

vars == <<queue, registry, cases, runs, reply, exit, exec, faults>>

-------------------------------------------------------------------------------
(* State *)

Executors == Workers \cup Runners
Keys == Jobs \cup Runners   \* what a run was made for

(***************************************************************************)
(* loaded: the cases the run is about; todo: those still to be evaluated;  *)
(* case, left, passing, attempt: the one under evaluation, its scorers to  *)
(* come, whether all have passed so far, failed calls of the judge;        *)
(* passed: the cases that passed.  said is a history: what each scorer of  *)
(* the case has answered.  No step reads it.                               *)
(***************************************************************************)
Free == [pc |-> "idle", key |-> NoJob, loaded |-> {}, todo |-> {}, case |-> NoCase,
         left |-> << >>, passing |-> FALSE, attempt |-> 0, said |-> << >>, passed |-> {},
         gate |-> "none"]

Down == [Free EXCEPT !.pc = "down"]
Over == [Free EXCEPT !.pc = "over"]   \* the command line has exited

InTransaction == {"next", "score"}
Active == InTransaction \cup {"load", "refresh"}

ExecType == [pc : Active \cup {"idle", "down", "over"}, key : Keys \cup {NoJob},
             loaded : SUBSET Cases, todo : SUBSET Cases, case : Cases \cup {NoCase},
             left : Seq(Methods), passing : BOOLEAN, attempt : 0..(MaxJudgeAttempts - 1),
             said : Seq(Methods \X Answers), passed : SUBSET Cases, gate : {"none", "pass", "fail"}]

RunRow == [by : Keys, cases : SUBSET Cases, passed : SUBSET Cases, rate : 0..Scale,
           gate : {"pass", "fail"}]

TypeOK ==
    /\ QueueTypeOK
    /\ cases \in SUBSET Cases
    /\ runs \in Seq(RunRow)
    /\ reply \in [Jobs -> {"none", "202", "503", "lost"}]
    /\ exit \in [Runners -> {"none", "0", "1"}]
    /\ exec \in [Executors -> ExecType]
    /\ faults \in 0..MaxFaults

Init ==
    /\ QueueInit
    /\ cases \in SUBSET Cases
    /\ runs = << >>
    /\ reply = [j \in Jobs |-> "none"]
    /\ exit = [r \in Runners |-> "none"]
    /\ exec = [e \in Executors |-> Free]
    /\ faults = 0

At(e, pc) == exec[e].pc = pc
Fault == faults < MaxFaults /\ faults' = faults + 1

-------------------------------------------------------------------------------
(* The API: POST /test-cases and POST /evals/run *)

CreateCase(c) ==
    /\ cases' = cases \cup {c}
    /\ UNCHANGED <<queueVars, runs, reply, exit, exec, faults>>

Trigger(j) ==
    /\ reply[j] = "none"
    /\ Enqueue(j)
    /\ reply' = [reply EXCEPT ![j] = "202"]
    /\ UNCHANGED <<cases, runs, exit, exec, faults>>

\* The call of Redis raises, or the API process dies in it; either way Redis may
\* have got the job.
TriggerFails(j) ==
    /\ reply[j] = "none"
    /\ Fault
    /\ Enqueue(j) \/ UNCHANGED queueVars
    /\ \E answer \in {"503", "lost"} : reply' = [reply EXCEPT ![j] = answer]
    /\ UNCHANGED <<cases, runs, exit, exec>>

-------------------------------------------------------------------------------
(* The rq worker and the command line *)

Take(w) ==
    /\ At(w, "idle")
    /\ Dequeue
    /\ exec' = [exec EXCEPT ![w] = [Free EXCEPT !.pc = "load", !.key = Head(queue)]]
    /\ UNCHANGED <<cases, runs, reply, exit, faults>>

Invoke(r) ==
    /\ At(r, "idle")
    /\ exec' = [exec EXCEPT ![r] = [Free EXCEPT !.pc = "load", !.key = r]]
    /\ UNCHANGED <<queueVars, cases, runs, reply, exit, faults>>

\* run_eval is over: RQ files the worker's job, the command line exits.
Finish(e, place, code) ==
    /\ IF e \in Workers THEN Ended(exec[e].key, place) ELSE UNCHANGED queueVars
    /\ exit' = IF e \in Runners THEN [exit EXCEPT ![e] = code] ELSE exit
    /\ exec' = [exec EXCEPT ![e] = IF e \in Runners THEN Over ELSE Free]

\* Mutant: the signal drops the job in hand.
Stop_AtOnce(w) ==
    /\ ~At(w, "down")
    /\ exec' = [exec EXCEPT ![w] = Down]
    /\ UNCHANGED <<queueVars, cases, runs, reply, exit, faults>>

\* A worker finishes its job before it heeds SIGTERM.
Stop(w) ==
    /\ At(w, "idle")
    /\ exec' = [exec EXCEPT ![w] = Down]
    /\ UNCHANGED <<queueVars, cases, runs, reply, exit, faults>>

Start(w) ==
    /\ At(w, "down")
    /\ exec' = [exec EXCEPT ![w] = Free]
    /\ UNCHANGED <<queueVars, cases, runs, reply, exit, faults>>

\* Mutant: the job of a dead worker is run again.
Abandon_Retry(j) ==
    /\ registry[j] = "started"
    /\ \A w \in Workers : exec[w].key # j
    /\ Enqueue(j)
    /\ UNCHANGED <<cases, runs, reply, exit, exec, faults>>

Abandon(j) ==
    /\ \E w \in Workers : At(w, "idle")
    /\ \A w \in Workers : exec[w].key # j
    /\ AbandonJob(j)
    /\ UNCHANGED <<cases, runs, reply, exit, exec, faults>>

-------------------------------------------------------------------------------
(* run_eval *)

\* SELECT the cases; the row of the run is flushed in the same transaction.  No
\* cases: ValueError, which the worker logs and swallows.
Load(e) ==
    /\ At(e, "load")
    /\ IF cases = {}
       THEN Finish(e, "finished", "1")
       ELSE /\ exec' = [exec EXCEPT ![e].pc = "next", ![e].loaded = cases, ![e].todo = cases]
            /\ UNCHANGED <<queueVars, exit>>
    /\ UNCHANGED <<cases, runs, reply, faults>>

\* Case c is under evaluation; without scorers it cannot pass.
Begun(x, c) ==
    [x EXCEPT !.pc = "score", !.todo = @ \ {c}, !.case = c, !.left = eval_methods[c],
              !.passing = eval_methods[c] # << >>, !.attempt = 0, !.said = << >>]

NextCase(e) ==
    /\ At(e, "next")
    /\ \E c \in exec[e].todo : exec' = [exec EXCEPT ![e] = Begun(@, c)]
    /\ UNCHANGED <<queueVars, cases, runs, reply, exit, faults>>

Verdict(x) ==
    [x EXCEPT !.pc = "next", !.case = NoCase, !.passing = FALSE, !.said = << >>,
              !.passed = IF x.passing THEN @ \cup {x.case} ELSE @]

\* What the scorer at hand says.
Heard(x, answer) == Append(x.said, <<Head(x.left), answer>>)

\* One scorer's score is compared with its bar; all must pass.
Scored(x, ok) ==
    [x EXCEPT !.left = Tail(@), !.attempt = 0, !.passing = @ /\ ok,
              !.said = Heard(x, IF ok THEN "pass" ELSE "fail")]

\* Mutant: the scorers that have answered decide.
ScorerRaised_KeepsPasses(x) ==
    [x EXCEPT !.left = << >>, !.attempt = 0, !.said = Heard(x, "raised")]

\* A scorer raised: the case fails and its other scorers are skipped.
ScorerRaised(x) ==
    [x EXCEPT !.left = << >>, !.attempt = 0, !.passing = FALSE, !.said = Heard(x, "raised")]

\* The target echoes the expected output, so an exact match never fails.
Score(e) ==
    /\ At(e, "score")
    /\ exec[e].left # << >>
    /\ \E ok \in BOOLEAN :
          /\ Head(exec[e].left) = "exact_match" => ok
          /\ exec' = [exec EXCEPT ![e] = Scored(@, ok)]
    /\ UNCHANGED <<queueVars, cases, runs, reply, exit, faults>>

AskedInVain(x) == [x EXCEPT !.attempt = @ + 1]

\* Mutant: off by one, a fourth call.
JudgeFails_OneMore(e) ==
    /\ At(e, "score")
    /\ exec[e].left # << >>
    /\ Head(exec[e].left) = "llm_judge"
    /\ exec' = [exec EXCEPT ![e] = IF @.attempt = MaxJudgeAttempts THEN ScorerRaised(@)
                                   ELSE AskedInVain(@)]
    /\ UNCHANGED <<queueVars, cases, runs, reply, exit, faults>>

\* Mutant: after the third failed call the count starts again.
JudgeFails_Forever(e) ==
    /\ At(e, "score")
    /\ exec[e].left # << >>
    /\ Head(exec[e].left) = "llm_judge"
    /\ exec' = [exec EXCEPT ![e].attempt = (@ + 1) % MaxJudgeAttempts]
    /\ UNCHANGED <<queueVars, cases, runs, reply, exit, faults>>

\* A call of the judge fails; after the third in a row the scorer raises.
JudgeFails(e) ==
    /\ At(e, "score")
    /\ exec[e].left # << >>
    /\ Head(exec[e].left) = "llm_judge"
    /\ exec' = [exec EXCEPT ![e] = IF @.attempt + 1 = MaxJudgeAttempts THEN ScorerRaised(@)
                                   ELSE AskedInVain(@)]
    /\ UNCHANGED <<queueVars, cases, runs, reply, exit, faults>>

\* The embedding model raises.
EmbeddingFails(e) ==
    /\ At(e, "score")
    /\ exec[e].left # << >>
    /\ Head(exec[e].left) = "embedding_similarity"
    /\ Fault
    /\ exec' = [exec EXCEPT ![e] = ScorerRaised(@)]
    /\ UNCHANGED <<queueVars, cases, runs, reply, exit>>

EndCase(e) ==
    /\ At(e, "score")
    /\ exec[e].left = << >>
    /\ exec' = [exec EXCEPT ![e] = Verdict(@)]
    /\ UNCHANGED <<queueVars, cases, runs, reply, exit, faults>>

\* The row of the run, with its rate rounded to r.
RunOf(x, r) ==
    [by |-> x.key, cases |-> x.loaded, passed |-> x.passed, rate |-> r,
     gate |-> GateResult(r, gate_threshold[x.key])]

Rates(x) == Rounded(Cardinality(x.passed), Cardinality(x.loaded))

\* Mutant: the run is flushed, not committed.
Commit_FlushOnly(e) ==
    /\ At(e, "next")
    /\ exec[e].todo = {}
    /\ \E r \in Rates(exec[e]) :
          exec' = [exec EXCEPT ![e].pc = "refresh", ![e].gate = RunOf(exec[e], r).gate]
    /\ UNCHANGED <<queueVars, cases, runs, reply, exit, faults>>

\* The run's totals and every result are committed at once.
Commit(e) ==
    /\ At(e, "next")
    /\ exec[e].todo = {}
    /\ \E r \in Rates(exec[e]) :
          /\ runs' = Append(runs, RunOf(exec[e], r))
          /\ exec' = [exec EXCEPT ![e].pc = "refresh", ![e].gate = RunOf(exec[e], r).gate]
    /\ UNCHANGED <<queueVars, cases, reply, exit, faults>>

\* The run is read back (by the command line with its results) and returned.
Refresh(e) ==
    /\ At(e, "refresh")
    /\ \E i \in DOMAIN runs : runs[i].by = exec[e].key
    /\ Finish(e, "finished", IF exec[e].gate = "pass" THEN "0" ELSE "1")
    /\ UNCHANGED <<cases, runs, reply, faults>>

\* Mutant: what was committed is returned without reading it back.
RefreshFindsNothing_Answers(e) ==
    /\ At(e, "refresh")
    /\ Finish(e, "finished", IF exec[e].gate = "pass" THEN "0" ELSE "1")
    /\ UNCHANGED <<cases, runs, reply, faults>>

\* The run was truncated before it was read back.
RefreshFindsNothing(e) ==
    /\ At(e, "refresh")
    /\ \A i \in DOMAIN runs : runs[i].by # exec[e].key
    /\ Finish(e, "failed", "1")
    /\ UNCHANGED <<cases, runs, reply, faults>>

\* Mutant: what the run computed is returned although its commit failed.
StatementFails_StillPasses(e) ==
    /\ At(e, "next")
    /\ exec[e].todo = {}
    /\ Fault
    /\ Finish(e, "failed", IF exec[e].passed = exec[e].loaded THEN "0" ELSE "1")
    /\ UNCHANGED <<cases, runs, reply>>

\* A statement raises and the exception leaves run_eval; a COMMIT that fails may
\* have committed all the same.
StatementFails(e) ==
    /\ exec[e].pc \in {"load", "refresh"} \/ (At(e, "next") /\ exec[e].todo = {})
    /\ Fault
    /\ \/ UNCHANGED runs
       \/ /\ At(e, "next")
          /\ \E r \in Rates(exec[e]) : runs' = Append(runs, RunOf(exec[e], r))
    /\ Finish(e, "failed", "1")
    /\ UNCHANGED <<cases, reply>>

\* RQ's job timeout (180 seconds, none is passed) cancels run_eval.  Raised within a
\* scorer it is a failure of that scorer like any other.
TimesOut(e) ==
    /\ e \in Workers
    /\ exec[e].pc \in Active
    /\ Fault
    /\ Finish(e, "failed", "1")
    /\ UNCHANGED <<cases, runs, reply>>

\* Killed: CI sees a failure, RQ a job that stays started until it is abandoned.
Crash(e) ==
    /\ exec[e].pc \in Active
    /\ Fault
    /\ exec' = [exec EXCEPT ![e] = IF e \in Runners THEN Over ELSE Down]
    /\ exit' = IF e \in Runners THEN [exit EXCEPT ![e] = "1"] ELSE exit
    /\ UNCHANGED <<queueVars, cases, runs, reply>>

-------------------------------------------------------------------------------
(* seed --reset *)

\* Mutant: rows are deleted without the table lock.
Reset_NoLock ==
    /\ cases # {}
    /\ cases' = {}
    /\ runs' = << >>
    /\ UNCHANGED <<queueVars, reply, exit, exec, faults>>

\* TRUNCATE waits for the transactions that have read the tables.
Reset ==
    /\ cases # {}
    /\ \A e \in Executors : exec[e].pc \notin InTransaction
    /\ cases' = {}
    /\ runs' = << >>
    /\ UNCHANGED <<queueVars, reply, exit, exec, faults>>

-------------------------------------------------------------------------------
Evaluate(e) ==
    \/ Load(e) \/ NextCase(e) \/ Score(e) \/ JudgeFails(e) \/ EndCase(e)
    \/ Commit(e) \/ Refresh(e) \/ RefreshFindsNothing(e)
EvaluateFails(e) == EmbeddingFails(e) \/ StatementFails(e) \/ TimesOut(e) \/ Crash(e)

Next ==
    \/ \E c \in Cases : CreateCase(c)
    \/ \E j \in Jobs : Trigger(j) \/ TriggerFails(j) \/ Abandon(j)
    \/ \E w \in Workers : Take(w) \/ Stop(w) \/ Start(w)
    \/ \E r \in Runners : Invoke(r)
    \/ \E e \in Executors : Evaluate(e) \/ EvaluateFails(e)
    \/ Reset

Spec == Init /\ [][Next]_vars

\* A process that is up takes its steps; a call of the judge fails or returns.
Fairness ==
    /\ \A e \in Executors : WF_vars(Evaluate(e))
    /\ \A w \in Workers : WF_vars(Take(w))
FairSpec == Spec /\ Fairness

-------------------------------------------------------------------------------
(* Properties *)

(***************************************************************************)
(* engine.py:9, "persist EvalRun + EvalResults in one transaction".  A     *)
(* stored run is whole, whatever failed or was killed: it was made of all  *)
(* the cases it counts, and these are in the table, although cases are     *)
(* created, and the tables truncated, while it runs.                       *)
(***************************************************************************)
RunsWhole ==
    \A i \in DOMAIN runs :
        /\ runs[i].cases # {}
        /\ runs[i].passed \subseteq runs[i].cases
        /\ runs[i].cases \subseteq cases

AllSaidPass(x) ==
    LET m == eval_methods[x.case]
    IN  m # << >> /\ x.said = [i \in DOMAIN m |-> <<m[i], "pass">>]

(***************************************************************************)
(* engine.py:6, a "case passes iff ALL its methods pass", and 83-112, "a   *)
(* scorer crash fails the case, not the run".  When a case is done with,   *)
(* it has passed if and only if each of its scorers was asked and said     *)
(* that it passes: one that raised, those it made skipped and a judge      *)
(* asked three times in vain count against it, whatever the others said.   *)
(* Nothing else ever passes a case.                                        *)
(***************************************************************************)
ScorersDecide(e) ==
    /\ \A c \in exec'[e].passed \ exec[e].passed :
          At(e, "score") /\ c = exec[e].case /\ AllSaidPass(exec[e])
    /\ At(e, "score") /\ exec'[e].pc = "next" =>
          (exec[e].case \in exec'[e].passed <=> AllSaidPass(exec[e]))
CasesNeedAllMethods == [][\A e \in Executors : ScorersDecide(e)]_vars

(***************************************************************************)
(* engine.py:114-116.  A stored run has a verdict that the exact ratio of  *)
(* its passed cases deserves, although it is taken on a rounded rate: it   *)
(* passes if it meets the threshold of who asked, and fails if it misses   *)
(* it by more than half a ten-thousandth.                                  *)
(***************************************************************************)
VerdictsDeserved ==
    \A i \in DOMAIN runs :
        runs[i].gate \in Deserved(Cardinality(runs[i].passed), Cardinality(runs[i].cases),
                                 gate_threshold[runs[i].by])

(***************************************************************************)
(* eval_worker.py:30-47.  One request or invocation stores one run at the  *)
(* most, a run whose commit or refresh seemed to fail included.            *)
(***************************************************************************)
OneRunEach ==
    \A i, j \in DOMAIN runs : runs[i].by = runs[j].by => i = j

(***************************************************************************)
(* runner.py:6, "0 = gate pass, 1 = gate fail or error. CI blocks merge on *)
(* non-zero".  Nothing merges on a run that was not stored: code 0 is only *)
(* ever set by a process whose run is in the table, with the gate passed.  *)
(***************************************************************************)
Evidence(r) ==
    exit'[r] = "0" /\ exit[r] # "0" =>
        \E i \in DOMAIN runs' : runs'[i].by = r /\ runs'[i].gate = "pass"
MergeNeedsEvidence == [][\A r \in Runners : Evidence(r)]_vars

\* The stored runs without their rounded rates.
Reports == [i \in DOMAIN runs |-> [by |-> runs[i].by, cases |-> runs[i].cases,
                                   passed |-> runs[i].passed, gate |-> runs[i].gate]]

Gate == INSTANCE MergeGate WITH Requesters <- Keys, record <- Reports, answer <- exit

(***************************************************************************)
(* runner.py and engine.py as a whole.  Although cases are read in one     *)
(* statement, scored one by one, committed later and read back later       *)
(* still, with failures and truncations in between, CI sees the gate of    *)
(* MergeGate: whole runs entered at one instant with a deserved verdict, at *)
(* most one of each requester, and one answer to each CI job, which is 0   *)
(* only on a passing run of its own that is stored at that instant.        *)
(***************************************************************************)
RefinesGate == Gate!Spec

\* The jobs that nobody executes although RQ has them as started.
Stranded ==
    {j \in Jobs : /\ registry[j] = "started"
                  /\ \A w \in Workers : exec[w].pc \in Active => exec[w].key # j}

(***************************************************************************)
(* evals.py:47-58 and RQ's worker loop.  A request that was answered 202   *)
(* is known to RQ, a job that is queued is in the queue, and each fault    *)
(* takes at most one job out of the hands that execute it: no interleaving *)
(* of requests, workers, stop signals and RQ's maintenance loses one.      *)
(***************************************************************************)
JobsKept ==
    /\ \A j \in Jobs : /\ reply[j] = "202" => registry[j] # "none"
                       /\ registry[j] = "queued" => \E i \in DOMAIN queue : queue[i] = j
    /\ Cardinality(Stranded) <= faults

-------------------------------------------------------------------------------
(* The inductive invariant *)

\* While a case is passing its scorers have all said so in turn; otherwise one has not.
Faithful(x) ==
    LET m == eval_methods[x.case]
    IN  /\ x.passing =>
              /\ m # << >>
              /\ Len(x.said) + Len(x.left) = Len(m)
              /\ \A i \in DOMAIN x.said : x.said[i] = <<m[i], "pass">>
              /\ \A i \in DOMAIN x.left : x.left[i] = m[Len(x.said) + i]
        /\ ~x.passing => m = << >> \/ \E i \in DOMAIN x.said : x.said[i][2] # "pass"

\* What a process that executes run_eval has found out so far.
Progress(x) ==
    /\ x.passed \subseteq x.loaded
    /\ x.todo \subseteq x.loaded
    /\ x.todo \cap x.passed = {}
    /\ x.pc = "load" => x.passed = {}
    /\ x.pc = "score" => x.case \in x.loaded \ (x.todo \cup x.passed) /\ Faithful(x)
    /\ x.pc \in InTransaction => x.loaded # {} /\ x.loaded \subseteq cases

\* Until its COMMIT a process has stored no run, afterwards the one it returns.
Stored(x) ==
    \A i \in DOMAIN runs : x.pc \in Active /\ runs[i].by = x.key =>
        x.pc = "refresh" /\ runs[i].gate = x.gate

\* A job is executed by the one worker that took it, a runner executes its own run.
OwnKeys ==
    /\ \A w \in Workers : exec[w].pc \in Active =>
          /\ exec[w].key \in Jobs
          /\ registry[exec[w].key] = "started"
          /\ \A v \in Workers : exec[v].pc \in Active /\ exec[v].key = exec[w].key => v = w
    /\ \A r \in Runners : exec[r].pc \in Active => exec[r].key = r
    /\ \A i \in DOMAIN runs : runs[i].by \in Runners => exec[runs[i].by].pc \in {"refresh", "over"}
    /\ \A i \in DOMAIN runs : runs[i].by \in Jobs => registry[runs[i].by] \notin {"none", "queued"}

QueuedOnce ==
    /\ \A i \in DOMAIN queue : registry[queue[i]] = "queued"
    /\ \A i, j \in DOMAIN queue : queue[i] = queue[j] => i = j
    /\ \A j \in Jobs : reply[j] = "none" => registry[j] = "none"

\* The stored rate and verdict are computed from the stored results.
RatesRight ==
    \A i \in DOMAIN runs :
        /\ runs[i].rate \in Rounded(Cardinality(runs[i].passed), Cardinality(runs[i].cases))
        /\ runs[i].gate = GateResult(runs[i].rate, gate_threshold[runs[i].by])

(***************************************************************************)
(* The strengthening under which RunsWhole, OneRunEach, VerdictsDeserved   *)
(* and MergeNeedsEvidence are preserved: who executes what, what it has found  *)
(* and what of it is stored.                                               *)
(***************************************************************************)
IInv ==
    /\ TypeOK
    /\ \A e \in Executors : Progress(exec[e]) /\ Stored(exec[e])
    /\ OwnKeys
    /\ QueuedOnce
    /\ RunsWhole
    /\ OneRunEach
    /\ RatesRight

-------------------------------------------------------------------------------
(* Liveness *)

(***************************************************************************)
(* engine.py:74-112 and llm_judge.py:69-92: an execution ends, however the *)
(* judge fails.                                                            *)
(***************************************************************************)
RunsEnd == \A e \in Executors : exec[e].pc \in Active ~> exec[e].pc \notin Active

\* The execution y is further on than x was.
Further(x, y) ==
    \/ x.pc = "load" /\ y.pc = "next"
    \/ x.pc = "next" /\ y.pc = "refresh"
    \/ /\ x.pc \in {"next", "score"} /\ y.pc \in {"next", "score"}
       /\ \/ y.todo \subseteq x.todo /\ y.todo # x.todo
          \/ /\ y.todo = x.todo /\ x.pc = "score"
             /\ \/ y.pc = "next"
                \/ Len(y.left) < Len(x.left)
                \/ y.left = x.left /\ y.attempt > x.attempt

(***************************************************************************)
(* Why RunsEnd: whatever the others do and whatever fails, each step of an *)
(* execution takes it further, and none begins it again, or another.       *)
(***************************************************************************)
RunAdvances ==
    [][\A e \in Executors : exec[e].pc \in Active /\ exec'[e].pc \in Active =>
          \/ exec'[e] = exec[e] /\ ~Evaluate(e)
          \/ exec'[e].key = exec[e].key /\ Further(exec[e], exec'[e])]_vars

RunOfRequest(j) == \E i \in DOMAIN runs : runs[i].by = j

(***************************************************************************)
(* evals.py:49, "Worker executes it; poll GET /evals/runs for the result". *)
(* A request that was accepted gets its run, unless a fault happens, a     *)
(* worker is stopped or the suite has no cases.                            *)
(***************************************************************************)
ResultAppears ==
    \A j \in Jobs : reply[j] = "202" /\ registry[j] = "queued"
                    ~> \/ RunOfRequest(j)
                       \/ faults > 0
                       \/ cases = {}
                       \/ \E w \in Workers : At(w, "down")

================================================================================
