--------------------------- MODULE LogIngest_proofs ---------------------------
(***************************************************************************)
(* Theorems about LogIngest, for any logs, workers, faults and resets.     *)
(***************************************************************************)
EXTENDS LogIngest, TLAPS

(***************************************************************************)
(* The initial state satisfies the invariant: nothing is stored or queued. *)
(***************************************************************************)
LEMMA InitIInv == Init => IInv
<1> SUFFICES ASSUME Init PROVE IInv
  OBVIOUS
<1> USE DEF Init, QueueInit, Free
<1>1. TypeOK
  BY FaultsAssumption DEF TypeOK, QueueTypeOK, Places, Handling, Running
<1>2. AnsweredIsStored /\ NoneForgotten /\ EmbeddedExist
  BY DEF AnsweredIsStored, NoneForgotten, EmbeddedExist, Logs
<1> QED BY <1>1, <1>2 DEF IInv, Running, Logs

(***************************************************************************)
(* Adding to the queue adds the one job, taking the first removes it.      *)
(***************************************************************************)
LEMMA QueueFacts ==
  ASSUME NEW q \in Seq(Jobs)
  PROVE  /\ \A j \in Jobs : Append(q, j) \in Seq(Jobs)
         /\ \A j \in Jobs : \A i \in DOMAIN Append(q, j) :
               Append(q, j)[i] = j \/ \E k \in DOMAIN q : Append(q, j)[i] = q[k]
         /\ q # << >> => /\ Tail(q) \in Seq(Jobs)
                         /\ Head(q) \in Jobs
                         /\ 1 \in DOMAIN q /\ Head(q) = q[1]
                         /\ \A i \in DOMAIN Tail(q) : \E k \in DOMAIN q : Tail(q)[i] = q[k]
<1>1. \A j \in Jobs : Append(q, j) \in Seq(Jobs)
  OBVIOUS
<1>2. ASSUME NEW j \in Jobs, NEW i \in DOMAIN Append(q, j)
      PROVE  Append(q, j)[i] = j \/ \E k \in DOMAIN q : Append(q, j)[i] = q[k]
  <2>1. i \in 1..(Len(q) + 1)
    OBVIOUS
  <2>2. i # Len(q) + 1 => i \in DOMAIN q /\ Append(q, j)[i] = q[i]
    BY <2>1
  <2>3. i = Len(q) + 1 => Append(q, j)[i] = j
    OBVIOUS
  <2> QED BY <2>2, <2>3
<1>3. ASSUME q # << >>
      PROVE  /\ Tail(q) \in Seq(Jobs) /\ Head(q) \in Jobs
             /\ 1 \in DOMAIN q /\ Head(q) = q[1]
             /\ \A i \in DOMAIN Tail(q) : i + 1 \in DOMAIN q /\ Tail(q)[i] = q[i + 1]
  BY <1>3
<1> QED BY <1>1, <1>2, <1>3

(***************************************************************************)
(* The steps of a request keep the invariant: the row is committed before  *)
(* it is answered, and answered before its job is made.                    *)
(***************************************************************************)
LEMMA HandlerSteps ==
  ASSUME IInv, NEW r \in Logs, Handle(r) \/ HandleFails(r)
  PROVE  IInv'
<1> USE DEF IInv, TypeOK, QueueTypeOK, Logs, Handling, Places, queueVars, tableVars, NoFault,
        AnsweredIsStored, NoneForgotten, EmbeddedExist, Persisted, OnItsWay
<1>1. CASE Receive(r)
  BY <1>1 DEF Receive
<1>2. CASE Store(r)
  BY <1>2 DEF Store
<1>3. CASE Respond(r)
  BY <1>3 DEF Respond
<1>4. CASE RefreshFindsNothing(r)
  BY <1>4 DEF RefreshFindsNothing
<1>5. CASE EnqueueJob(r)
  BY <1>5, QueueFacts DEF EnqueueJob, Enqueue
<1>6. CASE EnqueueFails(r)
  <2>1. CASE Enqueue(r)
    BY <1>6, <2>1, QueueFacts, FaultsAssumption DEF EnqueueFails, Enqueue, Fault
  <2>2. CASE UNCHANGED queueVars
    BY <1>6, <2>2, FaultsAssumption DEF EnqueueFails, Fault
  <2> QED BY <1>6, <2>1, <2>2 DEF EnqueueFails
<1>7. CASE StoreFails(r)
  BY <1>7, FaultsAssumption DEF StoreFails, Fault
<1> QED BY <1>1, <1>2, <1>3, <1>4, <1>5, <1>6, <1>7 DEF Handle, HandleFails

(***************************************************************************)
(* The death of the API process hits every log it had in hand.             *)
(***************************************************************************)
LEMMA CrashSteps == ASSUME IInv, ApiCrash PROVE IInv'
BY FaultsAssumption
   DEF IInv, TypeOK, QueueTypeOK, Logs, Handling, Places, queueVars, tableVars, Fault, InFlight,
       AnsweredIsStored, NoneForgotten, EmbeddedExist, Persisted, OnItsWay, ApiCrash

(***************************************************************************)
(* The steps of a worker keep the invariant.                               *)
(***************************************************************************)
LEMMA WorkerSteps ==
  ASSUME IInv, NEW w \in Workers, Work(w) \/ WorkFails(w) \/ Stop(w) \/ Start(w)
  PROVE  IInv'
<1> USE DEF IInv, TypeOK, QueueTypeOK, Logs, Handling, Running, Places, queueVars, tableVars, apiVars,
        NoFault, At, Free, AnsweredIsStored, NoneForgotten, EmbeddedExist, Persisted, OnItsWay
<1>1. CASE Take(w)
  <2> DEFINE j == Head(queue)
  <2>1. /\ queue' \in Seq(Jobs) /\ j \in Jobs /\ Persisted(j)
        /\ \A i \in DOMAIN queue' : Persisted(queue'[i])
        /\ registry' = [registry EXCEPT ![j] = "started"]
        /\ exec' = [exec EXCEPT ![w] = [pc |-> "fetch", job |-> j]]
    BY <1>1, QueueFacts DEF Take, Dequeue
  <2>2. UNCHANGED <<handler, reply, stored, embedded, wiped, faults, hit>> /\ At(w, "idle")
    BY <1>1 DEF Take
  <2> HIDE DEF j
  <2>3. TypeOK' /\ AnsweredIsStored' /\ EmbeddedExist'
    BY <2>1, <2>2
  <2>4. NoneForgotten'
    BY <2>1, <2>2
  <2> QED BY <2>1, <2>2, <2>3, <2>4
<1>2. CASE Fetch(w)
  <2> DEFINE j == exec[w].job
  <2>1. /\ At(w, "fetch") /\ j \in Jobs /\ Persisted(j)
        /\ UNCHANGED <<queue, handler, reply, stored, embedded, wiped, faults, hit>>
    BY <1>2 DEF Fetch, End, Ended
  <2>2. CASE j \in stored
    <3>1. /\ UNCHANGED registry
          /\ exec' = [exec EXCEPT ![w] = [pc |-> "embed", job |-> j]]
      BY <1>2, <2>2 DEF Fetch
    <3> HIDE DEF j
    <3> QED BY <2>1, <2>2, <3>1 DEF j
  <2>3. CASE j \notin stored
    <3>1. /\ registry' = [registry EXCEPT ![j] = "finished"]
          /\ exec' = [exec EXCEPT ![w] = [pc |-> "idle", job |-> NoJob]]
      BY <1>2, <2>3 DEF Fetch, End, Ended
    <3> HIDE DEF j
    <3>2. TypeOK' /\ AnsweredIsStored' /\ EmbeddedExist'
      BY <2>1, <3>1
    <3>3. NoneForgotten'
      BY <2>1, <2>3, <3>1 DEF j
    <3> QED BY <2>1, <3>1, <3>2, <3>3
  <2> QED BY <2>2, <2>3
<1>3. CASE Embed(w)
  BY <1>3 DEF Embed
<1>4. CASE Update(w)
  BY <1>4 DEF Update, End, Ended
<1>5. CASE EmbedFails(w)
  BY <1>5, FaultsAssumption DEF EmbedFails, End, Ended, Fault
<1>6. CASE StatementFails(w)
  BY <1>6, FaultsAssumption DEF StatementFails, End, Ended, Fault
<1>7. CASE Crash(w)
  BY <1>7, FaultsAssumption DEF Crash, Fault
<1>8. CASE Stop(w)
  BY <1>8 DEF Stop
<1>9. CASE Start(w)
  BY <1>9 DEF Start
<1> QED BY <1>1, <1>2, <1>3, <1>4, <1>5, <1>6, <1>7, <1>8, <1>9 DEF Work, WorkFails

(***************************************************************************)
(* So do the maintenance of the queue, which touches only jobs that nobody *)
(* runs, and the reset, which waits for the workers that have read a row.  *)
(***************************************************************************)
LEMMA OtherSteps ==
  ASSUME IInv, (\E j \in Jobs : Abandon(j)) \/ Reset
  PROVE  IInv'
<1> USE DEF IInv, TypeOK, QueueTypeOK, Logs, Handling, Running, Places, queueVars, tableVars, apiVars,
        NoFault, At, AnsweredIsStored, NoneForgotten, EmbeddedExist, Persisted, OnItsWay
<1>1. ASSUME NEW j \in Jobs, Abandon(j) PROVE IInv'
  BY <1>1 DEF Abandon, AbandonJob
<1>2. CASE Reset
  BY <1>2 DEF Reset
<1> QED BY <1>1, <1>2

(***************************************************************************)
(* The invariant holds in every reachable state.                           *)
(***************************************************************************)
THEOREM IngestInvariance == Spec => []IInv
<1>1. IInv /\ [Next]_vars => IInv'
  <2> SUFFICES ASSUME IInv, [Next]_vars PROVE IInv'
    OBVIOUS
  <2>1. CASE Next
    BY <2>1, HandlerSteps, CrashSteps, WorkerSteps, OtherSteps DEF Next
  <2>2. CASE UNCHANGED vars
    BY <2>2 DEF vars, IInv, TypeOK, QueueTypeOK, AnsweredIsStored, NoneForgotten, EmbeddedExist,
       Persisted, OnItsWay
  <2> QED BY <2>1, <2>2
<1> QED BY InitIInv, <1>1, PTL DEF Spec

(***************************************************************************)
(* Whatever fails, a log that was answered 201 is stored, and no job is    *)
(* made for a log that is not.                                             *)
(***************************************************************************)
THEOREM Answered_IsStored == Spec => []AnsweredIsStored
<1>1. IInv => AnsweredIsStored
  BY DEF IInv
<1> QED BY <1>1, IngestInvariance, PTL

(***************************************************************************)
(* Whatever the order of commits, jobs, signals and resets, a stored log   *)
(* without an embedding is on its way to one, or was hit by a fault.       *)
(***************************************************************************)
THEOREM None_Forgotten == Spec => []NoneForgotten
<1>1. IInv => NoneForgotten
  BY DEF IInv
<1> QED BY <1>1, IngestInvariance, PTL

(***************************************************************************)
(* Only rows that exist have embeddings.                                   *)
(***************************************************************************)
THEOREM Embedded_Exist == Spec => []EmbeddedExist
<1>1. IInv => EmbeddedExist
  BY DEF IInv
<1> QED BY <1>1, IngestInvariance, PTL

-------------------------------------------------------------------------------
(* The log table as LogLedger describes it *)

(***************************************************************************)
(* A log whose INSERT is still to come has never been in the table, and    *)
(* its sender has no answer before it has been read back.                  *)
(***************************************************************************)
Untold ==
    \A r \in Logs :
        /\ handler[r] \in {"new", "insert"} => ~Persisted(r)
        /\ handler[r] \in {"new", "insert", "refresh"} => reply[r] = "none"

(***************************************************************************)
(* Only the handler that has a log inserts and answers it, each once.      *)
(***************************************************************************)
LEMMA NextUntold ==
  ASSUME IInv, Untold, [Next]_vars
  PROVE  Untold'
<1> USE DEF IInv, TypeOK, Untold, Persisted, Logs
<1>1. ASSUME NEW r \in Logs, Handle(r) \/ HandleFails(r) PROVE Untold'
  BY <1>1 DEF Handle, HandleFails, Receive, Store, Respond, RefreshFindsNothing, EnqueueJob,
     EnqueueFails, StoreFails, tableVars, Handling
<1>2. CASE ApiCrash
  BY <1>2 DEF ApiCrash, InFlight, Handling, tableVars
<1>3. ASSUME UNCHANGED apiVars, \A r \in Logs : Persisted(r)' => Persisted(r) PROVE Untold'
  BY <1>3 DEF apiVars
<1>4. ASSUME NEW w \in Workers, Work(w) \/ WorkFails(w) \/ Stop(w) \/ Start(w) PROVE Untold'
  <2>1. UNCHANGED apiVars /\ UNCHANGED <<stored, wiped>>
    BY <1>4 DEF Work, WorkFails, Take, Fetch, Embed, Update, EmbedFails, StatementFails, Crash,
       Stop, Start, tableVars
  <2> QED BY <2>1, <1>3
<1>5. CASE Reset \/ (\E j \in Jobs : Abandon(j)) \/ UNCHANGED vars
  <2>1. UNCHANGED apiVars /\ \A r \in Logs : Persisted(r)' => Persisted(r)
    BY <1>5 DEF Reset, Abandon, vars, apiVars, tableVars
  <2> QED BY <2>1, <1>3
<1> QED BY <1>1, <1>2, <1>4, <1>5 DEF Next

(***************************************************************************)
(* The logs whose sender was answered 201.                                 *)
(***************************************************************************)
Confirmed == {r \in Logs : reply[r] = "201"}

(***************************************************************************)
(* A step of a request stores its log, confirms it, or does not show.      *)
(***************************************************************************)
LEMMA HandlerShows ==
  ASSUME IInv, Untold, NEW r \in Logs, Handle(r) \/ HandleFails(r)
  PROVE  \/ Ledger!Store({r})
         \/ Ledger!Confirm(r)
         \/ UNCHANGED <<stored, embedded, wiped, Confirmed>>
<1> USE DEF IInv, TypeOK, Untold, Persisted, tableVars, Confirmed
<1>1. CASE Store(r)
  BY <1>1 DEF Store, Ledger!Store
<1>2. CASE StoreFails(r)
  <2>1. Confirmed' = Confirmed
    BY <1>2 DEF StoreFails
  <2> QED BY <1>2, <2>1 DEF StoreFails, Ledger!Store
<1>3. CASE Respond(r)
  BY <1>3 DEF Respond, Ledger!Confirm
<1>4. CASE RefreshFindsNothing(r)
  BY <1>4 DEF RefreshFindsNothing
<1>5. CASE Receive(r) \/ EnqueueJob(r) \/ EnqueueFails(r)
  BY <1>5 DEF Receive, EnqueueJob, EnqueueFails
<1> QED BY <1>1, <1>2, <1>3, <1>4, <1>5 DEF Handle, HandleFails

(***************************************************************************)
(* A step of a worker embeds the log it has locked, or does not show.      *)
(***************************************************************************)
LEMMA WorkerShows ==
  ASSUME IInv, NEW w \in Workers, Work(w) \/ WorkFails(w) \/ Stop(w) \/ Start(w)
  PROVE  \/ exec[w].job \in Logs /\ Ledger!Embed(exec[w].job)
         \/ UNCHANGED <<stored, embedded, wiped, Confirmed>>
<1> USE DEF IInv, Logs, tableVars, apiVars, Confirmed, At, Running
<1>1. CASE Update(w)
  BY <1>1 DEF Update, Ledger!Embed
<1>2. CASE StatementFails(w)
  BY <1>2 DEF StatementFails, Ledger!Embed
<1>3. CASE Take(w) \/ Fetch(w) \/ Embed(w) \/ EmbedFails(w) \/ Crash(w) \/ Stop(w) \/ Start(w)
  BY <1>3 DEF Take, Fetch, Embed, EmbedFails, Crash, Stop, Start
<1> QED BY <1>1, <1>2, <1>3 DEF Work, WorkFails

(***************************************************************************)
(* The death of the API process may have stored several logs at once, and  *)
(* takes back none that was confirmed.                                     *)
(***************************************************************************)
LEMMA CrashShows ==
  ASSUME IInv, Untold, ApiCrash
  PROVE  \E some \in SUBSET Logs : Ledger!Store(some)
<1>1. PICK S \in SUBSET {r \in InFlight : handler[r] = "insert"} : stored' = stored \cup S
  BY DEF ApiCrash
<1>2. Confirmed' = Confirmed
  BY DEF ApiCrash, Confirmed, IInv, TypeOK
<1>3. S \in SUBSET Logs /\ S \cap (stored \cup wiped) = {}
  BY <1>1 DEF Untold, Persisted, InFlight
<1> QED BY <1>1, <1>2, <1>3 DEF ApiCrash, Confirmed, Ledger!Store

(***************************************************************************)
(* Handlers, queue and workers together keep what LogLedger says of the    *)
(* table: every commit of theirs is one of its steps, and nothing else     *)
(* they do shows.                                                          *)
(***************************************************************************)
THEOREM Refines_LogLedger == Spec => RefinesLogLedger
<1>1. Init => Ledger!Init /\ Untold
  BY DEF Init, Ledger!Init, Untold, Persisted
<1>2. ASSUME IInv, Untold, [Next]_vars
      PROVE  [Ledger!Next]_<<stored, embedded, Confirmed, wiped>>
  <2>1. CASE Reset
    <3>1. Ledger!Truncate
      BY <2>1 DEF Reset, Ledger!Truncate, apiVars
    <3> QED BY <3>1 DEF Ledger!Next
  <2>2. CASE (\E j \in Jobs : Abandon(j)) \/ UNCHANGED vars
    BY <2>2 DEF Abandon, vars, apiVars, tableVars, Confirmed
  <2>3. ASSUME NEW w \in Workers, Work(w) \/ WorkFails(w) \/ Stop(w) \/ Start(w)
        PROVE  [Ledger!Next]_<<stored, embedded, Confirmed, wiped>>
    BY <1>2, <2>3, WorkerShows DEF Ledger!Next
  <2>4. ASSUME NEW r \in Logs, Handle(r) \/ HandleFails(r)
        PROVE  [Ledger!Next]_<<stored, embedded, Confirmed, wiped>>
    BY <1>2, <2>4, HandlerShows DEF Ledger!Next
  <2>5. CASE ApiCrash
    BY <1>2, <2>5, CrashShows DEF Ledger!Next
  <2> QED BY <1>2, <2>1, <2>2, <2>3, <2>4, <2>5 DEF Next
<1>3. [Ledger!Next]_<<stored, embedded, Confirmed, wiped>> <=> [Ledger!Next]_(Ledger!ledgerVars)
  BY DEF Ledger!ledgerVars, Confirmed
<1>4. IInv /\ Untold /\ [Next]_vars => Untold'
  BY NextUntold
<1> QED BY <1>1, <1>2, <1>3, <1>4, IngestInvariance, PTL DEF Spec, RefinesLogLedger, Ledger!Spec
================================================================================
