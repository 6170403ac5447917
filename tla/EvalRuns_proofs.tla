---------------------------- MODULE EvalRuns_proofs ----------------------------
(***************************************************************************)
(* Theorems about the eval gate and the runs of EvalRuns, for any suite,   *)
(* thresholds, workers, requests and faults.                               *)
(***************************************************************************)
EXTENDS EvalRuns, FiniteSetTheorems, TLAPS

-------------------------------------------------------------------------------
(* The gate *)

(***************************************************************************)
(* Division with remainder.                                                *)
(***************************************************************************)
LEMMA Division ==
  ASSUME NEW a \in Nat, NEW n \in Nat \ {0}
  PROVE  /\ a \div n \in Nat
         /\ a - n * (a \div n) \in 0..(n - 1)
OBVIOUS

(***************************************************************************)
(* A rounded rate is a rate.                                               *)
(***************************************************************************)
LEMMA RoundedType ==
  ASSUME NEW n \in Nat \ {0}, NEW p \in 0..n, NEW r \in Rounded(p, n)
  PROVE  /\ r \in 0..Scale
         /\ 2 * (p * Scale - r * n) <= n
         /\ 2 * (r * n - p * Scale) <= n
<1> DEFINE q == (p * Scale) \div n
<1>1. p * Scale \in Nat /\ p * Scale <= n * Scale
  BY DEF Scale
<1>2. q \in Nat /\ p * Scale - n * q \in 0..(n - 1)
  BY <1>1, Division
<1>3. /\ r \in {q, q + 1}
      /\ 2 * (p * Scale - r * n) <= n
      /\ 2 * (r * n - p * Scale) <= n
  BY DEF Rounded
<1>4. r \in Nat
  BY <1>2, <1>3
<1>5. ASSUME r > Scale PROVE FALSE
  <2> DEFINE rn == r * n
             ps == p * Scale
             nS == n * Scale
  <2>1. rn \in Int /\ ps \in Int /\ nS \in Int /\ n > 0 /\ n \in Int
    BY <1>4 DEF Scale
  <2>2. r - Scale - 1 \in Nat
    BY <1>4, <1>5 DEF Scale
  <2>3. (r - Scale - 1) * n \in Nat
    BY <2>2
  <2>4. (r - Scale - 1) * n = rn - nS - n
    BY <1>4 DEF Scale
  <2>5. 2 * (rn - ps) <= n /\ ps <= nS
    BY <1>1, <1>3
  <2> HIDE DEF rn, ps, nS
  <2>6. rn - nS - n >= 0
    BY <2>3, <2>4
  <2> QED BY <2>1, <2>5, <2>6
<1> QED BY <1>3, <1>4, <1>5 DEF Scale

(***************************************************************************)
(* Rounding never blocks a suite: when the exact ratio meets the threshold *)
(* the rounded one does.                                                   *)
(***************************************************************************)
THEOREM Gate_NeverBlocksAPass ==
  ASSUME NEW n \in Nat \ {0}, NEW p \in 0..n, NEW t \in 0..Scale,
         NEW r \in Rounded(p, n), Meets(p, n, t)
  PROVE  GateResult(r, t) = "pass"
<1>1. /\ r \in 0..Scale /\ t \in Int
      /\ 2 * (p * Scale - r * n) <= n
      /\ p * Scale >= t * n
  BY RoundedType DEF Meets, Scale
<1>2. ASSUME r + 1 <= t PROVE FALSE
  <2> DEFINE rn == r * n
             ps == p * Scale
             tn == t * n
  <2>1. rn \in Int /\ ps \in Int /\ tn \in Int /\ n > 0 /\ n \in Int
    BY <1>1 DEF Scale
  <2>2. t - r - 1 \in Nat
    BY <1>1, <1>2 DEF Scale
  <2>3. (t - r - 1) * n \in Nat
    BY <2>2
  <2>4. (t - r - 1) * n = tn - rn - n
    BY <1>1 DEF Scale
  <2>5. 2 * (ps - rn) <= n /\ ps >= tn
    BY <1>1
  <2> HIDE DEF rn, ps, tn
  <2>6. tn - rn - n >= 0
    BY <2>3, <2>4
  <2> QED BY <2>1, <2>5, <2>6
<1>3. r >= t
  BY <1>1, <1>2 DEF Scale
<1> QED BY <1>3 DEF GateResult

(***************************************************************************)
(* A suite that passes on its rounded rate meets the threshold but for     *)
(* half a ten-thousandth.                                                  *)
(***************************************************************************)
LEMMA Gate_PassNearlyMeets ==
  ASSUME NEW n \in Nat \ {0}, NEW p \in 0..n, NEW t \in 0..Scale,
         NEW r \in Rounded(p, n), GateResult(r, t) = "pass"
  PROVE  NearlyMeets(p, n, t)
<1>1. r \in 0..Scale /\ t \in Int /\ 2 * (r * n - p * Scale) <= n
  BY RoundedType DEF Scale
<1>2. r >= t
  BY <1>1 DEF GateResult, Scale
<1> DEFINE rn == r * n
           ps == p * Scale
           tn == t * n
<1>3. (r - t) * n \in Nat /\ (r - t) * n = rn - tn
  BY <1>1, <1>2 DEF Scale
<1>4. rn \in Int /\ ps \in Int /\ tn \in Int /\ n \in Int /\ 2 * (rn - ps) <= n
  BY <1>1 DEF Scale
<1>5. 2 * (tn - ps) <= n
  <2> HIDE DEF rn, ps, tn
  <2> QED BY <1>3, <1>4
<1> QED BY <1>5 DEF NearlyMeets

(***************************************************************************)
(* The verdict on a rounded rate is one that the exact ratio deserves,     *)
(* for any number of cases and any threshold.                              *)
(***************************************************************************)
THEOREM Gate_Deserved ==
  ASSUME NEW n \in Nat \ {0}, NEW p \in 0..n, NEW t \in 0..Scale, NEW r \in Rounded(p, n)
  PROVE  GateResult(r, t) \in Deserved(p, n, t)
<1>1. GateResult(r, t) \in {"pass", "fail"}
  BY DEF GateResult
<1>2. GateResult(r, t) = "pass" => NearlyMeets(p, n, t)
  BY Gate_PassNearlyMeets
<1>3. Meets(p, n, t) => GateResult(r, t) = "pass"
  BY Gate_NeverBlocksAPass
<1> QED BY <1>1, <1>2, <1>3 DEF Deserved

(***************************************************************************)
(* With a threshold in whole percents and fewer than 200 cases rounding    *)
(* decides nothing: the gate passes exactly the suites whose exact ratio   *)
(* meets the threshold.                                                    *)
(***************************************************************************)
THEOREM Gate_Exact ==
  ASSUME NEW n \in 1..199, NEW p \in 0..n, NEW k \in 0..100, NEW r \in Rounded(p, n)
  PROVE  GateResult(r, 100 * k) = "pass" <=> Meets(p, n, 100 * k)
<1> DEFINE t == 100 * k
<1>0. n \in Nat \ {0} /\ t \in 0..Scale
  BY DEF Scale
<1>1. ASSUME Meets(p, n, t) PROVE GateResult(r, t) = "pass"
  BY <1>0, <1>1, Gate_NeverBlocksAPass
<1>2. ASSUME GateResult(r, t) = "pass" PROVE Meets(p, n, t)
  <2>1. 2 * (t * n - p * Scale) <= n
    BY <1>0, <1>2, Gate_PassNearlyMeets DEF NearlyMeets
  <2>2. t * n - p * Scale = 100 * (k * n - 100 * p)
    BY DEF Scale
  <2>3. k * n - 100 * p \in Int
    OBVIOUS
  <2>4. k * n - 100 * p <= 0
    BY <2>1, <2>2, <2>3
  <2> QED BY <2>2, <2>3, <2>4 DEF Meets, Scale
<1> QED BY <1>1, <1>2

-------------------------------------------------------------------------------
(* The invariant *)

(***************************************************************************)
(* The initial state satisfies the invariant: nothing is executed, queued  *)
(* or stored.                                                              *)
(***************************************************************************)
LEMMA InitIInv == Init => IInv
<1> SUFFICES ASSUME Init PROVE IInv
  OBVIOUS
<1>1. TypeOK
  <2>1. Free \in ExecType
    BY DEF Free, ExecType, MaxJudgeAttempts
  <2> QED BY <2>1, EvalFaultsAssumption DEF Init, QueueInit, TypeOK, QueueTypeOK, Places
<1>2. \A e \in Executors : exec[e].pc \notin Active /\ Progress(exec[e]) /\ Stored(exec[e])
  BY DEF Init, Free, Progress, Stored, Active, InTransaction
<1>3. DOMAIN runs = {} /\ DOMAIN queue = {}
  BY DEF Init, QueueInit
<1>4. OwnKeys
  BY <1>2, <1>3 DEF OwnKeys, Executors
<1>5. QueuedOnce /\ RunsWhole /\ OneRunEach /\ RatesRight
  BY <1>3 DEF Init, QueueInit, QueuedOnce, RunsWhole, OneRunEach, RatesRight
<1> QED BY <1>1, <1>2, <1>4, <1>5 DEF IInv

(***************************************************************************)
(* No two processes execute run_eval for the same request or invocation.   *)
(***************************************************************************)
LEMMA KeysApart ==
  ASSUME IInv, NEW e \in Executors, NEW f \in Executors, e # f,
         exec[e].pc \in Active, exec[f].pc \in Active
  PROVE  exec[e].key # exec[f].key
BY RunnersAssumption DEF IInv, OwnKeys, Executors

(***************************************************************************)
(* A process that goes on within its transaction keeps the invariant if    *)
(* what it has found out stays coherent.                                   *)
(***************************************************************************)
LEMMA Move ==
  ASSUME IInv, NEW e \in Executors, exec[e].pc \in {"load"} \cup InTransaction,
         NEW y \in ExecType, exec' = [exec EXCEPT ![e] = y],
         y.key = exec[e].key, y.pc \in InTransaction, Progress(y),
         UNCHANGED <<queueVars, cases, runs, reply, exit>>, faults' \in 0..MaxFaults
  PROVE  IInv'
<1>1. /\ exec[e].pc \in Active /\ exec[e].pc # "refresh" /\ exec[e].pc # "over"
      /\ y.pc \in Active /\ exec'[e] = y
      /\ \A f \in Executors : f # e => exec'[f] = exec[f]
  BY DEF IInv, TypeOK, Active, InTransaction
<1>2. TypeOK'
  BY DEF IInv, TypeOK, QueueTypeOK, queueVars
<1>3. ASSUME NEW f \in Executors PROVE Progress(exec[f])' /\ Stored(exec[f])'
  <2>1. CASE f = e
    BY <1>1, <2>1 DEF IInv, Progress, Stored
  <2>2. CASE f # e
    BY <1>1, <2>2 DEF IInv, Progress, Stored
  <2> QED BY <2>1, <2>2
<1>4. OwnKeys'
  BY <1>1 DEF IInv, OwnKeys, Executors, queueVars
<1>5. QueuedOnce' /\ RunsWhole' /\ OneRunEach' /\ RatesRight'
  BY DEF IInv, QueuedOnce, RunsWhole, OneRunEach, RatesRight, queueVars
<1> QED BY <1>2, <1>3, <1>4, <1>5 DEF IInv

(***************************************************************************)
(* Appending adds the one element at the end.                              *)
(***************************************************************************)
LEMMA AppendFacts ==
  ASSUME NEW S, NEW q \in Seq(S), NEW a \in S
  PROVE  /\ Append(q, a) \in Seq(S)
         /\ DOMAIN Append(q, a) = DOMAIN q \cup {Len(q) + 1}
         /\ Len(q) + 1 \notin DOMAIN q
         /\ Append(q, a)[Len(q) + 1] = a
         /\ \A i \in DOMAIN q : Append(q, a)[i] = q[i]
OBVIOUS

(***************************************************************************)
(* What is left of a sequence when its first element is taken.             *)
(***************************************************************************)
LEMMA TailFacts ==
  ASSUME NEW S, NEW q \in Seq(S), q # << >>
  PROVE  /\ Tail(q) \in Seq(S) /\ Head(q) \in S
         /\ Len(Tail(q)) = Len(q) - 1
         /\ 1 \in DOMAIN q /\ Head(q) = q[1]
         /\ \A i \in DOMAIN Tail(q) : /\ i \in Nat /\ i >= 1
                                      /\ i + 1 \in DOMAIN q /\ Tail(q)[i] = q[i + 1]
OBVIOUS

(***************************************************************************)
(* What the scorers do to the record of an execution keeps its type and    *)
(* what has been found out about other cases.                              *)
(***************************************************************************)
LEMMA ScorerFacts ==
  ASSUME NEW x \in ExecType, x.pc = "score", x.left # << >>
  PROVE  /\ \A ok \in BOOLEAN : Scored(x, ok) \in ExecType
         /\ ScorerRaised(x) \in ExecType
         /\ \A y \in {ScorerRaised(x)} \cup {Scored(x, ok) : ok \in BOOLEAN} :
               /\ y.pc = x.pc /\ y.key = x.key /\ y.case = x.case
               /\ y.loaded = x.loaded /\ y.todo = x.todo /\ y.passed = x.passed
<1>1. x.left \in Seq(Methods) /\ x.passing \in BOOLEAN
  BY DEF ExecType
<1>2. /\ Tail(x.left) \in Seq(Methods) /\ << >> \in Seq(Methods) /\ 0 \in 0..(MaxJudgeAttempts - 1)
      /\ FALSE \in BOOLEAN /\ \A ok \in BOOLEAN : (x.passing /\ ok) \in BOOLEAN
  BY <1>1 DEF MaxJudgeAttempts
<1>3. \A answer \in Answers : Heard(x, answer) \in Seq(Methods \X Answers)
  BY <1>1, TailFacts DEF Heard, ExecType
<1>4. /\ \A ok \in BOOLEAN : Scored(x, ok) \in ExecType
      /\ ScorerRaised(x) \in ExecType
  <2> DEFINE heard(answer) == Heard(x, answer)
  <2>1. \A ok \in BOOLEAN : heard(IF ok THEN "pass" ELSE "fail") \in Seq(Methods \X Answers)
    BY <1>3 DEF Answers
  <2>2. heard("raised") \in Seq(Methods \X Answers)
    BY <1>3 DEF Answers
  <2> HIDE DEF heard
  <2>3. \A ok \in BOOLEAN : Scored(x, ok) \in ExecType
    BY <1>1, <1>2, <2>1, Zenon DEF Scored, ExecType, heard
  <2>4. ScorerRaised(x) \in ExecType
    BY <1>2, <2>2, Zenon DEF ScorerRaised, ExecType, heard
  <2> QED BY <2>3, <2>4
<1>5. \A y \in {ScorerRaised(x)} \cup {Scored(x, ok) : ok \in BOOLEAN} :
         /\ y.pc = x.pc /\ y.key = x.key /\ y.case = x.case
         /\ y.loaded = x.loaded /\ y.todo = x.todo /\ y.passed = x.passed
  BY DEF Scored, ScorerRaised, ExecType
<1> QED BY <1>4, <1>5

(***************************************************************************)
(* The flag that decides about a case agrees with what its scorers have    *)
(* answered, whatever the next one answers.                                *)
(***************************************************************************)
LEMMA StillFaithful ==
  ASSUME NEW x \in ExecType, x.pc = "score", x.left # << >>, x.case \in Cases, Faithful(x)
  PROVE  /\ \A ok \in BOOLEAN : Faithful(Scored(x, ok))
         /\ Faithful(ScorerRaised(x))
<1> DEFINE m == eval_methods[x.case]
           said == x.said
           left == x.left
<1>1. /\ left \in Seq(Methods) /\ said \in Seq(Methods \X Answers) /\ m \in Seq(Methods)
      /\ Head(left) \in Methods /\ Head(left) = left[1] /\ 1 \in DOMAIN left
  BY TailFacts, MethodsAssumption DEF ExecType
<1>2. ASSUME NEW answer \in Answers
      PROVE  /\ Heard(x, answer) \in Seq(Methods \X Answers)
             /\ Len(Heard(x, answer)) = Len(said) + 1
             /\ DOMAIN Heard(x, answer) = DOMAIN said \cup {Len(said) + 1}
             /\ Heard(x, answer)[Len(said) + 1] = <<Head(left), answer>>
             /\ \A i \in DOMAIN said : Heard(x, answer)[i] = said[i]
  BY <1>1, AppendFacts DEF Heard
<1>3. ASSUME NEW ok \in BOOLEAN PROVE Faithful(Scored(x, ok))
  <2> DEFINE y == Scored(x, ok)
             heard == Heard(x, IF ok THEN "pass" ELSE "fail")
  <2>1. /\ y.case = x.case /\ y.left = Tail(left) /\ y.passing = (x.passing /\ ok)
        /\ y.said = heard
    BY DEF Scored, ExecType
  <2>2. /\ heard \in Seq(Methods \X Answers) /\ Len(heard) = Len(said) + 1
        /\ DOMAIN heard = DOMAIN said \cup {Len(said) + 1}
        /\ heard[Len(said) + 1] = <<Head(left), IF ok THEN "pass" ELSE "fail">>
        /\ \A i \in DOMAIN said : heard[i] = said[i]
    BY <1>2 DEF Answers
  <2>3. /\ Tail(left) \in Seq(Methods) /\ Len(Tail(left)) = Len(left) - 1
        /\ \A i \in DOMAIN Tail(left) : /\ i \in Nat /\ i + 1 \in DOMAIN left
                                        /\ Tail(left)[i] = left[i + 1]
    BY <1>1, TailFacts
  <2> HIDE DEF y, heard
  <2>4. ASSUME x.passing, ok
        PROVE  /\ m # << >> /\ Len(heard) + Len(Tail(left)) = Len(m)
               /\ \A i \in DOMAIN heard : heard[i] = <<m[i], "pass">>
               /\ \A i \in DOMAIN Tail(left) : Tail(left)[i] = m[Len(heard) + i]
    <3>1. /\ m # << >> /\ Len(said) + Len(left) = Len(m)
          /\ \A i \in DOMAIN said : said[i] = <<m[i], "pass">>
          /\ \A i \in DOMAIN left : left[i] = m[Len(said) + i]
      BY <2>4 DEF Faithful
    <3> HIDE DEF m, said, left
    <3>2. Len(heard) + Len(Tail(left)) = Len(m)
      BY <1>1, <2>2, <2>3, <3>1
    <3>3. \A i \in DOMAIN heard : heard[i] = <<m[i], "pass">>
      BY <1>1, <2>2, <2>4, <3>1
    <3>4. ASSUME NEW i \in DOMAIN Tail(left) PROVE Tail(left)[i] = m[Len(heard) + i]
      <4>1. Tail(left)[i] = m[Len(said) + (i + 1)]
        BY <2>3, <3>1
      <4>2. Len(said) + (i + 1) = Len(heard) + i
        BY <1>1, <2>2, <2>3
      <4> QED BY <4>1, <4>2
    <3> QED BY <3>1, <3>2, <3>3, <3>4
  <2>5. ASSUME ~(x.passing /\ ok)
        PROVE  m = << >> \/ \E i \in DOMAIN heard : heard[i][2] # "pass"
    <3>1. CASE ~x.passing
      <4>1. m = << >> \/ \E i \in DOMAIN said : said[i][2] # "pass"
        BY <3>1 DEF Faithful
      <4> QED BY <2>2, <4>1
    <3>2. CASE ~ok
      BY <2>2, <3>2
    <3> QED BY <2>5, <3>1, <3>2
  <2>6. Faithful(y)
    <3> HIDE DEF said, left
    <3> QED BY <2>1, <2>4, <2>5 DEF Faithful
  <2> QED BY <2>6 DEF y
<1>4. Faithful(ScorerRaised(x))
  <2>1. /\ ~ScorerRaised(x).passing /\ ScorerRaised(x).said = Heard(x, "raised")
    BY DEF ScorerRaised, ExecType
  <2>2. /\ Len(said) + 1 \in DOMAIN Heard(x, "raised")
        /\ Heard(x, "raised")[Len(said) + 1] = <<Head(left), "raised">>
    BY <1>2 DEF Answers
  <2> QED BY <2>1, <2>2 DEF Faithful
<1> QED BY <1>3, <1>4

(***************************************************************************)
(* The steps within the transaction keep the invariant.                    *)
(***************************************************************************)
LEMMA ScoringSteps ==
  ASSUME IInv, NEW e \in Executors,
         \/ NextCase(e) \/ Score(e) \/ JudgeFails(e) \/ EmbeddingFails(e) \/ EndCase(e)
  PROVE  IInv'
<1> DEFINE x == exec[e]
<1>1. x \in ExecType /\ Progress(x) /\ faults \in 0..MaxFaults
  BY DEF IInv, TypeOK
<1>2. ASSUME x.pc = "score", x.left # << >>
      PROVE  \A y \in {ScorerRaised(x)} \cup {Scored(x, ok) : ok \in BOOLEAN} :
                y \in ExecType /\ y.pc = x.pc /\ y.key = x.key /\ Progress(y)
  <2>1. x.case \in Cases /\ Faithful(x)
    BY <1>1, <1>2 DEF ExecType, Progress
  <2>2. \A y \in {ScorerRaised(x)} \cup {Scored(x, ok) : ok \in BOOLEAN} : y \in ExecType /\ Faithful(y)
    BY <1>1, <1>2, <2>1, ScorerFacts, StillFaithful
  <2>3. \A y \in {ScorerRaised(x)} \cup {Scored(x, ok) : ok \in BOOLEAN} :
           /\ y.pc = x.pc /\ y.key = x.key /\ y.case = x.case
           /\ y.loaded = x.loaded /\ y.todo = x.todo /\ y.passed = x.passed
    BY <1>1, <1>2, ScorerFacts
  <2> QED BY <1>1, <2>2, <2>3 DEF Progress
<1>3. CASE NextCase(e)
  <2>1. PICK c \in x.todo : exec' = [exec EXCEPT ![e] = Begun(x, c)]
    BY <1>3 DEF NextCase
  <2> DEFINE y == Begun(x, c)
  <2>2. /\ c \in Cases /\ c \in x.loaded /\ x.todo \ {c} \in SUBSET Cases
        /\ eval_methods[c] \in Seq(Methods) /\ (eval_methods[c] # << >>) \in BOOLEAN
        /\ 0 \in 0..(MaxJudgeAttempts - 1) /\ << >> \in Seq(Methods \X Answers)
        /\ c \notin x.passed
    BY <1>1, MethodsAssumption DEF ExecType, Progress, MaxJudgeAttempts
  <2>3. y \in ExecType
    BY <1>1, <2>2, Zenon DEF Begun, ExecType, Active, InTransaction
  <2>4. /\ y.pc = "score" /\ y.key = x.key /\ y.case = c /\ y.todo = x.todo \ {c}
        /\ y.loaded = x.loaded /\ y.passed = x.passed /\ y.said = << >>
        /\ y.left = eval_methods[c] /\ y.passing = (eval_methods[c] # << >>)
    BY <1>1 DEF Begun, ExecType
  <2>5. x.pc = "next"
    BY <1>3 DEF NextCase, At
  <2>6. Faithful(y)
    <3> DEFINE m == eval_methods[c]
               none == << >>
    <3> HIDE DEF y
    <3>1. /\ y.case = c /\ y.said = none /\ y.left = m /\ y.passing = (m # << >>)
          /\ DOMAIN none = {} /\ Len(none) = 0 /\ Len(m) \in Nat /\ DOMAIN m \subseteq Nat
      BY <2>2, <2>4
    <3> HIDE DEF none
    <3>2. /\ Len(none) + Len(m) = Len(m)
          /\ \A i \in DOMAIN m : m[i] = m[Len(none) + i]
      BY <3>1
    <3> QED BY <3>1, <3>2 DEF Faithful
  <2>7. Progress(y)
    <3> HIDE DEF y
    <3> QED BY <1>1, <2>2, <2>4, <2>5, <2>6 DEF Progress, InTransaction
  <2> HIDE DEF y
  <2> QED BY <1>1, <1>3, <2>1, <2>3, <2>4, <2>5, <2>7, Move DEF NextCase, InTransaction, y
<1>4. CASE Score(e)
  <2>1. PICK ok \in BOOLEAN : exec' = [exec EXCEPT ![e] = Scored(x, ok)]
    BY <1>4 DEF Score
  <2> DEFINE y == Scored(x, ok)
  <2>2. x.pc = "score" /\ x.left # << >>
    BY <1>4 DEF Score, At
  <2>3. y \in ExecType /\ y.pc = "score" /\ y.key = x.key /\ Progress(y)
    BY <1>1, <1>2, <2>2 DEF Progress
  <2> HIDE DEF y
  <2> QED BY <1>1, <1>4, <2>1, <2>2, <2>3, Move DEF Score, InTransaction, y
<1>5. CASE JudgeFails(e)
  <2>1. x.pc = "score" /\ x.left # << >>
    BY <1>5 DEF JudgeFails, At
  <2>2. CASE x.attempt + 1 = MaxJudgeAttempts
    <3> DEFINE y == ScorerRaised(x)
    <3>1. y \in ExecType /\ y.pc = "score" /\ y.key = x.key /\ Progress(y)
      BY <1>1, <1>2, <2>1 DEF Progress
    <3>2. exec' = [exec EXCEPT ![e] = y]
      BY <1>5, <2>2 DEF JudgeFails
    <3> HIDE DEF y
    <3> QED BY <1>1, <1>5, <2>1, <3>1, <3>2, Move DEF JudgeFails, InTransaction
  <2>3. CASE x.attempt + 1 # MaxJudgeAttempts
    <3> DEFINE y == AskedInVain(x)
    <3>1. x.attempt + 1 \in 0..(MaxJudgeAttempts - 1)
      BY <1>1, <2>3 DEF ExecType, MaxJudgeAttempts
    <3>2. y \in ExecType
      BY <1>1, <3>1, Zenon DEF AskedInVain, ExecType
    <3>3. y.pc = "score" /\ y.key = x.key /\ Progress(y)
      BY <1>1, <2>1 DEF AskedInVain, ExecType, Progress, Faithful
    <3>4. exec' = [exec EXCEPT ![e] = y]
      BY <1>5, <2>3 DEF JudgeFails
    <3> HIDE DEF y
    <3> QED BY <1>1, <1>5, <2>1, <3>2, <3>3, <3>4, Move DEF JudgeFails, InTransaction
  <2> QED BY <2>2, <2>3
<1>6. CASE EmbeddingFails(e)
  <2> DEFINE y == ScorerRaised(x)
  <2>1. x.pc = "score" /\ x.left # << >> /\ exec' = [exec EXCEPT ![e] = y]
    BY <1>6 DEF EmbeddingFails, At
  <2>2. y \in ExecType /\ y.pc = "score" /\ y.key = x.key /\ Progress(y)
    BY <1>1, <1>2, <2>1 DEF Progress
  <2>3. faults' \in 0..MaxFaults
    BY <1>1, <1>6, EvalFaultsAssumption DEF EmbeddingFails, Fault
  <2> HIDE DEF y
  <2> QED BY <1>6, <2>1, <2>2, <2>3, Move DEF EmbeddingFails, InTransaction
<1>7. CASE EndCase(e)
  <2> DEFINE y == Verdict(x)
  <2>1. x.pc = "score" /\ exec' = [exec EXCEPT ![e] = y]
    BY <1>7 DEF EndCase, At
  <2>2. /\ x.case \in x.loaded
        /\ (IF x.passing THEN x.passed \cup {x.case} ELSE x.passed) \in SUBSET Cases
        /\ x.case \notin x.todo /\ << >> \in Seq(Methods \X Answers)
    BY <1>1, <2>1 DEF Progress, ExecType
  <2>3. y \in ExecType
    BY <1>1, <2>2, Zenon DEF Verdict, ExecType, Active, InTransaction
  <2>4. y.pc = "next" /\ y.key = x.key /\ Progress(y)
    BY <1>1, <2>1, <2>2 DEF Verdict, ExecType, Progress, InTransaction
  <2> HIDE DEF y
  <2> QED BY <1>1, <1>7, <2>1, <2>3, <2>4, Move DEF EndCase, InTransaction
<1> QED BY <1>3, <1>4, <1>5, <1>6, <1>7

(***************************************************************************)
(* A process that commits adds a run that is whole, the only one of its    *)
(* request, with a rate and a verdict that follow from its results.        *)
(***************************************************************************)
LEMMA RunsGrow ==
  ASSUME IInv, NEW e \in Executors, exec[e].pc = "next", NEW r \in Rates(exec[e]),
         runs' = Append(runs, RunOf(exec[e], r)), UNCHANGED cases,
         exec[e].key \in Keys
  PROVE  /\ runs' \in Seq(RunRow)
         /\ RunsWhole' /\ OneRunEach' /\ RatesRight'
         /\ \A i \in DOMAIN runs' : \/ i \in DOMAIN runs /\ runs'[i] = runs[i]
                                    \/ runs'[i] = RunOf(exec[e], r)
<1> DEFINE x == exec[e]
           row == RunOf(x, r)
           last == Len(runs) + 1
<1>1. /\ x \in ExecType /\ runs \in Seq(RunRow) /\ IsFiniteSet(Cases)
      /\ x.loaded \in SUBSET Cases /\ x.passed \in SUBSET Cases
      /\ x.passed \subseteq x.loaded /\ x.loaded # {} /\ x.loaded \subseteq cases
  BY CasesAssumption DEF IInv, TypeOK, ExecType, Progress, InTransaction
<1>2. Cardinality(x.loaded) \in Nat \ {0} /\ Cardinality(x.passed) \in 0..Cardinality(x.loaded)
  <2>1. IsFiniteSet(x.loaded)
    BY <1>1, FS_Subset
  <2>2. Cardinality(x.loaded) \in Nat /\ Cardinality(x.loaded) # 0
    BY <1>1, <2>1, FS_CardinalityType, FS_EmptySet
  <2>3. Cardinality(x.passed) \in Nat /\ Cardinality(x.passed) <= Cardinality(x.loaded)
    BY <1>1, <2>1, FS_Subset, FS_CardinalityType
  <2> QED BY <2>2, <2>3
<1>3. r \in 0..Scale
  BY <1>2, RoundedType DEF Rates
<1>4. GateResult(r, gate_threshold[x.key]) \in {"pass", "fail"}
  BY DEF GateResult
<1>5. row \in RunRow
  BY <1>1, <1>3, <1>4 DEF RunOf, RunRow
<1>6. /\ row.by = x.key /\ row.cases = x.loaded /\ row.passed = x.passed /\ row.rate = r
      /\ row.gate = GateResult(r, gate_threshold[x.key])
  BY DEF RunOf
<1> HIDE DEF row
<1>7. /\ runs' \in Seq(RunRow) /\ DOMAIN runs' = DOMAIN runs \cup {last}
      /\ last \notin DOMAIN runs /\ runs'[last] = row
      /\ \A i \in DOMAIN runs : runs'[i] = runs[i]
  BY <1>1, <1>5, AppendFacts DEF row
<1>8. \A i \in DOMAIN runs : runs[i].by # x.key
  BY DEF IInv, Stored, Active, InTransaction
<1> HIDE DEF last
<1>9. RunsWhole'
  BY <1>1, <1>6, <1>7 DEF IInv, RunsWhole
<1>10. OneRunEach'
  BY <1>6, <1>7, <1>8 DEF IInv, OneRunEach
<1>11. RatesRight'
  BY <1>6, <1>7 DEF IInv, RatesRight, Rates
<1> QED BY <1>7, <1>9, <1>10, <1>11 DEF row

(***************************************************************************)
(* The key of an execution under way is its worker's job, which no queue   *)
(* holds any more, or the runner itself.                                   *)
(***************************************************************************)
LEMMA KeyFacts ==
  ASSUME IInv, NEW e \in Executors, exec[e].pc \in Active
  PROVE  /\ exec[e].key \in Keys
         /\ e \in Workers => /\ e \notin Runners
                             /\ exec[e].key \in Jobs
                             /\ registry[exec[e].key] = "started"
                             /\ \A i \in DOMAIN queue : queue[i] # exec[e].key
         /\ e \in Runners => e \notin Workers /\ exec[e].key = e /\ e \notin Jobs
BY RunnersAssumption DEF IInv, OwnKeys, QueuedOnce, Executors, Keys

(***************************************************************************)
(* What a process that executes nothing looks like.                        *)
(***************************************************************************)
LEMMA RestingFacts ==
  \A y \in {Free, Down, Over} :
     /\ y \in ExecType
     /\ y.pc \in {"idle", "down", "over"}
     /\ y.pc \notin Active
     /\ y.pc \notin InTransaction
     /\ y.pc \notin {"load", "score"}
     /\ y.passed = {} /\ y.todo = {}
<1>1. Free \in ExecType
  BY DEF Free, ExecType, MaxJudgeAttempts
<1>2. Down \in ExecType /\ Over \in ExecType
  BY <1>1, Zenon DEF Down, Over, ExecType
<1>3. /\ Free.pc = "idle" /\ Free.passed = {} /\ Free.todo = {}
      /\ Down.pc = "down" /\ Down.passed = {} /\ Down.todo = {}
      /\ Over.pc = "over" /\ Over.passed = {} /\ Over.todo = {}
  BY DEF Free, Down, Over
<1> QED BY <1>1, <1>2, <1>3 DEF Active, InTransaction

(***************************************************************************)
(* A process whose execution is over, in whatever way, keeps the           *)
(* invariant: it may have stored its run, and it lets go of its key.       *)
(***************************************************************************)
LEMMA Leaving ==
  ASSUME IInv, NEW e \in Executors, exec[e].pc \in Active,
         NEW y \in {Free, Down, Over}, e \in Runners => y = Over,
         exec' = [exec EXCEPT ![e] = y],
         NEW place \in {"finished", "failed"},
         \/ UNCHANGED registry
         \/ e \in Workers /\ registry' = [registry EXCEPT ![exec[e].key] = place],
         exit' \in [Runners -> {"none", "0", "1"}], faults' \in 0..MaxFaults,
         UNCHANGED <<queue, cases, reply>>,
         runs' \in Seq(RunRow), RunsWhole', OneRunEach', RatesRight',
         \A i \in DOMAIN runs' : \/ i \in DOMAIN runs /\ runs'[i] = runs[i]
                                 \/ runs'[i].by = exec[e].key
  PROVE  IInv'
<1> DEFINE k == exec[e].key
<1>1. y \in ExecType /\ y.pc \in {"idle", "down", "over"} /\ y.pc \notin Active /\ Progress(y)
  BY RestingFacts DEF Progress
<1>2. e \in Runners => y.pc = "over"
  BY DEF Over, Free
<1> HIDE DEF Free, Down, Over
<1>3. /\ k \in Keys
      /\ e \in Workers => /\ e \notin Runners /\ k \in Jobs /\ registry[k] = "started"
                          /\ \A i \in DOMAIN queue : queue[i] # k
      /\ e \in Runners => e \notin Workers /\ k = e /\ e \notin Jobs
      /\ \A f \in Executors : f # e /\ exec[f].pc \in Active => exec[f].key # k
  BY KeyFacts, KeysApart
<1>4. /\ registry' \in [Jobs -> Places] /\ exec'[e] = y
      /\ \A f \in Executors : f # e => exec'[f] = exec[f]
      /\ \A j \in Jobs : j # k => registry'[j] = registry[j]
      /\ e \in Workers => registry'[k] \notin {"none", "queued"}
      /\ e \notin Workers => UNCHANGED registry
  BY <1>3 DEF IInv, TypeOK, QueueTypeOK, Places
<1>5. TypeOK'
  BY <1>1, <1>4 DEF IInv, TypeOK, QueueTypeOK
<1> HIDE DEF k
<1>6. ASSUME NEW f \in Executors PROVE Progress(exec[f])' /\ Stored(exec[f])'
  <2>1. CASE f = e
    BY <1>1, <1>4, <2>1 DEF Progress, Stored
  <2>2. CASE f # e
    <3>1. exec'[f] = exec[f] /\ (exec[f].pc \in Active => exec[f].key # k)
      BY <1>3, <1>4, <2>2
    <3>2. Progress(exec[f])'
      BY <3>1 DEF IInv, Progress
    <3>3. Stored(exec[f])'
      BY <3>1 DEF IInv, Stored, k
    <3> QED BY <3>2, <3>3
  <2> QED BY <2>1, <2>2
<1>7. OwnKeys'
  <2>1. ASSUME NEW w \in Workers, exec'[w].pc \in Active
        PROVE  /\ exec'[w].key \in Jobs
               /\ registry'[exec'[w].key] = "started"
               /\ \A v \in Workers : exec'[v].pc \in Active /\ exec'[v].key = exec'[w].key => v = w
    BY <1>1, <1>3, <1>4, <2>1 DEF IInv, OwnKeys, Executors
  <2>2. \A r \in Runners : exec'[r].pc \in Active => exec'[r].key = r
    BY <1>1, <1>4 DEF IInv, OwnKeys, Executors
  <2>3. ASSUME NEW i \in DOMAIN runs', runs'[i].by \in Runners
        PROVE  exec'[runs'[i].by].pc \in {"refresh", "over"}
    BY <1>2, <1>3, <1>4, <2>3, RunnersAssumption DEF IInv, OwnKeys, Executors, k
  <2>4. ASSUME NEW i \in DOMAIN runs', runs'[i].by \in Jobs
        PROVE  registry'[runs'[i].by] \notin {"none", "queued"}
    BY <1>3, <1>4, <2>4 DEF IInv, OwnKeys, Executors, k
  <2> QED BY <2>1, <2>2, <2>3, <2>4 DEF OwnKeys
<1>8. QueuedOnce'
  BY <1>3, <1>4 DEF IInv, TypeOK, QueueTypeOK, QueuedOnce
<1> QED BY <1>5, <1>6, <1>7, <1>8 DEF IInv

(***************************************************************************)
(* The steps that begin, commit and end an execution keep the invariant.   *)
(***************************************************************************)
LEMMA ExecutionSteps ==
  ASSUME IInv, NEW e \in Executors,
         \/ Load(e) \/ Commit(e) \/ Refresh(e) \/ RefreshFindsNothing(e)
         \/ StatementFails(e) \/ TimesOut(e) \/ Crash(e)
  PROVE  IInv'
<1> DEFINE x == exec[e]
           k == x.key
<1>1. /\ x \in ExecType /\ Progress(x) /\ Stored(x) /\ faults \in 0..MaxFaults
      /\ x.pc \in Active
      /\ exit \in [Runners -> {"none", "0", "1"}] /\ runs \in Seq(RunRow) /\ cases \in SUBSET Cases
      /\ RunsWhole /\ OneRunEach /\ RatesRight
  <2>1. x.pc \in Active
    BY DEF Load, Commit, Refresh, RefreshFindsNothing, StatementFails, TimesOut, Crash,
           At, Active, InTransaction
  <2> QED BY <2>1 DEF IInv, TypeOK
<1>2. k \in Keys
  BY <1>1, KeyFacts
<1>3. ASSUME NEW place \in {"finished", "failed"}, NEW code \in {"0", "1"}, Finish(e, place, code),
             UNCHANGED <<cases, reply>>, faults' \in 0..MaxFaults,
             runs' \in Seq(RunRow), RunsWhole', OneRunEach', RatesRight',
             \A i \in DOMAIN runs' : \/ i \in DOMAIN runs /\ runs'[i] = runs[i]
                                     \/ runs'[i].by = k
      PROVE  IInv'
  <2> DEFINE y == IF e \in Runners THEN Over ELSE Free
  <2>1. y \in {Free, Down, Over} /\ (e \in Runners => y = Over) /\ exec' = [exec EXCEPT ![e] = y]
    BY <1>3 DEF Finish
  <2>2. /\ UNCHANGED queue
        /\ \/ UNCHANGED registry
           \/ e \in Workers /\ registry' = [registry EXCEPT ![k] = place]
    BY <1>3 DEF Finish, Ended, queueVars
  <2>3. exit' \in [Runners -> {"none", "0", "1"}]
    BY <1>1, <1>3 DEF Finish
  <2> HIDE DEF y
  <2> QED BY <1>1, <1>3, <2>1, <2>2, <2>3, Leaving
<1>4. ASSUME UNCHANGED <<runs, cases>>
      PROVE  /\ runs' \in Seq(RunRow) /\ RunsWhole' /\ OneRunEach' /\ RatesRight'
             /\ \A i \in DOMAIN runs' : i \in DOMAIN runs /\ runs'[i] = runs[i]
  BY <1>1, <1>4 DEF RunsWhole, OneRunEach, RatesRight
<1>5. CASE Load(e)
  <2>1. CASE cases = {}
    BY <1>1, <1>3, <1>4, <1>5, <2>1 DEF Load
  <2>2. CASE cases # {}
    <3> DEFINE y == [x EXCEPT !.pc = "next", !.loaded = cases, !.todo = cases]
    <3>1. exec' = [exec EXCEPT ![e] = y]
      BY <1>5, <2>2 DEF Load
    <3>2. y \in ExecType
      BY <1>1, Zenon DEF ExecType, Active, InTransaction
    <3>3. x.pc = "load" /\ x.passed = {}
      BY <1>1, <1>5 DEF Load, At, Progress
    <3>4. y.pc = "next" /\ y.key = x.key /\ Progress(y)
      BY <1>1, <2>2, <3>3 DEF ExecType, Progress
    <3> HIDE DEF y
    <3> QED BY <1>1, <1>5, <2>2, <3>1, <3>2, <3>3, <3>4, Move DEF Load, InTransaction
  <2> QED BY <2>1, <2>2
<1>6. CASE Commit(e)
  <2>1. PICK r \in Rates(x) :
           /\ runs' = Append(runs, RunOf(x, r))
           /\ exec' = [exec EXCEPT ![e].pc = "refresh", ![e].gate = RunOf(x, r).gate]
    BY <1>6 DEF Commit
  <2> DEFINE row == RunOf(x, r)
             y == [x EXCEPT !.pc = "refresh", !.gate = row.gate]
  <2>2. /\ x.pc = "next" /\ UNCHANGED <<queue, registry, cases, reply, exit, faults>>
        /\ exec' = [exec EXCEPT ![e] = y]
    BY <1>6, <2>1 DEF Commit, At, queueVars
  <2>3. row.gate \in {"none", "pass", "fail"}
    BY DEF RunOf, GateResult
  <2>4. y \in ExecType
    BY <1>1, <2>3, Zenon DEF ExecType, Active
  <2>5. /\ y.pc = "refresh" /\ y.key = k /\ y.gate = row.gate /\ row.by = k
        /\ Progress(y)
    BY <1>1 DEF ExecType, Progress, InTransaction, RunOf
  <2>6. /\ runs' \in Seq(RunRow) /\ RunsWhole' /\ OneRunEach' /\ RatesRight'
        /\ \A i \in DOMAIN runs' : (i \in DOMAIN runs /\ runs'[i] = runs[i]) \/ runs'[i] = row
    BY <1>2, <2>1, <2>2, RunsGrow
  <2>7. /\ exec'[e] = y /\ \A f \in Executors : f # e => exec'[f] = exec[f]
        /\ \A f \in Executors : f # e /\ exec[f].pc \in Active => exec[f].key # k
        /\ \A i \in DOMAIN runs : runs[i].by # k
    BY <1>1, <2>2, KeysApart DEF IInv, TypeOK, Stored
  <2>8. /\ e \in Workers => e \notin Runners /\ k \in Jobs /\ registry[k] = "started"
        /\ e \in Runners => e \notin Workers /\ k = e /\ e \notin Jobs
    BY <1>1, KeyFacts
  <2> HIDE DEF y, row, k, x
  <2>9. TypeOK'
    BY <2>2, <2>4, <2>6 DEF IInv, TypeOK, QueueTypeOK
  <2>10. ASSUME NEW f \in Executors PROVE Progress(exec[f])' /\ Stored(exec[f])'
    <3>1. CASE f = e
      BY <2>2, <2>5, <2>6, <2>7, <3>1 DEF Progress, Stored
    <3>2. CASE f # e
      BY <2>2, <2>5, <2>6, <2>7, <3>2 DEF IInv, Progress, Stored
    <3> QED BY <3>1, <3>2
  <2>11. OwnKeys'
    <3>1. ASSUME NEW w \in Workers, exec'[w].pc \in Active
          PROVE  /\ exec'[w].key \in Jobs
                 /\ registry'[exec'[w].key] = "started"
                 /\ \A v \in Workers : exec'[v].pc \in Active /\ exec'[v].key = exec'[w].key => v = w
      BY <2>2, <2>5, <2>7, <2>8, <3>1 DEF IInv, OwnKeys, Executors
    <3>2. \A q \in Runners : exec'[q].pc \in Active => exec'[q].key = q
      BY <2>5, <2>7, <2>8 DEF IInv, OwnKeys, Executors
    <3>3. ASSUME NEW i \in DOMAIN runs', runs'[i].by \in Runners
          PROVE  exec'[runs'[i].by].pc \in {"refresh", "over"}
      BY <2>5, <2>6, <2>7, <2>8, <3>3, RunnersAssumption DEF IInv, OwnKeys, Executors
    <3>4. ASSUME NEW i \in DOMAIN runs', runs'[i].by \in Jobs
          PROVE  registry'[runs'[i].by] \notin {"none", "queued"}
      BY <2>2, <2>5, <2>6, <2>8, <3>4 DEF IInv, OwnKeys, Executors
    <3> QED BY <3>1, <3>2, <3>3, <3>4 DEF OwnKeys
  <2>12. QueuedOnce'
    BY <2>2 DEF IInv, QueuedOnce
  <2> QED BY <2>6, <2>9, <2>10, <2>11, <2>12 DEF IInv
<1>7. CASE Refresh(e)
  BY <1>1, <1>3, <1>4, <1>7 DEF Refresh
<1>8. CASE RefreshFindsNothing(e)
  BY <1>1, <1>3, <1>4, <1>8 DEF RefreshFindsNothing
<1>9. CASE StatementFails(e)
  <2>1. faults' \in 0..MaxFaults
    BY <1>1, <1>9, EvalFaultsAssumption DEF StatementFails, Fault
  <2>2. CASE UNCHANGED runs
    BY <1>3, <1>4, <1>9, <2>1, <2>2 DEF StatementFails
  <2>3. ASSUME At(e, "next"), NEW r \in Rates(x), runs' = Append(runs, RunOf(x, r))
        PROVE  IInv'
    <3>1. RunOf(x, r).by = k
      BY DEF RunOf
    <3>2. /\ runs' \in Seq(RunRow)
          /\ RunsWhole' /\ OneRunEach' /\ RatesRight'
          /\ \A i \in DOMAIN runs' : \/ i \in DOMAIN runs /\ runs'[i] = runs[i]
                                     \/ runs'[i] = RunOf(x, r)
      BY <1>2, <1>9, <2>3, RunsGrow DEF StatementFails, At
    <3> QED BY <1>3, <1>9, <2>1, <3>1, <3>2 DEF StatementFails
  <2> QED BY <1>9, <2>2, <2>3 DEF StatementFails
<1>10. CASE Crash(e)
  <2> DEFINE y == IF e \in Runners THEN Over ELSE Down
  <2>1. y \in {Free, Down, Over} /\ (e \in Runners => y = Over) /\ exec' = [exec EXCEPT ![e] = y]
    BY <1>10 DEF Crash
  <2>2. exit' \in [Runners -> {"none", "0", "1"}] /\ faults' \in 0..MaxFaults
    BY <1>1, <1>10, EvalFaultsAssumption DEF Crash, Fault
  <2>3. UNCHANGED <<queue, registry, cases, reply, runs>>
    BY <1>10 DEF Crash, queueVars
  <2> HIDE DEF y
  <2> QED BY <1>1, <1>4, <2>1, <2>2, <2>3, Leaving
<1>11. CASE TimesOut(e)
  <2>1. faults' \in 0..MaxFaults
    BY <1>1, <1>11, EvalFaultsAssumption DEF TimesOut, Fault
  <2> QED BY <1>3, <1>4, <1>11, <2>1 DEF TimesOut
<1> QED BY <1>5, <1>6, <1>7, <1>8, <1>9, <1>10, <1>11

(***************************************************************************)
(* A request is enqueued once at the most, because it is answered once.    *)
(***************************************************************************)
LEMMA RequestSteps ==
  ASSUME IInv, NEW j \in Jobs, Trigger(j) \/ TriggerFails(j)
  PROVE  IInv'
<1>1. /\ reply[j] = "none" /\ registry[j] = "none"
      /\ UNCHANGED <<cases, runs, exit, exec>>
      /\ \E answer \in {"202", "503", "lost"} : reply' = [reply EXCEPT ![j] = answer]
      /\ Enqueue(j) \/ UNCHANGED queueVars
      /\ faults' \in 0..MaxFaults
  BY EvalFaultsAssumption DEF IInv, TypeOK, QueuedOnce, Trigger, TriggerFails, Fault
<1>2. \A i \in DOMAIN queue : queue[i] # j
  BY <1>1 DEF IInv, QueuedOnce
<1>3. /\ queue' \in Seq(Jobs) /\ registry' \in [Jobs -> Places]
      /\ \A i \in Jobs : i # j => registry'[i] = registry[i]
      /\ registry'[j] \in {"none", "queued"}
      /\ reply' \in [Jobs -> {"none", "202", "503", "lost"}]
      /\ reply'[j] # "none" /\ \A i \in Jobs : i # j => reply'[i] = reply[i]
  <2>1. queue \in Seq(Jobs) /\ registry \in [Jobs -> Places]
        /\ reply \in [Jobs -> {"none", "202", "503", "lost"}]
    BY DEF IInv, TypeOK, QueueTypeOK
  <2>2. queue' \in Seq(Jobs)
    BY <1>1, <2>1, AppendFacts DEF Enqueue, queueVars
  <2>3. /\ registry' \in [Jobs -> Places] /\ registry'[j] \in {"none", "queued"}
        /\ \A i \in Jobs : i # j => registry'[i] = registry[i]
    BY <1>1, <2>1 DEF Enqueue, queueVars, Places
  <2>4. /\ reply' \in [Jobs -> {"none", "202", "503", "lost"}] /\ reply'[j] # "none"
        /\ \A i \in Jobs : i # j => reply'[i] = reply[i]
    BY <1>1, <2>1
  <2> QED BY <2>2, <2>3, <2>4
<1>4. TypeOK'
  BY <1>1, <1>3 DEF IInv, TypeOK, QueueTypeOK
<1>5. \A e \in Executors : Progress(exec[e])' /\ Stored(exec[e])'
  BY <1>1 DEF IInv, Progress, Stored
<1>6. OwnKeys'
  BY <1>1, <1>3 DEF IInv, OwnKeys
<1>7. QueuedOnce'
  <2>1. CASE UNCHANGED queueVars
    BY <1>1, <1>3, <2>1 DEF IInv, QueuedOnce, queueVars
  <2>2. CASE Enqueue(j)
    <3> DEFINE last == Len(queue) + 1
    <3>1. /\ queue \in Seq(Jobs) /\ registry'[j] = "queued"
          /\ DOMAIN queue' = DOMAIN queue \cup {last}
          /\ last \notin DOMAIN queue /\ queue'[last] = j
          /\ \A i \in DOMAIN queue : queue'[i] = queue[i] /\ queue[i] \in Jobs
      BY <2>2, AppendFacts DEF IInv, TypeOK, QueueTypeOK, Enqueue
    <3> HIDE DEF last
    <3> QED BY <1>2, <1>3, <3>1 DEF IInv, QueuedOnce
  <2> QED BY <1>1, <2>1, <2>2
<1>8. RunsWhole' /\ OneRunEach' /\ RatesRight'
  BY <1>1 DEF IInv, RunsWhole, OneRunEach, RatesRight
<1> QED BY <1>4, <1>5, <1>6, <1>7, <1>8 DEF IInv

(***************************************************************************)
(* A process that sets out to execute run_eval has a key of its own, of    *)
(* which no run is stored.                                                 *)
(***************************************************************************)
LEMMA BeginFacts ==
  ASSUME NEW k \in Keys
  PROVE  LET y == [Free EXCEPT !.pc = "load", !.key = k]
         IN  /\ y \in ExecType /\ y.pc = "load" /\ y.pc \in Active /\ y.key = k
             /\ Progress(y)
<1> DEFINE y == [Free EXCEPT !.pc = "load", !.key = k]
<1>1. y \in ExecType
  BY RestingFacts, Zenon DEF ExecType, Active
<1>2. y.pc = "load" /\ y.key = k /\ y.passed = {} /\ y.todo = {}
  BY DEF Free
<1> QED BY <1>1, <1>2 DEF Progress, Active, InTransaction

(***************************************************************************)
(* A worker takes a job that nobody executes and that has no run.          *)
(***************************************************************************)
LEMMA TakeSteps ==
  ASSUME IInv, NEW w \in Workers, Take(w)
  PROVE  IInv'
<1> DEFINE j == Head(queue)
           y == [Free EXCEPT !.pc = "load", !.key = j]
<1>1. /\ exec[w].pc = "idle" /\ w \in Executors /\ w \notin Runners
      /\ queue # << >> /\ queue' = Tail(queue)
      /\ registry' = [registry EXCEPT ![j] = "started"]
      /\ exec' = [exec EXCEPT ![w] = y]
      /\ UNCHANGED <<cases, runs, reply, exit, faults>>
  BY RunnersAssumption DEF Take, At, Dequeue, Executors
<1>2. /\ j \in Jobs /\ j \notin Runners /\ registry[j] = "queued" /\ queue' \in Seq(Jobs)
      /\ \A i \in DOMAIN queue' : /\ i + 1 \in DOMAIN queue /\ i \in Nat
                                  /\ queue'[i] = queue[i + 1] /\ queue'[i] # j
  BY <1>1, TailFacts, RunnersAssumption DEF IInv, TypeOK, QueueTypeOK, QueuedOnce
<1>3. /\ y \in ExecType /\ y.pc = "load" /\ y.pc \in Active /\ y.key = j /\ Progress(y)
  BY <1>2, BeginFacts DEF Keys
<1> HIDE DEF j, y
<1>4. /\ \A i \in DOMAIN runs : runs[i].by # j
      /\ \A v \in Workers : exec[v].pc \in Active => exec[v].key # j
      /\ \A r \in Runners : exec[r].pc \in Active => exec[r].key # j
  BY <1>2 DEF IInv, OwnKeys
<1>5. /\ registry' \in [Jobs -> Places] /\ registry'[j] = "started" /\ exec'[w] = y
      /\ \A i \in Jobs : i # j => registry'[i] = registry[i]
      /\ \A f \in Executors : f # w => exec'[f] = exec[f]
  BY <1>1, <1>2 DEF IInv, TypeOK, QueueTypeOK, Places
<1>6. TypeOK'
  BY <1>1, <1>2, <1>3, <1>5 DEF IInv, TypeOK, QueueTypeOK
<1>7. ASSUME NEW f \in Executors PROVE Progress(exec[f])' /\ Stored(exec[f])'
  <2>1. CASE f = w
    BY <1>1, <1>3, <1>4, <1>5, <2>1 DEF Progress, Stored
  <2>2. CASE f # w
    BY <1>1, <1>5, <2>2 DEF IInv, Progress, Stored
  <2> QED BY <2>1, <2>2
<1>8. OwnKeys'
  <2>1. ASSUME NEW v \in Workers, exec'[v].pc \in Active
        PROVE  /\ exec'[v].key \in Jobs
               /\ registry'[exec'[v].key] = "started"
               /\ \A u \in Workers : exec'[u].pc \in Active /\ exec'[u].key = exec'[v].key => u = v
    BY <1>2, <1>3, <1>4, <1>5, <2>1 DEF IInv, OwnKeys, Executors
  <2>2. \A r \in Runners : /\ exec'[r] = exec[r]
                           /\ exec'[r].pc \in Active => exec'[r].key = r
    BY <1>1, <1>5 DEF IInv, OwnKeys, Executors
  <2>3. \A i \in DOMAIN runs' :
           runs'[i].by \in Runners => exec'[runs'[i].by].pc \in {"refresh", "over"}
    BY <1>1, <2>2 DEF IInv, OwnKeys
  <2>4. \A i \in DOMAIN runs' : runs'[i].by \in Jobs => registry'[runs'[i].by] \notin {"none", "queued"}
    BY <1>1, <1>5 DEF IInv, OwnKeys
  <2> QED BY <2>1, <2>2, <2>3, <2>4 DEF OwnKeys
<1>9. QueuedOnce'
  <2>1. \A i \in DOMAIN queue' : queue'[i] \in Jobs /\ registry'[queue'[i]] = "queued"
    BY <1>2, <1>5 DEF IInv, TypeOK, QueueTypeOK, QueuedOnce
  <2>2. ASSUME NEW i \in DOMAIN queue', NEW h \in DOMAIN queue', queue'[i] = queue'[h]
        PROVE  i = h
    <3>1. i + 1 = h + 1
      BY <1>2, <2>2 DEF IInv, QueuedOnce
    <3> QED BY <1>2, <3>1
  <2>3. \A i \in Jobs : reply'[i] = "none" => registry'[i] = "none"
    BY <1>1, <1>2, <1>5 DEF IInv, QueuedOnce
  <2> QED BY <2>1, <2>2, <2>3 DEF QueuedOnce
<1>10. RunsWhole' /\ OneRunEach' /\ RatesRight'
  BY <1>1 DEF IInv, RunsWhole, OneRunEach, RatesRight
<1> QED BY <1>6, <1>7, <1>8, <1>9, <1>10 DEF IInv

(***************************************************************************)
(* A command line starts run_eval for itself.                              *)
(***************************************************************************)
LEMMA InvokeSteps ==
  ASSUME IInv, NEW r \in Runners, Invoke(r)
  PROVE  IInv'
<1> DEFINE y == [Free EXCEPT !.pc = "load", !.key = r]
<1>1. /\ exec[r].pc = "idle" /\ r \in Executors /\ r \notin Workers /\ r \notin Jobs
      /\ exec' = [exec EXCEPT ![r] = y]
      /\ UNCHANGED <<queue, registry, cases, runs, reply, exit, faults>>
  BY RunnersAssumption DEF Invoke, At, Executors, queueVars
<1>2. /\ y \in ExecType /\ y.pc = "load" /\ y.pc \in Active /\ y.key = r /\ Progress(y)
  BY BeginFacts DEF Keys
<1> HIDE DEF y
<1>3. \A i \in DOMAIN runs : runs[i].by # r
  BY <1>1 DEF IInv, OwnKeys
<1>4. exec'[r] = y /\ \A f \in Executors : f # r => exec'[f] = exec[f]
  BY <1>1 DEF IInv, TypeOK
<1>5. TypeOK'
  BY <1>1, <1>2 DEF IInv, TypeOK, QueueTypeOK
<1>6. ASSUME NEW f \in Executors PROVE Progress(exec[f])' /\ Stored(exec[f])'
  <2>1. CASE f = r
    BY <1>1, <1>2, <1>3, <1>4, <2>1 DEF Progress, Stored
  <2>2. CASE f # r
    BY <1>1, <1>4, <2>2 DEF IInv, Progress, Stored
  <2> QED BY <2>1, <2>2
<1>7. OwnKeys'
  <2>1. ASSUME NEW v \in Workers, exec'[v].pc \in Active
        PROVE  /\ exec'[v].key \in Jobs
               /\ registry'[exec'[v].key] = "started"
               /\ \A u \in Workers : exec'[u].pc \in Active /\ exec'[u].key = exec'[v].key => u = v
    BY <1>1, <1>4, <2>1 DEF IInv, OwnKeys, Executors
  <2>2. \A q \in Runners : exec'[q].pc \in Active => exec'[q].key = q
    BY <1>2, <1>4 DEF IInv, OwnKeys, Executors
  <2>3. ASSUME NEW i \in DOMAIN runs', runs'[i].by \in Runners
        PROVE  exec'[runs'[i].by].pc \in {"refresh", "over"}
    BY <1>1, <1>3, <1>4, <2>3 DEF IInv, OwnKeys, Executors
  <2>4. \A i \in DOMAIN runs' : runs'[i].by \in Jobs => registry'[runs'[i].by] \notin {"none", "queued"}
    BY <1>1 DEF IInv, OwnKeys
  <2> QED BY <2>1, <2>2, <2>3, <2>4 DEF OwnKeys
<1>8. QueuedOnce' /\ RunsWhole' /\ OneRunEach' /\ RatesRight'
  BY <1>1 DEF IInv, QueuedOnce, RunsWhole, OneRunEach, RatesRight
<1> QED BY <1>5, <1>6, <1>7, <1>8 DEF IInv

(***************************************************************************)
(* Stopping and starting a worker between two jobs touches no execution.   *)
(***************************************************************************)
LEMMA StopStartSteps ==
  ASSUME IInv, NEW w \in Workers, Stop(w) \/ Start(w)
  PROVE  IInv'
<1>1. PICK y \in {Free, Down} : exec' = [exec EXCEPT ![w] = y]
  BY DEF Stop, Start
<1>2. /\ exec[w].pc \notin Active /\ w \in Executors /\ w \notin Runners
      /\ UNCHANGED <<queue, registry, cases, runs, reply, exit, faults>>
  BY RunnersAssumption DEF Stop, Start, At, Executors, Active, InTransaction, queueVars
<1>3. y \in ExecType /\ y.pc \notin Active /\ Progress(y)
  BY <1>1, RestingFacts DEF Progress
<1>4. exec'[w] = y /\ \A f \in Executors : f # w => exec'[f] = exec[f]
  BY <1>1, <1>2 DEF IInv, TypeOK
<1>5. TypeOK'
  BY <1>1, <1>2, <1>3 DEF IInv, TypeOK, QueueTypeOK
<1>6. ASSUME NEW f \in Executors PROVE Progress(exec[f])' /\ Stored(exec[f])'
  <2>1. CASE f = w
    BY <1>2, <1>3, <1>4, <2>1 DEF Progress, Stored
  <2>2. CASE f # w
    BY <1>2, <1>4, <2>2 DEF IInv, Progress, Stored
  <2> QED BY <2>1, <2>2
<1>7. OwnKeys'
  <2>1. \A v \in Workers : exec'[v].pc \in Active => exec'[v] = exec[v]
    BY <1>3, <1>4 DEF Executors
  <2>2. \A r \in Runners : exec'[r] = exec[r]
    BY <1>2, <1>4 DEF Executors
  <2> QED BY <1>2, <2>1, <2>2 DEF IInv, OwnKeys
<1>8. QueuedOnce' /\ RunsWhole' /\ OneRunEach' /\ RatesRight'
  BY <1>2 DEF IInv, QueuedOnce, RunsWhole, OneRunEach, RatesRight
<1> QED BY <1>5, <1>6, <1>7, <1>8 DEF IInv

(***************************************************************************)
(* The maintenance of the queue fails only jobs that nobody executes.      *)
(***************************************************************************)
LEMMA AbandonSteps ==
  ASSUME IInv, NEW j \in Jobs, Abandon(j)
  PROVE  IInv'
<1>1. /\ registry[j] = "started" /\ \A w \in Workers : exec[w].key # j
      /\ UNCHANGED <<queue, cases, runs, reply, exit, exec, faults>>
      /\ registry' \in [Jobs -> Places] /\ registry'[j] = "failed"
      /\ \A i \in Jobs : i # j => registry'[i] = registry[i]
  BY DEF Abandon, AbandonJob, IInv, TypeOK, QueueTypeOK, Places
<1>2. TypeOK'
  BY <1>1 DEF IInv, TypeOK, QueueTypeOK
<1>3. \A e \in Executors : Progress(exec[e])' /\ Stored(exec[e])'
  BY <1>1 DEF IInv, Progress, Stored
<1>4. OwnKeys'
  BY <1>1 DEF IInv, OwnKeys
<1>5. QueuedOnce'
  BY <1>1 DEF IInv, TypeOK, QueueTypeOK, QueuedOnce
<1>6. RunsWhole' /\ OneRunEach' /\ RatesRight'
  BY <1>1 DEF IInv, RunsWhole, OneRunEach, RatesRight
<1> QED BY <1>2, <1>3, <1>4, <1>5, <1>6 DEF IInv

(***************************************************************************)
(* Test cases come one by one and go all at once, with the runs; while an  *)
(* execution has read them they only come.                                 *)
(***************************************************************************)
LEMMA TableSteps ==
  ASSUME IInv, (\E c \in Cases : CreateCase(c)) \/ Reset
  PROVE  IInv'
<1>1. ASSUME NEW c \in Cases, CreateCase(c) PROVE IInv'
  BY <1>1 DEF CreateCase, queueVars, IInv, TypeOK, QueueTypeOK, Progress, Stored, OwnKeys, QueuedOnce,
     RunsWhole, OneRunEach, RatesRight
<1>2. CASE Reset
  <2>1. /\ runs' = << >> /\ cases' = {}
        /\ \A e \in Executors : exec[e].pc \notin InTransaction
        /\ UNCHANGED <<queue, registry, reply, exit, exec, faults>>
    BY <1>2 DEF Reset, queueVars
  <2>2. TypeOK'
    BY <2>1 DEF IInv, TypeOK, QueueTypeOK
  <2>3. \A e \in Executors : Progress(exec[e])' /\ Stored(exec[e])'
    BY <2>1 DEF IInv, Progress, Stored
  <2>4. OwnKeys' /\ QueuedOnce'
    BY <2>1 DEF IInv, OwnKeys, QueuedOnce
  <2>5. RunsWhole' /\ OneRunEach' /\ RatesRight'
    BY <2>1 DEF RunsWhole, OneRunEach, RatesRight
  <2> QED BY <2>2, <2>3, <2>4, <2>5 DEF IInv
<1> QED BY <1>1, <1>2

(***************************************************************************)
(* Every step keeps the invariant.                                         *)
(***************************************************************************)
LEMMA NextIInv == IInv /\ [Next]_vars => IInv'
<1> SUFFICES ASSUME IInv, [Next]_vars PROVE IInv'
  OBVIOUS
<1>1. CASE Next
  <2>1. ASSUME NEW e \in Executors, Evaluate(e) \/ EvaluateFails(e) PROVE IInv'
    BY <2>1, ScoringSteps, ExecutionSteps DEF Evaluate, EvaluateFails
  <2>2. ASSUME NEW w \in Workers, Take(w) \/ Stop(w) \/ Start(w) PROVE IInv'
    BY <2>2, TakeSteps, StopStartSteps
  <2>3. ASSUME NEW j \in Jobs, Trigger(j) \/ TriggerFails(j) \/ Abandon(j) PROVE IInv'
    BY <2>3, RequestSteps, AbandonSteps
  <2> QED BY <1>1, <2>1, <2>2, <2>3, InvokeSteps, TableSteps DEF Next
<1>2. CASE UNCHANGED vars
  BY <1>2 DEF vars, queueVars, IInv, TypeOK, QueueTypeOK, Progress, Stored, OwnKeys, QueuedOnce,
     RunsWhole, OneRunEach, RatesRight
<1> QED BY <1>1, <1>2

-------------------------------------------------------------------------------
(* The properties *)

(***************************************************************************)
(* The invariant holds in every reachable state.                           *)
(***************************************************************************)
THEOREM EvalInvariance == Spec => []IInv
BY InitIInv, NextIInv, PTL DEF Spec

(***************************************************************************)
(* A stored run is made of all its cases, and they are in the table,       *)
(* whatever failed, was killed, created or truncated while it ran.         *)
(***************************************************************************)
THEOREM Runs_Whole == Spec => []RunsWhole
<1>1. IInv => RunsWhole
  BY DEF IInv
<1> QED BY <1>1, EvalInvariance, PTL

(***************************************************************************)
(* A request or an invocation stores one run at the most.                  *)
(***************************************************************************)
THEOREM One_RunEach == Spec => []OneRunEach
<1>1. IInv => OneRunEach
  BY DEF IInv
<1> QED BY <1>1, EvalInvariance, PTL

(***************************************************************************)
(* The numbers of cases and of passed cases of a run.                      *)
(***************************************************************************)
LEMMA SuiteSizes ==
  ASSUME NEW C \in SUBSET Cases, C # {}, NEW P \in SUBSET C
  PROVE  /\ Cardinality(C) \in Nat \ {0} /\ Cardinality(P) \in 0..Cardinality(C)
         /\ Cardinality(Cases) < 200 => Cardinality(C) \in 1..199
<1>1. IsFiniteSet(C) /\ Cardinality(C) \in Nat /\ Cardinality(C) <= Cardinality(Cases)
  BY CasesAssumption, FS_Subset, FS_CardinalityType
<1>2. Cardinality(Cases) \in Nat /\ Cardinality(C) # 0
  BY <1>1, CasesAssumption, FS_CardinalityType, FS_EmptySet
<1>3. Cardinality(P) \in Nat /\ Cardinality(P) <= Cardinality(C)
  BY <1>1, FS_Subset, FS_CardinalityType
<1> QED BY <1>1, <1>2, <1>3

(***************************************************************************)
(* What is known of a stored run: its sizes, and its verdict on its rate.  *)
(***************************************************************************)
LEMMA StoredRunFacts ==
  ASSUME IInv, NEW i \in DOMAIN runs
  PROVE  LET n == Cardinality(runs[i].cases)
             p == Cardinality(runs[i].passed)
             t == gate_threshold[runs[i].by]
         IN  /\ n \in Nat \ {0} /\ p \in 0..n /\ t \in 0..Scale /\ runs[i].by \in Keys
             /\ Cardinality(Cases) < 200 => n \in 1..199
             /\ runs[i].rate \in Rounded(p, n)
             /\ runs[i].gate = GateResult(runs[i].rate, t)
<1> DEFINE C == runs[i].cases
           P == runs[i].passed
<1>1. /\ C \in SUBSET Cases /\ C # {} /\ P \in SUBSET C /\ runs[i].by \in Keys
      /\ runs[i].rate \in Rounded(Cardinality(P), Cardinality(C))
      /\ runs[i].gate = GateResult(runs[i].rate, gate_threshold[runs[i].by])
  <2>1. runs[i] \in RunRow
    BY DEF IInv, TypeOK
  <2>2. C \in SUBSET Cases /\ P \in SUBSET Cases /\ runs[i].by \in Keys
    BY <2>1 DEF RunRow
  <2> QED BY <2>2 DEF IInv, RunsWhole, RatesRight
<1>2. gate_threshold[runs[i].by] \in 0..Scale
  BY <1>1, ThresholdAssumption DEF Keys
<1>3. /\ Cardinality(C) \in Nat \ {0} /\ Cardinality(P) \in 0..Cardinality(C)
      /\ Cardinality(Cases) < 200 => Cardinality(C) \in 1..199
  BY <1>1, SuiteSizes
<1> QED BY <1>1, <1>2, <1>3

(***************************************************************************)
(* Whatever the suite and the thresholds, a stored verdict is one that the *)
(* stored results deserve: rounding never blocks a suite that meets its    *)
(* threshold, and lets through only a miss by half a ten-thousandth.       *)
(***************************************************************************)
THEOREM Verdicts_Deserved == Spec => []VerdictsDeserved
<1>1. IInv => VerdictsDeserved
  BY StoredRunFacts, Gate_Deserved DEF VerdictsDeserved
<1> QED BY <1>1, EvalInvariance, PTL

(***************************************************************************)
(* The stored verdict is the verdict of the exact ratio.                   *)
(***************************************************************************)
GateExact ==
    \A i \in DOMAIN runs :
        runs[i].gate = "pass"
        <=> Meets(Cardinality(runs[i].passed), Cardinality(runs[i].cases),
                  gate_threshold[runs[i].by])

(***************************************************************************)
(* With fewer than 200 cases and thresholds in whole percents rounding     *)
(* decides no stored verdict.                                              *)
(***************************************************************************)
THEOREM Stored_GateExact ==
  ASSUME Cardinality(Cases) < 200,
         \A k \in Keys : \E h \in 0..100 : gate_threshold[k] = 100 * h
  PROVE  Spec => []GateExact
<1>1. IInv => GateExact
  <2> SUFFICES ASSUME IInv, NEW i \in DOMAIN runs
               PROVE  runs[i].gate = "pass"
                      <=> Meets(Cardinality(runs[i].passed), Cardinality(runs[i].cases),
                                gate_threshold[runs[i].by])
    BY DEF GateExact
  <2> DEFINE n == Cardinality(runs[i].cases)
             p == Cardinality(runs[i].passed)
             rate == runs[i].rate
  <2>1. PICK h \in 0..100 : gate_threshold[runs[i].by] = 100 * h
    BY StoredRunFacts
  <2>2. /\ n \in 1..199 /\ p \in 0..n /\ rate \in Rounded(p, n)
        /\ runs[i].gate = GateResult(rate, 100 * h)
    BY <2>1, StoredRunFacts
  <2> HIDE DEF n, p, rate
  <2>3. GateResult(rate, 100 * h) = "pass" <=> Meets(p, n, 100 * h)
    BY <2>2, Gate_Exact
  <2> QED BY <2>1, <2>2, <2>3 DEF n, p
<1> QED BY <1>1, EvalInvariance, PTL

(***************************************************************************)
(* Exit code 0 is set only by a command line whose run is stored with the  *)
(* gate passed: any error on the way blocks the merge.                     *)
(***************************************************************************)
THEOREM Merge_NeedsEvidence == Spec => MergeNeedsEvidence
<1>1. ASSUME IInv, [Next]_vars, NEW r \in Runners, exit'[r] = "0", exit[r] # "0"
      PROVE  \E i \in DOMAIN runs' : runs'[i].by = r /\ runs'[i].gate = "pass"
  <2>1. exit \in [Runners -> {"none", "0", "1"}]
    BY <1>1 DEF IInv, TypeOK
  <2>2. \E e \in Executors : Evaluate(e) \/ EvaluateFails(e)
    BY <1>1 DEF Next, vars, CreateCase, Trigger, TriggerFails, Abandon, Take, Stop, Start, Invoke, Reset
  <2>3. PICK e \in Executors : Evaluate(e) \/ EvaluateFails(e)
    BY <2>2
  <2>4. Refresh(e) /\ exec[e].gate = "pass" /\ e = r
    BY <1>1, <2>1, <2>3
       DEF Evaluate, EvaluateFails, Load, NextCase, Score, JudgeFails, EndCase, Commit, Refresh,
           RefreshFindsNothing, EmbeddingFails, StatementFails, TimesOut, Crash, Finish
  <2>5. PICK i \in DOMAIN runs : runs[i].by = exec[e].key
    BY <2>4 DEF Refresh
  <2>6. exec[e].pc \in Active /\ exec[e].key = r
    BY <1>1, <2>4 DEF Refresh, At, Active, IInv, OwnKeys
  <2>7. runs[i].gate = "pass"
    BY <1>1, <2>4, <2>5, <2>6 DEF IInv, Stored
  <2> QED BY <2>4, <2>5, <2>6, <2>7 DEF Refresh
<1>2. IInv /\ [Next]_vars => [\A r \in Runners : Evidence(r)]_vars
  BY <1>1 DEF Evidence
<1> QED BY <1>2, EvalInvariance, PTL DEF Spec, MergeNeedsEvidence

(***************************************************************************)
(* The case at hand is passing and has no scorer left exactly if all have  *)
(* said that it passes.                                                    *)
(***************************************************************************)
LEMMA FaithfulVerdict ==
  ASSUME NEW x \in ExecType, x.case \in Cases, Faithful(x), x.left = << >>
  PROVE  x.passing <=> AllSaidPass(x)
<1> DEFINE m == eval_methods[x.case]
           said == x.said
<1>1. m \in Seq(Methods) /\ said \in Seq(Methods \X Answers) /\ x.passing \in BOOLEAN
  BY MethodsAssumption DEF ExecType
<1>2. ASSUME x.passing PROVE AllSaidPass(x)
  <2>1. /\ m # << >> /\ Len(said) + Len(<< >>) = Len(m)
        /\ \A i \in DOMAIN said : said[i] = <<m[i], "pass">>
    BY <1>2 DEF Faithful
  <2>2. said = [i \in DOMAIN m |-> <<m[i], "pass">>]
    <3> HIDE DEF m, said
    <3>1. DOMAIN said = DOMAIN m
      BY <1>1, <2>1
    <3> QED BY <1>1, <2>1, <3>1
  <2> QED BY <2>1, <2>2 DEF AllSaidPass
<1>3. ASSUME ~x.passing, AllSaidPass(x) PROVE FALSE
  <2>1. m # << >> /\ said = [i \in DOMAIN m |-> <<m[i], "pass">>]
    BY <1>3 DEF AllSaidPass
  <2>2. PICK i \in DOMAIN said : said[i][2] # "pass"
    BY <1>3, <2>1 DEF Faithful
  <2>3. said[i] = <<m[i], "pass">>
    <3> HIDE DEF m, said
    <3> QED BY <2>1, <2>2
  <2> QED BY <2>2, <2>3
<1> QED BY <1>1, <1>2, <1>3

(***************************************************************************)
(* For every suite, a case that is done with has passed if and only if     *)
(* each of its scorers was asked and said so: a scorer that raised, and    *)
(* the ones it made skipped, count against it.                             *)
(***************************************************************************)
THEOREM Cases_NeedAllMethods == Spec => CasesNeedAllMethods
<1>1. ASSUME IInv, [Next]_vars, NEW f \in Executors PROVE ScorersDecide(f)
  <2>1. ASSUME exec'[f] = exec[f] PROVE ScorersDecide(f)
    BY <2>1 DEF ScorersDecide, At
  <2>2. ASSUME NEW e \in Executors, NEW y, exec' = [exec EXCEPT ![e] = y],
               y.passed \in {exec[e].passed, {}}, ~(exec[e].pc = "score" /\ y.pc = "next")
        PROVE  ScorersDecide(f)
    <3>1. exec'[e] = y /\ (f # e => exec'[f] = exec[f])
      BY <1>1, <2>2 DEF IInv, TypeOK
    <3>2. CASE f = e
      BY <2>2, <3>1, <3>2 DEF ScorersDecide, At
    <3> QED BY <2>1, <3>1, <3>2
  <2>3. ASSUME NEW e \in Executors, NEW y \in {Free, Down, Over}, exec' = [exec EXCEPT ![e] = y]
        PROVE  ScorersDecide(f)
    BY <2>2, <2>3, RestingFacts
  <2>4. ASSUME NEW e \in Executors, NEW place, NEW code, Finish(e, place, code)
        PROVE  ScorersDecide(f)
    BY <2>3, <2>4 DEF Finish
  <2>5. ASSUME NEW e \in Executors, Evaluate(e) PROVE ScorersDecide(f)
    <3> DEFINE x == exec[e]
    <3>1. x \in ExecType /\ exec \in [Executors -> ExecType] /\ Progress(x)
      BY <1>1 DEF IInv, TypeOK
    <3>2. CASE Load(e)
      <4>1. CASE cases = {}
        BY <2>4, <3>2, <4>1 DEF Load
      <4>2. CASE cases # {}
        <5> DEFINE y == [x EXCEPT !.pc = "next", !.loaded = cases, !.todo = cases]
        <5>1. exec' = [exec EXCEPT ![e] = y] /\ x.pc = "load" /\ y.passed = x.passed
          BY <3>1, <3>2, <4>2 DEF Load, At, ExecType
        <5> HIDE DEF y
        <5> QED BY <2>2, <5>1
      <4> QED BY <4>1, <4>2
    <3>3. CASE NextCase(e)
      <4>1. PICK c \in x.todo : exec' = [exec EXCEPT ![e] = Begun(x, c)]
        BY <3>3 DEF NextCase
      <4>2. x.pc = "next" /\ Begun(x, c).passed = x.passed
        BY <3>1, <3>3 DEF NextCase, At, Begun, ExecType
      <4> QED BY <2>2, <4>1, <4>2
    <3>4. CASE Score(e)
      <4>1. PICK ok \in BOOLEAN : exec' = [exec EXCEPT ![e] = Scored(x, ok)]
        BY <3>4 DEF Score
      <4>2. x.pc = "score" /\ x.left # << >>
        BY <3>4 DEF Score, At
      <4>3. Scored(x, ok).passed = x.passed /\ Scored(x, ok).pc = "score"
        BY <3>1, <4>2, ScorerFacts
      <4> QED BY <2>2, <4>1, <4>3
    <3>5. CASE JudgeFails(e)
      <4>1. x.pc = "score" /\ x.left # << >>
        BY <3>5 DEF JudgeFails, At
      <4>2. /\ ScorerRaised(x).passed = x.passed /\ ScorerRaised(x).pc = "score"
            /\ AskedInVain(x).passed = x.passed /\ AskedInVain(x).pc = "score"
        BY <3>1, <4>1 DEF ScorerRaised, AskedInVain, ExecType
      <4>3. \/ exec' = [exec EXCEPT ![e] = ScorerRaised(x)]
            \/ exec' = [exec EXCEPT ![e] = AskedInVain(x)]
        BY <3>5 DEF JudgeFails
      <4> QED BY <2>2, <4>2, <4>3
    <3>6. CASE EndCase(e)
      <4>1. x.pc = "score" /\ x.left = << >> /\ exec' = [exec EXCEPT ![e] = Verdict(x)]
        BY <3>6 DEF EndCase, At
      <4>2. x.case \in Cases /\ x.case \notin x.passed /\ (x.passing <=> AllSaidPass(x))
        BY <3>1, <4>1, FaithfulVerdict DEF Progress, ExecType
      <4>3. Verdict(x).passed = IF x.passing THEN x.passed \cup {x.case} ELSE x.passed
        BY <3>1 DEF Verdict, ExecType
      <4>4. CASE f = e
        <5>1. exec'[f] = Verdict(x)
          BY <3>1, <4>1, <4>4
        <5> QED BY <4>1, <4>2, <4>3, <4>4, <5>1 DEF ScorersDecide, At
      <4>5. CASE f # e
        BY <2>1, <3>1, <4>1, <4>5
      <4> QED BY <4>4, <4>5
    <3>7. CASE Commit(e)
      <4>1. PICK r : exec' = [exec EXCEPT ![e].pc = "refresh", ![e].gate = RunOf(x, r).gate]
        BY <3>7 DEF Commit
      <4> DEFINE y == [x EXCEPT !.pc = "refresh", !.gate = RunOf(x, r).gate]
      <4>2. exec' = [exec EXCEPT ![e] = y] /\ x.pc = "next" /\ y.passed = x.passed
        BY <3>1, <3>7, <4>1 DEF Commit, At, ExecType
      <4> HIDE DEF y
      <4> QED BY <2>2, <4>2
    <3>8. CASE Refresh(e) \/ RefreshFindsNothing(e)
      BY <2>4, <3>8 DEF Refresh, RefreshFindsNothing
    <3> QED BY <2>5, <3>2, <3>3, <3>4, <3>5, <3>6, <3>7, <3>8 DEF Evaluate
  <2>6. ASSUME NEW e \in Executors, EvaluateFails(e) PROVE ScorersDecide(f)
    <3>1. CASE EmbeddingFails(e)
      <4>1. exec[e] \in ExecType
        BY <1>1 DEF IInv, TypeOK
      <4>2. ScorerRaised(exec[e]).passed = exec[e].passed /\ ScorerRaised(exec[e]).pc = exec[e].pc
        BY <4>1 DEF ScorerRaised, ExecType
      <4> QED BY <2>2, <3>1, <4>2 DEF EmbeddingFails
    <3>2. CASE StatementFails(e) \/ TimesOut(e)
      BY <2>4, <3>2 DEF StatementFails, TimesOut
    <3>3. CASE Crash(e)
      BY <2>3, <3>3 DEF Crash
    <3> QED BY <2>6, <3>1, <3>2, <3>3 DEF EvaluateFails
  <2>7. ASSUME NEW e \in Executors, NEW k,
               exec' = [exec EXCEPT ![e] = [Free EXCEPT !.pc = "load", !.key = k]]
        PROVE  ScorersDecide(f)
    <3> DEFINE y == [Free EXCEPT !.pc = "load", !.key = k]
    <3>1. y.passed = {} /\ y.pc = "load"
      BY DEF Free
    <3> HIDE DEF y
    <3> QED BY <2>2, <2>7, <3>1 DEF y
  <2>8. ASSUME NEW w \in Workers, Take(w) \/ Stop(w) \/ Start(w) PROVE ScorersDecide(f)
    BY <2>3, <2>7, <2>8 DEF Take, Stop, Start, Executors
  <2>9. ASSUME NEW r \in Runners, Invoke(r) PROVE ScorersDecide(f)
    BY <2>7, <2>9 DEF Invoke, Executors
  <2>10. ASSUME UNCHANGED exec PROVE ScorersDecide(f)
    BY <2>1, <2>10
  <2> QED BY <1>1, <2>5, <2>6, <2>8, <2>9, <2>10
          DEF Next, vars, CreateCase, Trigger, TriggerFails, Abandon, Reset
<1>2. IInv /\ [Next]_vars => [\A e \in Executors : ScorersDecide(e)]_vars
  BY <1>1
<1> QED BY <1>2, EvalInvariance, PTL DEF Spec, CasesNeedAllMethods

-------------------------------------------------------------------------------
(* An execution goes on towards its end *)

(***************************************************************************)
(* A scorer that answers or raises is done with: fewer are left.           *)
(***************************************************************************)
LEMMA ScorerDone ==
  ASSUME NEW x \in ExecType, x.pc = "score", x.left # << >>
  PROVE  \A y \in {ScorerRaised(x)} \cup {Scored(x, ok) : ok \in BOOLEAN} :
            y.key = x.key /\ Further(x, y)
<1>1. x.left \in Seq(Methods) /\ Len(x.left) \in Nat \ {0}
  BY DEF ExecType
<1>2. Len(Tail(x.left)) < Len(x.left) /\ Len(<< >>) < Len(x.left)
  BY <1>1
<1>3. /\ ScorerRaised(x).left = << >>
      /\ \A ok \in BOOLEAN : Scored(x, ok).left = Tail(x.left)
  BY DEF ScorerRaised, Scored, ExecType
<1>4. \A y \in {ScorerRaised(x)} \cup {Scored(x, ok) : ok \in BOOLEAN} :
         y.pc = x.pc /\ y.key = x.key /\ y.todo = x.todo
  BY ScorerFacts
<1> QED BY <1>2, <1>3, <1>4 DEF Further

(***************************************************************************)
(* Each step of run_eval that does not end it takes it further.            *)
(***************************************************************************)
LEMMA EvaluateAdvances ==
  ASSUME IInv, NEW e \in Executors, Evaluate(e), exec'[e].pc \in Active
  PROVE  exec'[e].key = exec[e].key /\ Further(exec[e], exec'[e])
<1> DEFINE x == exec[e]
<1>1. x \in ExecType /\ exec \in [Executors -> ExecType]
  BY DEF IInv, TypeOK
<1>2. ASSUME NEW place, NEW code, Finish(e, place, code)
      PROVE  FALSE
  BY <1>1, <1>2, RestingFacts DEF Finish
<1>3. CASE Load(e)
  <2>1. cases # {}
    BY <1>2, <1>3 DEF Load
  <2> DEFINE y == [x EXCEPT !.pc = "next", !.loaded = cases, !.todo = cases]
  <2>2. exec' = [exec EXCEPT ![e] = y] /\ x.pc = "load"
    BY <1>1, <1>3, <2>1 DEF Load, At
  <2>3. y.pc = "next" /\ y.key = x.key
    BY <1>1 DEF ExecType
  <2> HIDE DEF y
  <2> QED BY <1>1, <2>2, <2>3 DEF Further
<1>4. CASE NextCase(e)
  <2>1. PICK c \in x.todo : exec' = [exec EXCEPT ![e] = Begun(x, c)]
    BY <1>4 DEF NextCase
  <2>2. /\ x.pc = "next" /\ Begun(x, c).pc = "score" /\ Begun(x, c).key = x.key
        /\ Begun(x, c).todo = x.todo \ {c}
    BY <1>1, <1>4 DEF NextCase, At, Begun, ExecType
  <2> QED BY <1>1, <2>1, <2>2 DEF Further
<1>5. CASE Score(e)
  <2>1. PICK ok \in BOOLEAN : exec' = [exec EXCEPT ![e] = Scored(x, ok)]
    BY <1>5 DEF Score
  <2>2. x.pc = "score" /\ x.left # << >>
    BY <1>5 DEF Score, At
  <2> QED BY <1>1, <2>1, <2>2, ScorerDone
<1>6. CASE JudgeFails(e)
  <2>1. x.pc = "score" /\ x.left # << >>
    BY <1>6 DEF JudgeFails, At
  <2>2. CASE exec' = [exec EXCEPT ![e] = ScorerRaised(x)]
    BY <1>1, <2>1, <2>2, ScorerDone
  <2>3. CASE exec' = [exec EXCEPT ![e] = AskedInVain(x)]
    <3>1. /\ AskedInVain(x).pc = "score" /\ AskedInVain(x).key = x.key
          /\ AskedInVain(x).todo = x.todo /\ AskedInVain(x).left = x.left
          /\ AskedInVain(x).attempt > x.attempt
      BY <1>1, <2>1 DEF AskedInVain, ExecType, MaxJudgeAttempts
    <3> QED BY <1>1, <2>1, <2>3, <3>1 DEF Further
  <2> QED BY <1>6, <2>2, <2>3 DEF JudgeFails
<1>7. CASE EndCase(e)
  <2>1. x.pc = "score" /\ exec' = [exec EXCEPT ![e] = Verdict(x)]
    BY <1>7 DEF EndCase, At
  <2>2. Verdict(x).pc = "next" /\ Verdict(x).key = x.key /\ Verdict(x).todo = x.todo
    BY <1>1 DEF Verdict, ExecType
  <2> QED BY <1>1, <2>1, <2>2 DEF Further
<1>8. CASE Commit(e)
  <2>1. PICK r : exec' = [exec EXCEPT ![e].pc = "refresh", ![e].gate = RunOf(x, r).gate]
    BY <1>8 DEF Commit
  <2> DEFINE y == [x EXCEPT !.pc = "refresh", !.gate = RunOf(x, r).gate]
  <2>2. exec' = [exec EXCEPT ![e] = y] /\ x.pc = "next"
    BY <1>1, <1>8, <2>1 DEF Commit, At
  <2>3. y.pc = "refresh" /\ y.key = x.key
    BY <1>1 DEF ExecType
  <2> HIDE DEF y
  <2> QED BY <1>1, <2>2, <2>3 DEF Further
<1>9. ~Refresh(e) /\ ~RefreshFindsNothing(e)
  BY <1>2 DEF Refresh, RefreshFindsNothing
<1> QED BY <1>3, <1>4, <1>5, <1>6, <1>7, <1>8, <1>9 DEF Evaluate

(***************************************************************************)
(* What is not a step of an execution leaves it alone, ends it, or makes   *)
(* one of its scorers raise.                                               *)
(***************************************************************************)
LEMMA OthersLeaveAlone ==
  ASSUME IInv, [Next]_vars, NEW e \in Executors, ~Evaluate(e),
         exec[e].pc \in Active, exec'[e].pc \in Active
  PROVE  \/ exec'[e] = exec[e]
         \/ exec'[e].key = exec[e].key /\ Further(exec[e], exec'[e])
<1>1. exec \in [Executors -> ExecType] /\ exec[e] \in ExecType
  BY DEF IInv, TypeOK
<1>2. ASSUME NEW f \in Executors, NEW y, exec' = [exec EXCEPT ![f] = y],
             y \in {Free, Down, Over} \/ exec[f].pc \in {"idle", "down"} \/ f # e
      PROVE  exec'[e] = exec[e]
  BY <1>1, <1>2, RestingFacts DEF Active, InTransaction
<1>3. ASSUME NEW f \in Executors, NEW place, NEW code, Finish(f, place, code)
      PROVE  exec'[e] = exec[e]
  BY <1>2, <1>3 DEF Finish
<1>4. ASSUME NEW f \in Executors, f # e, Evaluate(f)
      PROVE  exec'[e] = exec[e]
  BY <1>1, <1>3, <1>4 DEF Evaluate, Load, NextCase, Score, JudgeFails, EndCase, Commit,
                          Refresh, RefreshFindsNothing
<1>5. ASSUME NEW f \in Executors, EvaluateFails(f)
      PROVE  \/ exec'[e] = exec[e]
             \/ exec'[e].key = exec[e].key /\ Further(exec[e], exec'[e])
  <2>1. CASE EmbeddingFails(f) /\ f # e
    BY <1>2, <2>1 DEF EmbeddingFails
  <2>2. CASE EmbeddingFails(e)
    <3>1. /\ exec' = [exec EXCEPT ![e] = ScorerRaised(exec[e])]
          /\ exec[e].pc = "score" /\ exec[e].left # << >>
      BY <2>2 DEF EmbeddingFails, At
    <3> QED BY <1>1, <3>1, ScorerDone
  <2>3. CASE StatementFails(f) \/ TimesOut(f)
    BY <1>3, <2>3 DEF StatementFails, TimesOut
  <2>4. CASE Crash(f)
    BY <1>2, <2>4 DEF Crash
  <2> QED BY <1>5, <2>1, <2>2, <2>3, <2>4 DEF EvaluateFails
<1>6. ASSUME NEW w \in Workers, Take(w) \/ Stop(w) \/ Start(w)
      PROVE  exec'[e] = exec[e]
  BY <1>2, <1>6 DEF Take, Stop, Start, At, Executors
<1>7. ASSUME NEW r \in Runners, Invoke(r)
      PROVE  exec'[e] = exec[e]
  BY <1>2, <1>7 DEF Invoke, At, Executors
<1> QED BY <1>4, <1>5, <1>6, <1>7
        DEF Next, vars, CreateCase, Trigger, TriggerFails, Abandon, Reset

(***************************************************************************)
(* For every suite, each step of an execution takes it nearer to its end,  *)
(* and nothing takes it back: what RunsEnd adds is only that the process   *)
(* goes on.                                                                *)
(***************************************************************************)
THEOREM Run_Advances == Spec => RunAdvances
<1>1. IInv /\ [Next]_vars =>
        [\A e \in Executors : exec[e].pc \in Active /\ exec'[e].pc \in Active =>
            \/ exec'[e] = exec[e] /\ ~Evaluate(e)
            \/ exec'[e].key = exec[e].key /\ Further(exec[e], exec'[e])]_vars
  BY EvaluateAdvances, OthersLeaveAlone
<1> QED BY <1>1, EvalInvariance, PTL DEF Spec, RunAdvances

-------------------------------------------------------------------------------
(* No job is lost but by a fault *)

(***************************************************************************)
(* A step of process e can strand only jobs that RQ gets as started, and   *)
(* the one that e has in hand, here said to be in S.                       *)
(***************************************************************************)
LEMMA StrandedFrame ==
  ASSUME IInv, NEW e \in Executors, NEW y, exec' = [exec EXCEPT ![e] = y], NEW S,
         \A j \in Jobs : registry'[j] = "started" =>
             \/ registry[j] = "started"
             \/ e \in Workers /\ y.pc \in Active /\ y.key = j,
         e \in Workers /\ exec[e].pc \in Active =>
             \/ y.pc \in Active /\ y.key = exec[e].key
             \/ registry'[exec[e].key] # "started"
             \/ exec[e].key \in S
  PROVE  Stranded' \subseteq Stranded \cup S
<1> SUFFICES ASSUME NEW j \in Stranded', j \notin S PROVE j \in Stranded
  OBVIOUS
<1>1. /\ exec'[e] = y /\ \A f \in Executors : f # e => exec'[f] = exec[f]
      /\ Workers \subseteq Executors
  BY DEF IInv, TypeOK, Executors
<1>2. /\ j \in Jobs /\ registry'[j] = "started"
      /\ \A w \in Workers : exec'[w].pc \in Active => exec'[w].key # j
  BY DEF Stranded
<1>3. registry[j] = "started"
  BY <1>1, <1>2
<1>4. ASSUME NEW w \in Workers, exec[w].pc \in Active, exec[w].key = j PROVE FALSE
  <2>1. CASE w = e
    BY <1>1, <1>2, <1>4, <2>1
  <2>2. CASE w # e
    BY <1>1, <1>2, <1>4, <2>2
  <2> QED BY <2>1, <2>2
<1> QED BY <1>2, <1>3, <1>4 DEF Stranded

(***************************************************************************)
(* A process whose execution is over strands nothing: RQ files its job.    *)
(***************************************************************************)
LEMMA FinishStrandsNothing ==
  ASSUME IInv, NEW e \in Executors, exec[e].pc \in Active,
         NEW place \in {"finished", "failed"}, NEW code, Finish(e, place, code)
  PROVE  Stranded' \subseteq Stranded
<1>1. PICK y \in {Free, Over} : exec' = [exec EXCEPT ![e] = y]
  BY DEF Finish
<1>2. /\ e \in Workers => registry' = [registry EXCEPT ![exec[e].key] = place]
      /\ e \notin Workers => UNCHANGED registry
  BY DEF Finish, Ended, queueVars
<1>3. registry \in [Jobs -> Places] /\ (e \in Workers => exec[e].key \in Jobs)
  BY KeyFacts DEF IInv, TypeOK, QueueTypeOK
<1>4. \A j \in Jobs : registry'[j] = "started" => registry[j] = "started"
  BY <1>2, <1>3
<1>5. e \in Workers => registry'[exec[e].key] # "started"
  BY <1>2, <1>3
<1>6. Stranded' \subseteq Stranded \cup {}
  BY <1>1, <1>4, <1>5, StrandedFrame
<1> QED BY <1>6

(***************************************************************************)
(* Only a fault strands a job, the one in the hands of the process it      *)
(* hits.                                                                   *)
(***************************************************************************)
LEMMA NextStranded ==
  ASSUME IInv, [Next]_vars
  PROVE  \/ Stranded' \subseteq Stranded /\ faults' \in {faults, faults + 1}
         \/ faults' = faults + 1 /\ \E x : Stranded' \subseteq Stranded \cup {x}
<1>1. /\ exec \in [Executors -> ExecType] /\ registry \in [Jobs -> Places]
      /\ queue \in Seq(Jobs)
  BY DEF IInv, TypeOK, QueueTypeOK
<1>2. ASSUME NEW e \in Executors, NEW y, exec' = [exec EXCEPT ![e] = y], UNCHANGED queueVars,
             e \in Workers => \/ exec[e].pc \notin Active
                              \/ y.pc \in Active /\ y.key = exec[e].key
      PROVE  Stranded' \subseteq Stranded
  <2>1. Stranded' \subseteq Stranded \cup {}
    BY <1>2, StrandedFrame DEF queueVars
  <2> QED BY <2>1
<1>3. ASSUME NEW e \in Executors, Evaluate(e)
      PROVE  Stranded' \subseteq Stranded /\ faults' = faults
  <2>1. faults' = faults
    BY <1>3 DEF Evaluate, Load, NextCase, Score, JudgeFails, EndCase, Commit, Refresh,
                RefreshFindsNothing
  <2>2. exec[e].pc \in Active
    BY <1>3 DEF Evaluate, Load, NextCase, Score, JudgeFails, EndCase, Commit, Refresh,
                RefreshFindsNothing, At, Active, InTransaction
  <2>3. ASSUME NEW place \in {"finished", "failed"}, NEW code, Finish(e, place, code)
        PROVE  Stranded' \subseteq Stranded
    BY <2>2, <2>3, FinishStrandsNothing
  <2>4. CASE \/ Load(e) /\ cases = {}
             \/ Refresh(e) \/ RefreshFindsNothing(e)
    BY <2>3, <2>4 DEF Load, Refresh, RefreshFindsNothing
  <2>5. CASE \/ Load(e) /\ cases # {}
             \/ NextCase(e) \/ Score(e) \/ JudgeFails(e) \/ EndCase(e) \/ Commit(e)
    <3>1. UNCHANGED queueVars /\ exec' = [exec EXCEPT ![e] = exec'[e]]
      BY <1>1, <2>5 DEF Load, NextCase, Score, JudgeFails, EndCase, Commit
    <3>2. exec'[e].pc \in Active /\ exec'[e].key = exec[e].key
      <4> DEFINE x == exec[e]
      <4>1. x \in ExecType
        BY <1>1
      <4>2. ASSUME NEW y, exec' = [exec EXCEPT ![e] = y],
                   y.pc \in {"next", "score", "refresh"}, y.key = x.key
            PROVE  exec'[e].pc \in Active /\ exec'[e].key = x.key
        BY <1>1, <4>2 DEF Active, InTransaction
      <4>3. CASE Load(e) /\ cases # {}
        <5> DEFINE y == [x EXCEPT !.pc = "next", !.loaded = cases, !.todo = cases]
        <5>1. exec' = [exec EXCEPT ![e] = y] /\ y.pc = "next" /\ y.key = x.key
          BY <1>1, <4>1, <4>3 DEF Load, ExecType
        <5> HIDE DEF y
        <5> QED BY <4>2, <5>1
      <4>4. CASE NextCase(e)
        <5>1. PICK c \in x.todo : exec' = [exec EXCEPT ![e] = Begun(x, c)]
          BY <4>4 DEF NextCase
        <5>2. Begun(x, c).pc = "score" /\ Begun(x, c).key = x.key
          BY <4>1 DEF Begun, ExecType
        <5> QED BY <4>2, <5>1, <5>2
      <4>5. CASE Score(e)
        <5>1. PICK ok \in BOOLEAN : exec' = [exec EXCEPT ![e] = Scored(x, ok)]
          BY <4>5 DEF Score
        <5>2. x.pc = "score" /\ x.left # << >>
          BY <4>5 DEF Score, At
        <5>3. Scored(x, ok).pc = "score" /\ Scored(x, ok).key = x.key
          BY <4>1, <5>2, ScorerFacts
        <5> QED BY <4>2, <5>1, <5>3
      <4>6. CASE JudgeFails(e)
        <5>1. x.pc = "score" /\ x.left # << >>
          BY <4>6 DEF JudgeFails, At
        <5>2. AskedInVain(x).pc = x.pc /\ AskedInVain(x).key = x.key
          BY <4>1 DEF AskedInVain, ExecType
        <5>3. exec' = [exec EXCEPT ![e] = ScorerRaised(x)]
              \/ exec' = [exec EXCEPT ![e] = AskedInVain(x)]
          BY <4>6 DEF JudgeFails
        <5>4. ScorerRaised(x).pc = x.pc /\ ScorerRaised(x).key = x.key
          BY <4>1, <5>1, ScorerFacts
        <5> QED BY <4>2, <5>1, <5>2, <5>3, <5>4
      <4>7. CASE EndCase(e)
        <5>1. Verdict(x).pc = "next" /\ Verdict(x).key = x.key
          BY <4>1 DEF Verdict, ExecType
        <5> QED BY <4>2, <4>7, <5>1 DEF EndCase
      <4>8. CASE Commit(e)
        <5>1. PICK r : exec' = [exec EXCEPT ![e].pc = "refresh", ![e].gate = RunOf(x, r).gate]
          BY <4>8 DEF Commit
        <5> DEFINE y == [x EXCEPT !.pc = "refresh", !.gate = RunOf(x, r).gate]
        <5>2. exec' = [exec EXCEPT ![e] = y] /\ y.pc = "refresh" /\ y.key = x.key
          BY <1>1, <4>1, <5>1 DEF ExecType
        <5> HIDE DEF y
        <5> QED BY <4>2, <5>2
      <4> QED BY <2>5, <4>3, <4>4, <4>5, <4>6, <4>7, <4>8
    <3> DEFINE y == exec'[e]
    <3>3. exec' = [exec EXCEPT ![e] = y] /\ y.key = exec[e].key /\ y.pc \in Active
      BY <3>1, <3>2
    <3> HIDE DEF y
    <3> QED BY <1>2, <2>1, <3>1, <3>3
  <2> QED BY <1>3, <2>1, <2>4, <2>5 DEF Evaluate
<1>4. ASSUME NEW e \in Executors, EvaluateFails(e)
      PROVE  faults' = faults + 1 /\ \E x : Stranded' \subseteq Stranded \cup {x}
  <2>1. faults' = faults + 1
    BY <1>4 DEF EvaluateFails, EmbeddingFails, StatementFails, TimesOut, Crash, Fault
  <2>2. CASE EmbeddingFails(e)
    <3>1. /\ exec[e].pc = "score" /\ exec[e].left # << >> /\ UNCHANGED queueVars
          /\ exec' = [exec EXCEPT ![e] = ScorerRaised(exec[e])]
      BY <2>2 DEF EmbeddingFails, At
    <3>2. ScorerRaised(exec[e]).pc \in Active /\ ScorerRaised(exec[e]).key = exec[e].key
      BY <1>1, <3>1, ScorerFacts DEF Active, InTransaction
    <3> QED BY <1>2, <2>1, <3>1, <3>2
  <2>3. CASE StatementFails(e) \/ TimesOut(e)
    <3>1. exec[e].pc \in Active /\ Finish(e, "failed", "1")
      BY <2>3 DEF StatementFails, TimesOut, At, Active, InTransaction
    <3>2. Stranded' \subseteq Stranded
      BY <3>1, FinishStrandsNothing
    <3> QED BY <2>1, <3>2
  <2>4. CASE Crash(e)
    <3> DEFINE y == IF e \in Runners THEN Over ELSE Down
               k == exec[e].key
    <3>1. exec' = [exec EXCEPT ![e] = y] /\ UNCHANGED queueVars
      BY <2>4 DEF Crash
    <3>2. exec[e].key \in {k}
      OBVIOUS
    <3> HIDE DEF y, k
    <3>3. Stranded' \subseteq Stranded \cup {k}
      BY <3>1, <3>2, StrandedFrame DEF queueVars
    <3> QED BY <2>1, <3>3
  <2> QED BY <1>4, <2>2, <2>3, <2>4 DEF EvaluateFails
<1>5. ASSUME NEW w \in Workers, Take(w) \/ Stop(w) \/ Start(w)
      PROVE  Stranded' \subseteq Stranded /\ faults' = faults
  <2>1. w \in Executors /\ faults' = faults /\ exec[w].pc \notin Active
    BY <1>5 DEF Take, Stop, Start, At, Executors, Active, InTransaction
  <2>2. CASE Take(w)
    <3> DEFINE h == Head(queue)
               y == [Free EXCEPT !.pc = "load", !.key = h]
    <3>1. /\ exec' = [exec EXCEPT ![w] = y] /\ queue # << >>
          /\ registry' = [registry EXCEPT ![h] = "started"]
      BY <2>2 DEF Take, Dequeue
    <3>2. y.pc \in Active /\ y.key = h
      BY DEF Free, Active
    <3> HIDE DEF h, y
    <3>3. \A j \in Jobs : registry'[j] = "started" => registry[j] = "started" \/ y.key = j
      BY <1>1, <3>1, <3>2
    <3>4. Stranded' \subseteq Stranded \cup {}
      BY <2>1, <3>1, <3>2, <3>3, StrandedFrame
    <3> QED BY <2>1, <3>4
  <2>3. CASE Stop(w) \/ Start(w)
    BY <1>2, <2>1, <2>3 DEF Stop, Start
  <2> QED BY <1>5, <2>2, <2>3
<1>6. ASSUME NEW r \in Runners, Invoke(r)
      PROVE  Stranded' \subseteq Stranded /\ faults' = faults
  <2>1. r \in Executors /\ r \notin Workers
    BY RunnersAssumption DEF Executors
  <2> QED BY <1>2, <1>6, <2>1 DEF Invoke
<1>7. ASSUME UNCHANGED exec,
             \A j \in Jobs : registry'[j] = "started" => registry[j] = "started"
      PROVE  Stranded' \subseteq Stranded
  BY <1>7 DEF Stranded
<1>8. ASSUME NEW j \in Jobs, Trigger(j) \/ TriggerFails(j)
      PROVE  Stranded' \subseteq Stranded /\ faults' \in {faults, faults + 1}
  <2>1. registry' = [registry EXCEPT ![j] = "queued"] \/ UNCHANGED registry
    BY <1>8 DEF Trigger, TriggerFails, Enqueue, queueVars
  <2>2. UNCHANGED exec /\ faults' \in {faults, faults + 1}
    BY <1>8 DEF Trigger, TriggerFails, Fault
  <2> QED BY <1>1, <1>7, <2>1, <2>2
<1>9. ASSUME NEW j \in Jobs, Abandon(j)
      PROVE  Stranded' \subseteq Stranded /\ faults' = faults
  BY <1>1, <1>7, <1>9 DEF Abandon, AbandonJob
<1>10. ASSUME UNCHANGED <<queueVars, exec, faults>>
       PROVE  Stranded' \subseteq Stranded /\ faults' = faults
  BY <1>7, <1>10 DEF queueVars
<1> QED BY <1>3, <1>4, <1>5, <1>6, <1>8, <1>9, <1>10
        DEF Next, CreateCase, Reset, vars, queueVars

(***************************************************************************)
(* What is queued for RQ is in the queue and what was answered is known to *)
(* it.                                                                     *)
(***************************************************************************)
InQueue == \A j \in Jobs : /\ reply[j] = "202" => registry[j] # "none"
                           /\ registry[j] = "queued" => \E i \in DOMAIN queue : queue[i] = j

LEMMA NextInQueue ==
  ASSUME IInv, InQueue, [Next]_vars
  PROVE  InQueue'
<1>1. /\ registry \in [Jobs -> Places] /\ queue \in Seq(Jobs)
      /\ reply \in [Jobs -> {"none", "202", "503", "lost"}]
  BY DEF IInv, TypeOK, QueueTypeOK
<1>2. ASSUME UNCHANGED <<queue, reply>>,
             \A j \in Jobs : registry'[j] = registry[j] \/ registry'[j] \notin {"none", "queued"}
      PROVE  InQueue'
  BY <1>2 DEF InQueue
<1>3. ASSUME NEW j \in Jobs, NEW place \in {"started", "finished", "failed"},
             registry' = [registry EXCEPT ![j] = place], UNCHANGED <<queue, reply>>
      PROVE  InQueue'
  BY <1>1, <1>2, <1>3
<1>4. ASSUME NEW e \in Executors, Evaluate(e) \/ EvaluateFails(e)
      PROVE  InQueue'
  <2>1. UNCHANGED reply /\ exec[e].pc \in Active
    BY <1>4 DEF Evaluate, Load, NextCase, Score, JudgeFails, EndCase, Commit, Refresh,
                RefreshFindsNothing, EvaluateFails, EmbeddingFails, StatementFails, TimesOut,
                Crash, At, Active, InTransaction
  <2>2. ASSUME NEW place \in {"finished", "failed"}, NEW code, Finish(e, place, code)
        PROVE  InQueue'
    <3>1. CASE e \in Workers
      BY <1>3, <2>1, <2>2, <3>1, KeyFacts DEF Finish, Ended
    <3>2. CASE e \notin Workers
      BY <1>2, <2>1, <2>2, <3>2 DEF Finish, queueVars
    <3> QED BY <3>1, <3>2
  <2>3. \/ UNCHANGED queueVars
        \/ \E place \in {"finished", "failed"}, code \in {"0", "1"} : Finish(e, place, code)
    BY <1>4 DEF Evaluate, Load, NextCase, Score, JudgeFails, EndCase, Commit, Refresh,
                RefreshFindsNothing, EvaluateFails, EmbeddingFails, StatementFails, TimesOut, Crash
  <2> QED BY <1>2, <2>1, <2>2, <2>3 DEF queueVars
<1>5. ASSUME NEW w \in Workers, Take(w)
      PROVE  InQueue'
  <2>1. /\ queue # << >> /\ queue' = Tail(queue) /\ UNCHANGED reply
        /\ registry' = [registry EXCEPT ![Head(queue)] = "started"]
    BY <1>5 DEF Take, Dequeue
  <2>2. /\ Head(queue) \in Jobs
        /\ \A i \in DOMAIN queue : \/ i = 1
                                   \/ /\ i - 1 \in DOMAIN Tail(queue)
                                      /\ Tail(queue)[i - 1] = queue[i]
    BY <1>1, <2>1
  <2>3. ASSUME NEW j \in Jobs, registry'[j] = "queued"
        PROVE  \E i \in DOMAIN queue' : queue'[i] = j
    <3>1. j # Head(queue) /\ registry[j] = "queued"
      BY <1>1, <2>1, <2>2, <2>3
    <3>2. PICK i \in DOMAIN queue : queue[i] = j
      BY <3>1 DEF InQueue
    <3>3. i # 1
      BY <1>1, <2>1, <3>1, <3>2
    <3> QED BY <2>1, <2>2, <3>2, <3>3
  <2>4. \A j \in Jobs : reply'[j] = "202" => registry'[j] # "none"
    BY <1>1, <2>1, <2>2 DEF InQueue
  <2> QED BY <2>3, <2>4 DEF InQueue
<1>6. ASSUME NEW j \in Jobs, Trigger(j) \/ TriggerFails(j)
      PROVE  InQueue'
  <2>1. /\ reply[j] = "none" /\ \A i \in Jobs : i # j => reply'[i] = reply[i]
        /\ reply'[j] = "202" => Enqueue(j)
        /\ Enqueue(j) \/ UNCHANGED queueVars
    BY <1>1, <1>6 DEF Trigger, TriggerFails
  <2>2. CASE Enqueue(j)
    <3>1. /\ queue' = Append(queue, j) /\ registry'[j] = "queued"
          /\ \A i \in Jobs : i # j => registry'[i] = registry[i]
      BY <1>1, <2>2 DEF Enqueue
    <3>2. /\ \A i \in DOMAIN queue : i \in DOMAIN queue' /\ queue'[i] = queue[i]
          /\ Len(queue) + 1 \in DOMAIN queue' /\ queue'[Len(queue) + 1] = j
      BY <1>1, <3>1, AppendFacts
    <3> QED BY <2>1, <3>1, <3>2 DEF InQueue
  <2>3. CASE UNCHANGED queueVars /\ reply'[j] # "202"
    BY <2>1, <2>3 DEF InQueue, queueVars
  <2> QED BY <2>1, <2>2, <2>3
<1>7. ASSUME NEW j \in Jobs, Abandon(j)
      PROVE  InQueue'
  BY <1>3, <1>7 DEF Abandon, AbandonJob
<1>8. ASSUME UNCHANGED <<queue, registry, reply>>
      PROVE  InQueue'
  BY <1>8 DEF InQueue
<1> QED BY <1>4, <1>5, <1>6, <1>7, <1>8
        DEF Next, Stop, Start, Invoke, CreateCase, Reset, vars, queueVars

(***************************************************************************)
(* For every number of requests and workers: an accepted request stays     *)
(* known, a queued one is found, and no more jobs are ever without a       *)
(* worker than faults have happened.                                       *)
(***************************************************************************)
THEOREM Jobs_Kept == Spec => []JobsKept
<1> DEFINE K == InQueue /\ IsFiniteSet(Stranded) /\ Cardinality(Stranded) <= faults
<1>1. Init => K
  <2> SUFFICES ASSUME Init PROVE K
    OBVIOUS
  <2>1. Stranded = {} /\ faults = 0 /\ InQueue
    BY DEF Init, QueueInit, Stranded, InQueue
  <2> QED BY <2>1, FS_EmptySet
<1>2. ASSUME IInv, K, [Next]_vars PROVE K'
  <2>1. faults \in Nat /\ Cardinality(Stranded) \in Nat
    BY <1>2, EvalFaultsAssumption, FS_CardinalityType DEF IInv, TypeOK
  <2>2. CASE Stranded' \subseteq Stranded /\ faults' \in {faults, faults + 1}
    <3>1. IsFiniteSet(Stranded') /\ Cardinality(Stranded') <= Cardinality(Stranded)
      BY <1>2, <2>2, FS_Subset
    <3>2. Cardinality(Stranded') \in Nat
      BY <3>1, FS_CardinalityType
    <3>3. Cardinality(Stranded') <= faults'
      BY <1>2, <2>1, <2>2, <3>1, <3>2
    <3> QED BY <1>2, <3>1, <3>3, NextInQueue
  <2>3. ASSUME NEW x, faults' = faults + 1, Stranded' \subseteq Stranded \cup {x}
        PROVE  K'
    <3>1. /\ IsFiniteSet(Stranded \cup {x})
          /\ Cardinality(Stranded \cup {x}) =
               IF x \in Stranded THEN Cardinality(Stranded) ELSE Cardinality(Stranded) + 1
      BY <1>2, FS_AddElement
    <3>2. /\ IsFiniteSet(Stranded')
          /\ Cardinality(Stranded') <= Cardinality(Stranded \cup {x})
      BY <2>3, <3>1, FS_Subset
    <3>3. Cardinality(Stranded') \in Nat /\ Cardinality(Stranded \cup {x}) \in Nat
      BY <3>1, <3>2, FS_CardinalityType
    <3>4. Cardinality(Stranded') <= faults'
      BY <1>2, <2>1, <2>3, <3>1, <3>2, <3>3
    <3> QED BY <1>2, <3>2, <3>4, NextInQueue
  <2> HIDE DEF K
  <2> QED BY <1>2, <2>2, <2>3, NextStranded
<1>3. K => JobsKept
  BY DEF JobsKept, InQueue
<1> QED BY <1>1, <1>2, <1>3, EvalInvariance, PTL DEF Spec

-------------------------------------------------------------------------------
(* The gate as MergeGate describes it *)

(***************************************************************************)
(* A command line that has not exited has no exit code.                    *)
(***************************************************************************)
Unanswered == \A r \in Runners : exec[r].pc # "over" => exit[r] = "none"

(***************************************************************************)
(* The exit code is set by the step that exits, and no command line comes  *)
(* back from there.                                                        *)
(***************************************************************************)
LEMMA NextUnanswered ==
  ASSUME IInv, Unanswered, [Next]_vars
  PROVE  Unanswered'
<1>1. /\ exec \in [Executors -> ExecType] /\ exit \in [Runners -> {"none", "0", "1"}]
      /\ Workers \cap Runners = {} /\ Over.pc = "over"
  BY RunnersAssumption, RestingFacts DEF IInv, TypeOK, Over, Free
<1>2. ASSUME UNCHANGED <<exec, exit>> PROVE Unanswered'
  BY <1>2 DEF Unanswered
<1>3. ASSUME NEW e \in Executors, NEW y, exec[e].pc # "over", UNCHANGED exit,
             exec' = [exec EXCEPT ![e] = y]
      PROVE  Unanswered'
  BY <1>1, <1>3 DEF Unanswered, Executors
<1>4. ASSUME NEW e \in Executors, NEW y, e \in Runners => y = Over,
             \A r \in Runners : r # e => exit'[r] = exit[r],
             exec' = [exec EXCEPT ![e] = y]
      PROVE  Unanswered'
  BY <1>1, <1>4 DEF Unanswered, Executors
<1>5. ASSUME NEW e \in Executors, NEW place, NEW code, Finish(e, place, code) PROVE Unanswered'
  <2>1. \A r \in Runners : r # e => exit'[r] = exit[r]
    BY <1>1, <1>5 DEF Finish
  <2> QED BY <1>4, <1>5, <2>1 DEF Finish
<1>6. ASSUME NEW e \in Executors, Evaluate(e) PROVE Unanswered'
  <2>1. CASE Load(e)
    BY <1>3, <1>5, <2>1 DEF Load, At
  <2>2. CASE NextCase(e) \/ Score(e) \/ JudgeFails(e) \/ EndCase(e) \/ Commit(e)
    BY <1>3, <2>2 DEF NextCase, Score, JudgeFails, EndCase, Commit, At
  <2>3. CASE Refresh(e) \/ RefreshFindsNothing(e)
    BY <1>5, <2>3 DEF Refresh, RefreshFindsNothing
  <2> QED BY <1>6, <2>1, <2>2, <2>3 DEF Evaluate
<1>7. ASSUME NEW e \in Executors, EvaluateFails(e) PROVE Unanswered'
  <2>1. CASE EmbeddingFails(e)
    BY <1>3, <2>1 DEF EmbeddingFails, At
  <2>2. CASE StatementFails(e) \/ TimesOut(e)
    BY <1>5, <2>2 DEF StatementFails, TimesOut
  <2>3. CASE Crash(e)
    <3>1. \A r \in Runners : r # e => exit'[r] = exit[r]
      BY <1>1, <2>3 DEF Crash
    <3> QED BY <1>4, <2>3, <3>1 DEF Crash
  <2> QED BY <1>7, <2>1, <2>2, <2>3 DEF EvaluateFails
<1>8. ASSUME NEW w \in Workers, Take(w) \/ Stop(w) \/ Start(w) PROVE Unanswered'
  BY <1>3, <1>8 DEF Take, Stop, Start, At, Executors
<1>9. ASSUME NEW r \in Runners, Invoke(r) PROVE Unanswered'
  BY <1>3, <1>9 DEF Invoke, At, Executors
<1> QED
  BY <1>2, <1>6, <1>7, <1>8, <1>9 DEF Next, vars, CreateCase, Trigger, TriggerFails, Abandon, Reset

(***************************************************************************)
(* The report of a run, as MergeGate has it.                               *)
(***************************************************************************)
ReportOf(run) == [by |-> run.by, cases |-> run.cases, passed |-> run.passed, gate |-> run.gate]

(***************************************************************************)
(* The reports are the runs one by one: one is added with a run, and they  *)
(* go with the runs.                                                       *)
(***************************************************************************)
LEMMA ReportFacts ==
  ASSUME IInv
  PROVE  /\ DOMAIN Reports = DOMAIN runs
         /\ \A i \in DOMAIN runs : Reports[i] = ReportOf(runs[i])
         /\ UNCHANGED runs => UNCHANGED Reports
         /\ runs' = << >> => Reports' = << >>
         /\ \A row \in RunRow : runs' = Append(runs, row) => Reports' = Append(Reports, ReportOf(row))
<1>1. runs \in Seq(RunRow)
  BY DEF IInv, TypeOK
<1>2. ASSUME NEW row \in RunRow, runs' = Append(runs, row)
      PROVE  Reports' = Append(Reports, ReportOf(row))
  <2>1. /\ DOMAIN runs = 1..Len(runs) /\ Len(runs) \in Nat
        /\ DOMAIN runs' = 1..(Len(runs) + 1)
        /\ runs'[Len(runs) + 1] = row
        /\ \A i \in 1..Len(runs) : runs'[i] = runs[i]
    BY <1>1, <1>2
  <2>2. Reports = [i \in 1..Len(runs) |-> ReportOf(runs[i])]
    BY <2>1 DEF Reports, ReportOf
  <2>3. Reports' = [i \in 1..(Len(runs) + 1) |-> ReportOf(runs'[i])]
    BY <2>1 DEF Reports, ReportOf
  <2>4. Reports \in Seq({ReportOf(run) : run \in RunRow}) /\ Len(Reports) = Len(runs)
    BY <1>1, <2>1, <2>2
  <2> HIDE DEF Reports
  <2> QED BY <2>1, <2>2, <2>3, <2>4
<1>3. runs' = << >> => Reports' = << >>
  BY DEF Reports
<1> QED BY <1>2, <1>3 DEF Reports, ReportOf

(***************************************************************************)
(* The COMMIT of a run enters it in the record, with a deserved verdict.   *)
(***************************************************************************)
LEMMA CommitEnters ==
  ASSUME IInv, NEW e \in Executors, exec[e].pc = "next", NEW r \in Rates(exec[e]),
         runs' = Append(runs, RunOf(exec[e], r)), UNCHANGED cases
  PROVE  exec[e].key \in Keys /\ Gate!Enter(exec[e].key)
<1> DEFINE x == exec[e]
           row == RunOf(x, r)
           C == x.loaded
           P == x.passed
           t == gate_threshold[x.key]
<1>1. /\ x.key \in Keys /\ x.pc \in Active /\ t \in 0..Scale
      /\ C # {} /\ P \subseteq C /\ C \subseteq Cases
  BY KeyFacts, ThresholdAssumption
     DEF IInv, TypeOK, ExecType, Progress, Active, InTransaction, Keys
<1>2. /\ row \in RunRow
      /\ row.by = x.key /\ row.cases = C /\ row.passed = P
      /\ row.gate = GateResult(r, t)
  <2>1. runs \in Seq(RunRow) /\ runs' \in Seq(RunRow)
    BY <1>1, RunsGrow DEF IInv, TypeOK
  <2>2. runs'[Len(runs) + 1] = row /\ Len(runs) + 1 \in DOMAIN runs'
    BY <2>1
  <2> QED BY <2>1, <2>2 DEF RunOf
<1>3. row.gate \in Deserved(Cardinality(P), Cardinality(C), t)
  BY <1>1, <1>2, SuiteSizes, Gate_Deserved DEF Rates
<1>4. ~Gate!OnRecord(x.key, {"pass", "fail"})
  <2>1. \A i \in DOMAIN runs : runs[i].by # x.key
    BY <1>1 DEF IInv, Stored
  <2> QED BY <2>1, ReportFacts DEF Gate!OnRecord, ReportOf
<1>5. Reports' = Append(Reports, ReportOf(row)) /\ Reports' # Reports
  BY <1>2, ReportFacts
<1> HIDE DEF row
<1>6. ReportOf(row) = [by |-> x.key, cases |-> C, passed |-> P, gate |-> row.gate]
  BY <1>2 DEF ReportOf
<1>7. C \in (SUBSET Cases) \ {{}} /\ P \in SUBSET C
  BY <1>1
<1>8. Gate!Deserved(Gate!Cardinality(P), Gate!Cardinality(C), t)
      = Deserved(Cardinality(P), Cardinality(C), t)
  <2>1. \A S : Gate!Cardinality(S) = Cardinality(S)
    BY DEF Gate!Cardinality, Cardinality
  <2> QED BY <2>1 DEF Gate!Deserved, Deserved, Gate!NearlyMeets, NearlyMeets,
                      Gate!Meets, Meets, Gate!Scale, Scale
<1> HIDE DEF C, P, t
<1>9. \E all \in (SUBSET Cases) \ {{}} : \E passed \in SUBSET all :
         \E gate \in Gate!Deserved(Gate!Cardinality(passed), Gate!Cardinality(all), t) :
            Reports' = Append(Reports, [by |-> x.key, cases |-> all, passed |-> passed,
                                        gate |-> gate])
  BY <1>3, <1>5, <1>6, <1>7, <1>8
<1> QED BY <1>1, <1>4, <1>5, <1>9 DEF Gate!Enter, t

(***************************************************************************)
(* An execution that ends sets the exit code of its command line, for the  *)
(* first time, or shows nothing.                                           *)
(***************************************************************************)
LEMMA FinishAnswers ==
  ASSUME IInv, Unanswered, NEW e \in Executors, exec[e].pc \in Active,
         NEW code \in {"0", "1"},
         exit' = IF e \in Runners THEN [exit EXCEPT ![e] = code] ELSE exit
  PROVE  \/ e \in Runners /\ Gate!Answer(e, code)
         \/ UNCHANGED exit
BY DEF Unanswered, Gate!Answer, Active, InTransaction

(***************************************************************************)
(* The steps of an execution are steps of the gate, or do not show.        *)
(***************************************************************************)
LEMMA EvaluateShows ==
  ASSUME IInv, Unanswered, NEW e \in Executors, Evaluate(e) \/ EvaluateFails(e)
  PROVE  [Gate!Next]_<<Reports, exit>>
<1> DEFINE Shown == [Gate!Next]_<<Reports, exit>>
<1>1. ASSUME UNCHANGED <<runs, exit>> PROVE Shown
  BY <1>1, ReportFacts
<1>2. ASSUME exec[e].pc \in Active, UNCHANGED runs,
             exit' = IF e \in Runners THEN [exit EXCEPT ![e] = "1"] ELSE exit
      PROVE  Shown
  BY <1>2, FinishAnswers, ReportFacts DEF Gate!Next
<1>3. ASSUME exec[e].pc = "next", NEW r \in Rates(exec[e]), UNCHANGED cases,
             runs' = Append(runs, RunOf(exec[e], r)),
             \/ UNCHANGED exit
             \/ exit' = IF e \in Runners THEN [exit EXCEPT ![e] = "1"] ELSE exit
      PROVE  Shown
  <2>1. exec[e].key \in Keys /\ Gate!Enter(exec[e].key)
    BY <1>3, CommitEnters
  <2>2. exec[e].pc \in Active /\ (e \in Runners => exec[e].key = e)
    BY <1>3, KeyFacts DEF Active, InTransaction
  <2>3. CASE UNCHANGED exit
    BY <2>1, <2>3 DEF Gate!Next
  <2>4. CASE exit' = IF e \in Runners THEN [exit EXCEPT ![e] = "1"] ELSE exit
    <3>1. (e \in Runners /\ Gate!Answer(e, "1")) \/ UNCHANGED exit
      BY <2>2, <2>4, FinishAnswers
    <3> QED BY <2>1, <2>2, <2>3, <3>1 DEF Gate!Next
  <2> QED BY <1>3, <2>3, <2>4
<1>4. CASE Refresh(e)
  <2>1. /\ exec[e].pc = "refresh" /\ exec[e].pc \in Active /\ UNCHANGED runs
        /\ \E i \in DOMAIN runs : runs[i].by = exec[e].key
    BY <1>4 DEF Refresh, At, Active
  <2>2. CASE exec[e].gate = "pass"
    <3>1. (e \in Runners /\ Gate!Answer(e, "0")) \/ UNCHANGED exit
      BY <1>4, <2>1, <2>2, FinishAnswers DEF Refresh, Finish
    <3>2. e \in Runners => Gate!OnRecord(e, {"pass"})
      <4> SUFFICES ASSUME e \in Runners PROVE Gate!OnRecord(e, {"pass"})
        OBVIOUS
      <4>1. PICK i \in DOMAIN runs : runs[i].by = e
        BY <2>1, KeyFacts
      <4>2. runs[i].gate = "pass"
        BY <2>1, <2>2, <4>1, KeyFacts DEF IInv, Stored
      <4> QED BY <4>1, <4>2, ReportFacts DEF Gate!OnRecord, ReportOf
    <3> QED BY <2>1, <3>1, <3>2, ReportFacts DEF Gate!Next
  <2>3. CASE exec[e].gate # "pass"
    BY <1>2, <1>4, <2>1, <2>3 DEF Refresh, Finish
  <2> QED BY <2>2, <2>3
<1>5. CASE Load(e)
  BY <1>1, <1>2, <1>5 DEF Load, Finish, At, Active
<1>6. CASE NextCase(e) \/ Score(e) \/ JudgeFails(e) \/ EndCase(e) \/ EmbeddingFails(e)
  BY <1>1, <1>6 DEF NextCase, Score, JudgeFails, EndCase, EmbeddingFails
<1>7. CASE Commit(e)
  BY <1>3, <1>7 DEF Commit, At
<1>8. CASE RefreshFindsNothing(e) \/ TimesOut(e) \/ Crash(e)
  BY <1>2, <1>8 DEF RefreshFindsNothing, TimesOut, Crash, Finish, At, Active
<1>9. CASE StatementFails(e)
  <2>1. /\ exec[e].pc \in Active /\ UNCHANGED cases
        /\ exit' = IF e \in Runners THEN [exit EXCEPT ![e] = "1"] ELSE exit
    BY <1>9 DEF StatementFails, Finish, At, Active, InTransaction
  <2> QED BY <1>2, <1>3, <1>9, <2>1 DEF StatementFails, At
<1> QED BY <1>4, <1>5, <1>6, <1>7, <1>8, <1>9 DEF Evaluate, EvaluateFails

(***************************************************************************)
(* Workers, runners, queue and failures together are the gate of           *)
(* MergeGate, whatever the suite and the thresholds.                       *)
(***************************************************************************)
THEOREM Refines_Gate == Spec => RefinesGate
<1>1. Init => Gate!Init /\ Unanswered
  BY DEF Init, Gate!Init, Unanswered, Reports
<1>2. IInv /\ Unanswered /\ [Next]_vars => [Gate!Next]_(Gate!gateVars)
  <2> SUFFICES ASSUME IInv, Unanswered, [Next]_vars
               PROVE  [Gate!Next]_<<Reports, exit>>
    BY DEF Gate!gateVars
  <2>1. CASE Reset
    BY <2>1, ReportFacts DEF Reset, Gate!Next
  <2>2. ASSUME NEW e \in Executors, Evaluate(e) \/ EvaluateFails(e)
        PROVE  [Gate!Next]_<<Reports, exit>>
    BY <2>2, EvaluateShows
  <2>3. CASE UNCHANGED <<runs, exit>>
    BY <2>3, ReportFacts
  <2> QED BY <2>1, <2>2, <2>3
          DEF Next, vars, CreateCase, Trigger, TriggerFails, Abandon, Take, Stop, Start, Invoke
<1>3. IInv /\ Unanswered /\ [Next]_vars => Unanswered'
  BY NextUnanswered
<1> QED BY <1>1, <1>2, <1>3, EvalInvariance, PTL DEF Spec, RefinesGate, Gate!Spec
================================================================================
