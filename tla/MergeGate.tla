------------------------------ MODULE MergeGate -------------------------------
(***************************************************************************)
(* What the eval gate promises to CI, without saying how: a record of      *)
(* evaluations, each entered whole and at one instant with a verdict that  *)
(* its exact ratio deserves, and an answer to each CI job that is given    *)
(* once and lets a change through only on a passing record of its own that *)
(* is there at that instant.                                               *)
(***************************************************************************)
EXTENDS Integers, Sequences, FiniteSets, EvalGate

CONSTANTS
    Requesters,    \* who asks for evaluations
    Runners,       \* those among them that are CI jobs
    Cases,         \* test cases
    gate_threshold \* gate_threshold[k]: that of k, in ten-thousandths

VARIABLES
    record,        \* the evaluations on record
    answer         \* answer[r]: "none", "0" (merge) or "1" (blocked)

gateVars == <<record, answer>>

OnRecord(k, gates) == \E i \in DOMAIN record : record[i].by = k /\ record[i].gate \in gates

Enter(k) ==
    /\ record' # record   \* implied, but TLC tries no evaluation in a step that enters none
    /\ ~OnRecord(k, {"pass", "fail"})
    /\ \E all \in (SUBSET Cases) \ {{}} : \E passed \in SUBSET all :
          \E gate \in Deserved(Cardinality(passed), Cardinality(all), gate_threshold[k]) :
             record' = Append(record, [by |-> k, cases |-> all, passed |-> passed, gate |-> gate])

Answer(r, code) == answer[r] = "none" /\ answer' = [answer EXCEPT ![r] = code]

Init == record = << >> /\ answer = [r \in Runners |-> "none"]

Next ==
    \/ \E k \in Requesters : Enter(k) /\ UNCHANGED answer
    \/ \E r \in Runners : (Enter(r) \/ UNCHANGED record) /\ Answer(r, "1")
    \/ \E r \in Runners : OnRecord(r, {"pass"}) /\ UNCHANGED record /\ Answer(r, "0")
    \/ record' = << >> /\ UNCHANGED answer

Spec == Init /\ [][Next]_gateVars
===============================================================================
