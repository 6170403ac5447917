------------------------------- MODULE EvalGate -------------------------------
(***************************************************************************)
(* The arithmetic of the eval gate (eval/engine.py:114-116): the pass rate *)
(* rounded to four digits, compared with the threshold.  Rates and         *)
(* thresholds are in ten-thousandths.                                      *)
(***************************************************************************)
EXTENDS Integers

Scale == 10000

\* Mutant: round(p / n, 2), a rate in whole percents.
Rounded_TwoDigits(p, n) == {100 * ((200 * p + n) \div (2 * n))}

\* round(p / n, 4): a nearest ten-thousandth.  Which of two at the same distance
\* depends on the binary fraction that stands for p / n.
Rounded(p, n) ==
    LET q == (p * Scale) \div n
    IN  {r \in {q, q + 1} : 2 * (p * Scale - r * n) <= n /\ 2 * (r * n - p * Scale) <= n}

GateResult(rate, threshold) == IF rate >= threshold THEN "pass" ELSE "fail"

\* What the gate is for: p of n is at least the threshold.
Meets(p, n, threshold) == p * Scale >= threshold * n

\* It misses the threshold by half a ten-thousandth at the most.
NearlyMeets(p, n, threshold) == 2 * (threshold * n - p * Scale) <= n

\* The verdicts that p of n deserves: one, but for a near miss, where rounding decides.
Deserved(p, n, threshold) ==
    {gate \in {"pass", "fail"} : IF gate = "pass" THEN NearlyMeets(p, n, threshold)
                                ELSE ~Meets(p, n, threshold)}
================================================================================
