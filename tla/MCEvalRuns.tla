------------------------------ MODULE MCEvalRuns ------------------------------
(* Instances of EvalRuns for TLC. *)
EXTENDS EvalRuns, TLC

CONSTANTS c1, c2, c3, j1, ci

\* A case whose second scorer can raise when the first has passed, and two that pass
\* always.
MCMethods ==
    (c1 :> <<"embedding_similarity", "llm_judge">>)
    @@ (c2 :> <<"exact_match">>) @@ (c3 :> <<"exact_match">>)
MCOneMethod == (c1 :> <<"llm_judge">>)

\* Two of three is 0.6667 when rounded: less than the worker's threshold, and just that
\* of the command line, which the exact ratio misses.
MCThresholds == (j1 :> 6700) @@ (ci :> 6667)
MCOneThreshold == (j1 :> 8000)
================================================================================
