SPECIFICATION FairSpec
CONSTANTS
    c1 = c1
    c2 = c2
    c3 = c3
    j1 = j1
    ci = ci
    Jobs = {j1}
    Workers = {w1}
    Runners = {ci}
    Cases = {c1, c2, c3}
    eval_methods <- MCMethods
    gate_threshold <- MCThresholds
    NoJob = NoJob
    NoCase = NoCase
    MaxFaults = 1
INVARIANTS IInv RunsWhole VerdictsDeserved JobsKept
PROPERTIES RefinesGate CasesNeedAllMethods MergeNeedsEvidence RunsEnd ResultAppears
