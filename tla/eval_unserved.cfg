SPECIFICATION FairSpec
CONSTANTS
    c1 = c1
    c2 = c2
    c3 = c3
    j1 = j1
    ci = ci
    Jobs = {j1}
    Workers = {}
    Runners = {}
    Cases = {c1}
    eval_methods <- MCOneMethod
    gate_threshold <- MCOneThreshold
    NoJob = NoJob
    NoCase = NoCase
    MaxFaults = 0
PROPERTIES ResultAppears
