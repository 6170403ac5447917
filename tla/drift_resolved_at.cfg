SPECIFICATION Spec
CONSTANTS
    Apps = {a1}
    Detectors = {w1}
    Daemons = {w1}
    Requests = {r1, r2}
    NoApp = NoApp
    HookConfigured = FALSE
    Scores <- MCTwoScores
    MaxFaults = 0
    MaxPatches = 2
INVARIANTS ResolvedAtMatchesStatus
