SPECIFICATION Spec
CONSTANTS
    Apps = {a1, a2}
    Detectors = {w1}
    Daemons = {w1}
    Requests = {r1}
    NoApp = NoApp
    HookConfigured = FALSE
    Scores <- MCTwoScores
    MaxFaults = 1
    MaxPatches = 0
INVARIANTS OneBadAppNeverStopsTheSweep
