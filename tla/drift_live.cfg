SPECIFICATION FairSpec
CONSTANTS
    Apps = {a1}
    Detectors = {w1, w2}
    Daemons = {w1}
    Requests = {r1}
    NoApp = NoApp
    HookConfigured = TRUE
    Scores <- MCOneScore
    MaxFaults = 1
    MaxPatches = 1
INVARIANTS DeliveryHonest LossBoundedByFaults DedupPerDetector
PROPERTIES RefinesLedger SweepEnds PersistentDriftCovered
