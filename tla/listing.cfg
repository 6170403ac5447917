SPECIFICATION FairSpec
CONSTANTS
    Endpoints = {"logs", "metrics", "alerts", "cases", "runs"}
    Tags = {t1, t2}
    PageSize = 1
    AskedTimes = {1}
    Offsets = {0, 1}
    NoBound = NoBound
    MaxTime = 2
    MaxRows = 3
    MaxFaults = 1
INVARIANTS IInv LastPageMeansAllShown PageFull EmptyPageMeansEmptyList
PROPERTIES AllShown
