SPECIFICATION FairSpec
CONSTANTS
    Jobs = {l1, l2, l3}
    NoJob = NoJob
    Workers = {w1, w2}
    MaxFaults = 2
INVARIANTS IInv AnsweredIsStored NoneForgotten
PROPERTIES RefinesLogLedger EventuallyEmbedded
