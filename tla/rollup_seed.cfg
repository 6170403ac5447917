SPECIFICATION FairSpec
CONSTANTS
    Keys = {k1}
    Aggregators = {w1, seed}
    Daemons = {w1}
    HourLength = 2
    DayLength = 4
    SeedSpan = 6
    NoRow = NoRow
    MaxTime = 3
    MaxLogs = 2
    MaxFaults = 0
INVARIANTS NeverStuck IInv RowsCountStoredLogs
PROPERTIES TicksEnd
