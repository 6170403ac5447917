SPECIFICATION SummarySpec
CONSTANTS
    Keys = {k1}
    Aggregators = {w1, seed}
    Daemons = {w1}
    HourLength = 2
    DayLength = 4
    SeedSpan = 4
    NoRow = NoRow
    MaxTime = 4
    MaxLogs = 2
    MaxFaults = 0
    Spans = {2}
    Untimed = {2}
INVARIANTS ReadSoFar EachWindowOnce PercentilesMatchTotals
