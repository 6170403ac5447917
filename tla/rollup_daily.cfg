SPECIFICATION PunctualSpec
CONSTANTS
    Keys = {k1}
    Aggregators = {w1}
    Daemons = {w1}
    HourLength = 2
    DayLength = 4
    SeedSpan = 4
    NoRow = NoRow
    MaxTime = 5
    MaxLogs = 1
    MaxFaults = 0
PROPERTIES DailyComplete
