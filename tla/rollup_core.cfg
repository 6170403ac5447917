SPECIFICATION PunctualSpec
CONSTANTS
    Keys = {k1}
    Aggregators = {w1}
    Daemons = {w1}
    HourLength = 3
    DayLength = 6
    SeedSpan = 6
    NoRow = NoRow
    MaxTime = 6
    MaxLogs = 2
    MaxFaults = 1
PROPERTIES FreshNumbers TickAlignsLevels CountedInTime HourlyComplete
