SPECIFICATION StorageSpec
CONSTANTS
    r1 = r1
    LastDay = 4
    PeriodOf <- MCPeriodOf
    MaxSamples = 3
    Retention = 2
    Readers = {r1}
    MaxStoreFaults = 1

    DayTicks = 3
    FineTicks = 1
    CoarseTicks = 2
    RawDays = 2
    FineDays = 3
    KeepDays = {1, 4}
    LastTick = 12
    MaxOdd = 1
    MaxLate = 1
    MaxTroubles = 1

    http = http
    ping = ping
    Metrics = {http, ping}
    MetricRank <- MCMetricRank
    CycleGaps = {5, 9}
    Spreads = {0, 1}
    Window = 2
    MinDuration = 6
    Every = 1
    RollEvery = 5
    PointGaps = {1, 4, 5}
    MaxCycles = 3
    MaxLine = 5

    root = root
    other = other
    q1 = q1
    q2 = q2
    Users = {root, other}
    Root = root
    Requests = {q1, q2}
    MaxPasswords = 5
    MaxFailures = 1
    MaxStarts = 2

INVARIANTS
    SeriesKept
    ReadersSeeAState
    HistoryKept
    AvailabilityIsTrue
    AccessKept
PROPERTY
    ClosedDaysAreCompressed
CHECK_DEADLOCK FALSE
