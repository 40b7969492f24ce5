SPECIFICATION ServicesSpec

CONSTANTS
    StableAfter = 1
    HangRecovery = 2
    CrashWindow = 1
    HangWindow = 2
    FailSpan = 1
    CrashLimit = 2
    HangLimit = 2
    FailLimit = 2
    MaxPending = 2
    MaxWrites = 2
    MaxSvcFaults = 2
    p1 = p1
    Pages = {p1}
    Backlog = 2
    Buffer = 1
    MaxStreams = 1
    Recheck = 2
    MaxEvents = 3
    MaxBreaks = 1
    MaxJobs = 2
    QueueSize = 1
    Life = 1
    MaxJobFaults = 3

    w1 = w1
    w2 = w2
    req = req
    r1 = r1
    r2 = r2
    Workers = {w1}
    Requests = {req}
    Restores = {r1, r2}
    NoRestore = NoRestore
    Directories <- TwoDirectories
    MaxArchives = 2
    MaxRestarts = 1
    Faults = {"prepare", "swap", "rollback", "kill"}

INVARIANTS
    SupervisionKept
    StreamsKept
    ReportsKept
    QuietSwap
    NoStaleWork
    RefusalsMatch

PROPERTIES
    ServicesSettle
    DataIsAtomic

CHECK_DEADLOCK FALSE
