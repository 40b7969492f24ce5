SPECIFICATION SupFairSpec

CONSTANTS
    StableAfter = 1
    HangRecovery = 2
    CrashWindow = 1
    HangWindow = 2
    FailSpan = 1
    CrashLimit = 2
    HangLimit = 2
    FailLimit = 2
    MaxPending = 2
    MaxWrites = 2
    MaxSvcFaults = 2

PROPERTY
    FailureSeriesEnds

CHECK_DEADLOCK FALSE
