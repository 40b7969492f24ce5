SPECIFICATION RuntimeSpec

CONSTANTS
    http = http
    ping = ping
    Services = {http}
    Configs <- SameChecks
    MaxAlerts = 1
    MaxEdits = 0
    MaxReplaced = 1
    MaxCrashes = 1
    Faults = {"resolve", "dispatch"}
    first = first
    second = second
    Procs = {first, second}
    LeaseBeats = 2
    Points = 2
    MaxRuns = 2
    MaxPatches = 1
    MaxRunFaults = 1
    Addresses = {1, 2, 3}
    Blocked = {3}
    NoAddress = NoAddress
    Retries = 1
    NegativeTtl = 1

INVARIANTS
    RunsKept

PROPERTIES
    RecoveryEnds
    OutboxDrains
    StatusFitsSettings
    KeepsMeasuring

CHECK_DEADLOCK FALSE
