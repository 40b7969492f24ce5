SPECIFICATION Spec

CONSTANTS
    http = http
    ping = ping
    Services = {http}
    Configs <- SameChecks
    MaxAlerts = 1
    MaxEdits = 0
    MaxReplaced = 0
    MaxCrashes = 0
    Faults = {"dispatch"}

INVARIANT
    OpenQueuedFirst
