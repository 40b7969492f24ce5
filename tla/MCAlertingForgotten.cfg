SPECIFICATION Spec

CONSTANTS
    http = http
    ping = ping
    Services = {http}
    Configs <- SameChecks
    MaxAlerts = 2
    MaxEdits = 0
    MaxReplaced = 0
    MaxCrashes = 1
    Faults = {"load"}

INVARIANT
    ActiveIsTracked
