SPECIFICATION SceneSpec

CONSTANTS
    http = http
    ping = ping
    Services = {http, ping}
    Configs <- OneOrBoth
    MaxAlerts = 2
    MaxEdits = 1
    MaxReplaced = 1
    MaxCrashes = 1
    Faults = {"load", "create", "resolve", "status", "dispatch", "nobody", "maintenance"}

INVARIANTS
    NoEventLost
    ToldIsTrue
    OneIncident

PROPERTIES
    CooldownKept
    OncePerOutage
    AlarmIsTrue
