SPECIFICATION Spec

CONSTANTS
    http = http
    ping = ping
    Services = {http, ping}
    Configs <- OneSwitchedOff
    MaxAlerts = 1
    MaxEdits = 1
    MaxReplaced = 0
    MaxCrashes = 0
    Faults = {}

PROPERTY
    NoAlarmWhenUp
