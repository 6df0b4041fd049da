SPECIFICATION Spec
CONSTANTS
    d1 = d1
    d2 = d2
    ordering = ordering
    notifications = notifications
    Devices = {d1, d2}
    Keys = {ordering, notifications}
    Expiring = {notifications}
    Ahead = {}
    Running = {d2}
    Reloaded = {d1}
    MaxTime = 2
    MaxEdits = 2
    MaxInbox = 1
    MaxFaults = 0
    MaxCloses = 1
INVARIANTS
    AgreeAtRest
CHECK_DEADLOCK FALSE
