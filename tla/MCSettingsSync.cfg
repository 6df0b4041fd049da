SPECIFICATION Spec
CONSTANTS
    d1 = d1
    d2 = d2
    ordering = ordering
    notifications = notifications
    Devices = {d1, d2}
    Keys = {notifications}
    Expiring = {notifications}
    Ahead = {}
    Running = {d2}
    Reloaded = {d1}
    MaxTime = 2
    MaxEdits = 2
    MaxInbox = 1
    MaxFaults = 1
    MaxCloses = 1
INVARIANTS
    TypeOK
    AgreeAtRest
    RevisionNamesValue
    

    
CHECK_DEADLOCK FALSE
