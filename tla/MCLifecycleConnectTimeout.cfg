SPECIFICATION Spec
CONSTANTS
    None = None
    s1 = s1
    s2 = s2
    Sockets = {s1, s2}
    EmitThrows = {TRUE, FALSE}
    MaxPings = 2
    MaxSyncs = 2
PROPERTIES
    ConnectTimeoutBeforeFirstMessage
CHECK_DEADLOCK FALSE
