SPECIFICATION Spec
CONSTANTS
    ann = ann
    w1 = w1
    w2 = w2
    None = None
    Users = {ann}
    Workers = {w1, w2}
    QueueSize = 2
    MaxMessages = 2
    MaxAcks = 2
    MaxFaults = 1
SYMMETRY Symmetry
INVARIANTS
    TypeOK
    
    UnreadIsKept
CHECK_DEADLOCK FALSE
