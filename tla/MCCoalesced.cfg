SPECIFICATION FairSpec
CONSTANTS
    Calls = {c1, c2, c3}
    Ids = {i1, i2, i3}
    None = None
    MaxConcurrent = 1
    QueueRequests = TRUE
    MaxQueue = None
    Droppable = {c1}
INVARIANTS
    TypeOK
    EntriesAccounted
PROPERTIES
    KeepsPromise
    WaiterAnswered
    EveryCallServed
CHECK_DEADLOCK FALSE
