SPECIFICATION Spec
CONSTANTS
    Calls = {c1, c2, c3}
    Ids = {a, b}
    None = None
    MaxConcurrent = 1
    QueueRequests = TRUE
    MaxQueue = 2
    Droppable = {}
PROPERTIES
    MaxQueueMeansFull
CHECK_DEADLOCK FALSE
