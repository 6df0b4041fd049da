SPECIFICATION FairSpec
CONSTANTS
    ann = ann
    lobby = lobby
    den = den
    server = server
    k1 = k1
    k2 = k2
    k3 = k3
    None = None
    Users = {ann}
    Channels = {lobby, den}
    Parents = {server}
    Conns = {k1, k2, k3}
    ParentOf <- MCParentOf
    UserOf <- MCUserOf
    ChannelOf <- MCChannelOf
    MaxRequests = 1
    MaxLost = 1
INVARIANTS
    TypeOK
    NoGhost
    
    
PROPERTIES
    LeavesAreNoticed
CHECK_DEADLOCK FALSE
