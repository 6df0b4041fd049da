SPECIFICATION FairSpec
CONSTANTS
    u1 = u1
    r1 = r1
    r2 = r2
    c1 = c1
    c2 = c2
    c3 = c3
    Users = {u1}
    Regions = {r1, r2}
    Conns = {c1, c2, c3}
    UserOf <- MCUserOf
    RegionOf <- MCRegionOf
    Invisible = {}
    MaxCrashes = 1
INVARIANTS
    TypeOK
    ExactUnlessMixed
    
    

    
CHECK_DEADLOCK FALSE
