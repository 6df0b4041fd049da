SPECIFICATION Spec
CONSTANTS
    mod = mod
    vip = vip
    general = general
    news = news
    None = None
    Roles = {mod, vip}
    Rank <- MCRank
    Channels = {general, news}
    FirstRoles = {mod}
    FirstChannels = {general}
    MaxEdits = 2
INVARIANTS
    TypeOK
    HearsWhatItMayView
    ClientKnowsWhatItHears
    
CHECK_DEADLOCK FALSE
