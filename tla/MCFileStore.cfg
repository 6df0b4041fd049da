SPECIFICATION FairSpec
CONSTANTS
    u1 = u1
    u2 = u2
    photo = photo
    stripped = stripped
    p1 = p1
    p2 = p2
    None = None
    Uploads = {u1, u2}
    Contents = {photo, stripped}
    Posts = {p1, p2}
    Processed <- MCProcessed
    FileOf <- MCFileOf
    MaxFaults = 1
INVARIANTS
    TypeOK
    ContentKept
    AttachmentServed
    EvidenceKept
PROPERTIES
    Reclaimed
CHECK_DEADLOCK FALSE
