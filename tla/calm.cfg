SPECIFICATION FairSpec
CONSTANTS
    r1 = r1
    r2 = r2
    a = a
    b = b
    c = c
    None = None
    Requests <- MCTwo
    Images <- MCImages2
    Raster <- MCImages2
    Bytes <- MCBytes2
    MaxAttachment = 2
    MaxStorage = 1
    Grace = 1
    Faults = {"list"}
    Straddle = TRUE
    MaxPosts = 2
    MaxClock = 2
    MaxKills = 0
INVARIANTS
    MirroredToDisk
    AttachmentsWhole
    WithinQuotaOrFresh
PROPERTIES
    Answered
