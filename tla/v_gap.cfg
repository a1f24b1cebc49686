SPECIFICATION Spec
CONSTANTS
    r1 = r1
    r2 = r2
    a = a
    b = b
    c = c
    None = None
    Requests <- MCTwo
    Images <- MCImages2
    Raster <- MCImages2
    Bytes <- MCBytes2
    MaxAttachment = 2
    MaxStorage = 2
    Grace = 1
    Faults = {}
    Straddle = FALSE
    MaxPosts = 3
    MaxClock = 2
    MaxKills = 0
INVARIANTS
    RefsBacked
