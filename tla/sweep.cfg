SPECIFICATION Spec
CONSTANTS
    r1 = r1
    r2 = r2
    a = a
    b = b
    c = c
    None = None
    Requests <- MCOne
    Images <- MCImages3
    Raster <- MCImages3
    Bytes <- MCBytes3
    MaxAttachment = 2
    MaxStorage = 3
    Grace = 1
    Faults = {"remove", "rewrite", "list"}
    Straddle = TRUE
    MaxPosts = 3
    MaxClock = 2
    MaxKills = 0
INVARIANTS
    NoNeedlessEviction
    SweepAccurate
    RefsBacked
