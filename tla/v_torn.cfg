SPECIFICATION Spec
CONSTANTS
    r1 = r1
    r2 = r2
    a = a
    b = b
    c = c
    None = None
    Requests <- MCOne
    Images <- MCImages1
    Raster <- MCImages1
    Bytes <- MCBytes1
    MaxAttachment = 2
    MaxStorage = 2
    Grace = 1
    Faults = {"kill"}
    Straddle = TRUE
    MaxPosts = 2
    MaxClock = 1
    MaxKills = 1
INVARIANTS
    MirroredToDisk
