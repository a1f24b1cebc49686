SPECIFICATION Spec
CONSTANTS
    r1 = r1
    r2 = r2
    a = a
    b = b
    c = c
    None = None
    Requests <- MCOne
    Images <- MCImages1
    Raster <- MCImages1
    Bytes <- MCBytes1
    MaxAttachment = 2
    MaxStorage = 1
    Grace = 0
    Faults = {"kill", "cut", "append", "write", "remove", "rewrite", "list"}
    Straddle = TRUE
    MaxPosts = 3
    MaxClock = 0
    MaxKills = 2
INVARIANTS
    TypeOK
    IdsFresh
    LogBehindMemory
PROPERTIES
    NoLostRow
    Implements
