SPECIFICATION FairSpec
CONSTANTS
    n1 = n1
    n2 = n2
    c1 = c1
    c2 = c2
    Empty = Empty
    NoState = NoState
    Torn = Torn
    NoDir = NoDir
    Networks <- MCTwo
    Pins <- MCPinned
    Cmds <- MCCmd
    Careful = TRUE
    Faults = {}
    MaxPosts = 2
    MaxStarts = 3
    MaxCrashes = 1
INVARIANTS
    ImagesFollow
PROPERTIES
    EventuallyServes
