SPECIFICATION Spec
CONSTANTS
    n1 = n1
    n2 = n2
    c1 = c1
    c2 = c2
    Empty = Empty
    NoState = NoState
    Torn = Torn
    NoDir = NoDir
    Networks <- MCTwo
    Pins <- MCPinned
    Cmds <- MCCmd
    Careful = TRUE
    Faults = {"kill"}
    MaxPosts = 3
    MaxStarts = 4
    MaxCrashes = 1
SYMMETRY Symmetry
INVARIANTS
    NoForeignRows
    KeepsMessages
PROPERTIES
    Implements
