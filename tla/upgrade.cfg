SPECIFICATION Spec
CONSTANTS
    n1 = n1
    n2 = n2
    c1 = c1
    c2 = c2
    Empty = Empty
    NoState = NoState
    Torn = Torn
    NoDir = NoDir
    Networks <- MCTwo
    Pins <- MCAny
    Cmds <- MCCmds
    Careful = FALSE
    Faults = {"rename", "kill", "systemctl"}
    MaxPosts = 1
    MaxStarts = 2
    MaxCrashes = 1
SYMMETRY Symmetry
INVARIANTS
    TypeOK
PROPERTIES
    PinnedUntouched
