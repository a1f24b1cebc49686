SPECIFICATION Spec
CONSTANTS
    p1 = p1
    p2 = p2
    Peers <- MCPeers
    NoBucket = NoBucket
    Capacity = 5
    Refill = 1
    Cost = 2
    MaxClock = 6
    MaxRestarts = 1
SYMMETRY Symmetry
INVARIANTS
    TypeOK
    RateBound
    NotStarved
