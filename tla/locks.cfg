SPECIFICATION FairSpec
CONSTANTS
    r1 = r1
    r2 = r2
    Requests <- MCTwo
    Refresher = Refresher
    Versions = {0, 1}
INVARIANTS
    TypeOK
    NoDeadlock
PROPERTIES
    OneView
    Answered
    LabelsFollow
