SPECIFICATION FairSpec
CONSTANTS
    r1 = r1
    r2 = r2
    Requests = {r1, r2}
    Budget = 1
    MaxTargets = 2
INVARIANTS
    TypeOK
    ReadingsAreCutOff
    OneBrowserAtATime
    RefusalEndsCollection
PROPERTIES
    CollectionEnds
CHECK_DEADLOCK FALSE
