SPECIFICATION FairSpec
CONSTANTS
    Pets = {p1, p2, p3, p4}
    StationCounts = {1, 2, 4}
    MAX_BLOCKS = 0
    SpuriousWakeups = TRUE
INVARIANTS
    TypeOK
    StationAccounting
    AttemptsOnlyWhileOccupied
    NoLostBed
    ExclusionWhenAmple
PROPERTIES
    WaitersServed
    ImplementsStations
CHECK_DEADLOCK FALSE
