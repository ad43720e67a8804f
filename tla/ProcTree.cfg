SPECIFICATION FairSpec
CONSTANTS
    NPROC = 4
    MaxCalls = 4
INVARIANTS
    TypeOK
    NoZombieMissed
    LivingParents
PROPERTIES
    OrphansReaped
    ImplementsForest
