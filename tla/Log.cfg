SPECIFICATION FairSpec
CONSTANTS
    Procs = {p1, p2, p3}
    Blocks = {s1, s2}
    Values = {0, 1}
    NoProc = NoProc
    MAXOPBLOCKS = 1
    LOGSIZE = 3
    nlog = 3
    OpBlocks = 1
INVARIANTS
    TypeOK
    NoSleeperBesideRoom
PROPERTIES
    SleepersWoken
    ImplementsAtomicDisk
