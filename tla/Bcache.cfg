SPECIFICATION FairSpec
CONSTANTS
    Procs = {p1, p2}
    Blocks = {s1, s2, s3}
    Values = {0, 1}
    NUM = 4
    NBUF = 2
    NoProc = NoProc
    NoBlock = NoBlock
    MaxPins = 1
INVARIANTS
    TypeOK
    BuffersSuffice
    NoMissedWakeup
PROPERTIES
    ImplementsBlockCache
    RequestsAnswered
CHECK_DEADLOCK FALSE
