SPECIFICATION FairSpec
CONSTANTS
    Procs = {p1, p2}
    NoProc = NoProc
    Bytes = {0, 1}
    PIPESIZE = 2
    WORD = 4
    MaxBytes = 3
    MaxKills = 1
INVARIANTS
    TypeOK
    NoMissedWakeup
PROPERTIES
    EofSeen
    ImplementsFifo
CHECK_DEADLOCK FALSE
