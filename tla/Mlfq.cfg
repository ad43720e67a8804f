SPECIFICATION FairSpec
CONSTANTS
    CPUs = {c1, c2}
    NPROC = 2
    MOVEUP = 2
    MTIMES = 2
INVARIANTS
    TypeOK
    OneCpuPerProcess
    LevelAllotments
    FreedOffCpu
PROPERTIES
    HighServed
