SPECIFICATION FairSpec
CONSTANTS
    CPUs = {c1}
    NPROC = 2
    MOVEUP = 4
    MTIMES = 1
PROPERTIES
    WaitingIsRaised
