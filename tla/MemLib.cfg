SPECIFICATION FairSpec
CONSTANTS
    InitSizes = {290}
    Requests = {0, 10, 40}
    PageWords = 32
    MaxCalls = 9
INVARIANTS
    TypeOK
    BlocksSeparate
    WithinMapping
PROPERTIES
    SearchEnds
CONSTRAINT Unmerged
CHECK_DEADLOCK FALSE
