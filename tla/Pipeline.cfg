SPECIFICATION FairSpec
CONSTANTS
    cmdCount = 3
    Capacity = 1
    MaxOutput = 1
PROPERTIES
    PipelineEnds
CHECK_DEADLOCK FALSE
