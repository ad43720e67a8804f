SPECIFICATION Spec
CONSTANTS
    InitSizes = {200}
    Requests = {10, 32}
    PageWords = 16
    MaxCalls = 8
INVARIANT BlocksNew
CHECK_DEADLOCK FALSE
