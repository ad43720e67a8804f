SPECIFICATION FairSpec
CONSTANTS
    NPROC = 2
    NUMTWEETTOPICS = 2
    MAXTAGTWEET = 1
    MAXTWEETTOTAL = 0
    EmptyTweets = TRUE
    CopyoutResults = {TRUE, FALSE}
    MaxCalls = 4
    MaxKills = 1
INVARIANTS
    TypeOK
    TweetsConserved
    NoMissedSlot
    CounterExactForOneTopic
PROPERTIES
    NonBlockingReturns
CHECK_DEADLOCK FALSE
