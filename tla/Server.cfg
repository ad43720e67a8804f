SPECIFICATION FairSpec
CONSTANTS
    Receivers = {r1}
    Senders = {s1, s2}
    MaxLines = 2
    MaxSpurious = 1
PROPERTIES
    EachLineSent
CHECK_DEADLOCK FALSE
