SPECIFICATION FairSpec
CONSTANTS
    Conn = {c1}
    FD = {3}
    Requests = 1
    ReqMod = 8
    Retry = TRUE
    Sleeps = TRUE
    ReqLen = 1
    HeadLen = 1
    BodyLen = 1
    MaxEvents = 1
    Faults = {"split"}
PROPERTIES ResponseEnds
CHECK_DEADLOCK FALSE
