SPECIFICATION FairSpec
CONSTANTS
    Conn = {c1, c2}
    FD = {3, 4}
    Requests = 1
    ReqMod = 8
    Retry = TRUE
    Sleeps = TRUE
    ReqLen = 1
    HeadLen = 1
    BodyLen = 1
    MaxEvents = 2
    Faults = {"refuse", "fin", "push", "short"}
PROPERTIES SleeperWakes ResponseEnds Quiesces
CHECK_DEADLOCK FALSE
