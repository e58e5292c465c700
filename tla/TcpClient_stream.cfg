SPECIFICATION Spec
CONSTANTS
    Conn = {c1, c2}
    FD = {3, 4}
    Requests = 1
    ReqMod = 8
    Retry = FALSE
    Sleeps = FALSE
    ReqLen = 2
    HeadLen = 2
    BodyLen = 2
    MaxEvents = 2
    Faults = {"split", "short", "fin", "rst"}
SYMMETRY Symmetry
INVARIANTS OneOutstanding NoLostWakeup
CHECK_DEADLOCK FALSE
