SPECIFICATION Spec
CONSTANTS
    Conn = {c1, c2, c3}
    FD = {3, 4}
    Requests = 1
    ReqMod = 8
    Retry = TRUE
    Sleeps = FALSE
    ReqLen = 1
    HeadLen = 1
    BodyLen = 1
    MaxEvents = 1
    Faults = {"local", "epoll_add", "fin", "rst", "wait"}
SYMMETRY Symmetry
INVARIANTS FdOwnership ExitReleasesAll
CHECK_DEADLOCK FALSE
