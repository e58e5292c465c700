SPECIFICATION Spec
CONSTANTS
    Conn = {c1, c2}
    FD = {3, 4}
    Requests = 2
    ReqMod = 8
    Retry = TRUE
    Sleeps = TRUE
    ReqLen = 1
    HeadLen = 1
    BodyLen = 1
    MaxEvents = 2
    Faults = {"refuse", "fin", "rst", "bad_head"}
SYMMETRY Symmetry
INVARIANTS TypeOK FlagsMatchKernel SleeperHasTimer BudgetInv GivesUpOnlyWhenSpent
PROPERTIES ClosedForGood ImplementsBudget
CHECK_DEADLOCK FALSE
