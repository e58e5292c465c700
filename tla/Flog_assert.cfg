SPECIFICATION Spec
CONSTANTS
    Day = 2
    LineMax = 2
    LogMax = 3
    Null = Null
    MaxTime = 5
    MaxBacks = 1
    MaxLines = 4
INVARIANT AssertionHolds
CHECK_DEADLOCK FALSE
