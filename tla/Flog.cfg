SPECIFICATION Spec
CONSTANTS
    Day = 2
    LineMax = 2
    LogMax = 3
    Null = Null
    MaxTime = 5
    MaxBacks = 1
    MaxLines = 4
INVARIANTS FlogTypeOK OneStream DateIsRight SizeBounded
CHECK_DEADLOCK FALSE
