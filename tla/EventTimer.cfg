SPECIFICATION Spec
CONSTANTS
    Conn = {c1, c2}
    Msecs = 24
    IntMod = 10
    LazyDelay = 2
    SleepTimes = {1, 3}
    Late = 1
    MaxBack = 1
    MaxAhead = 3
    Busy = 1
SYMMETRY Symmetry
INVARIANTS TimerTypeOK TimerSetInTree AllTimersAhead WakeNearDue
PROPERTIES SleepsAsAsked UsesQueue
