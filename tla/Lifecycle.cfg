SPECIFICATION Spec
CONSTANTS
    Slots = 3
    Data = 3
INVARIANTS PoolNeedsConfig CleansUpOnce AllReleased LoopIsEquipped
PROPERTIES SignalEnds
CHECK_DEADLOCK FALSE
