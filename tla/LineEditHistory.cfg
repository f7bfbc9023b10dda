SPECIFICATION Spec
CONSTANTS
    Slots = 2
    BufLen = 2
    MaxHistory = 3
INVARIANT HistoryKept
CHECK_DEADLOCK FALSE
