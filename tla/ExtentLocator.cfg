SPECIFICATION MCSpec
CONSTANTS
    f1 = f1
    f2 = f2
    d1 = d1
    d2 = d2
    Files <- MCFiles
    Devices <- MCDevices
    Blocks <- MCBlocks
    MaxExtents = 2
    MaxChanges = 2
INVARIANTS NothingForeign Complete
PROPERTIES Answered
CHECK_DEADLOCK FALSE
