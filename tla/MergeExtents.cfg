CONSTANTS
    MediumSize = 6
    MaxRanges = 4
    Tolerance = 1
    End = End
    Charts <- OrderedCharts
SPECIFICATION FairSpec
INVARIANTS Located LeakBounded Folded
PROPERTIES Terminates Implements
CHECK_DEADLOCK FALSE
