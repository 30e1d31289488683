CONSTANTS
  MaxSets = 6
  Flurry = 2
  Flaky = {"handoff"}
SPECIFICATION FairSpec
INVARIANT Backed
PROPERTIES ComesUp GoesDown
CHECK_DEADLOCK FALSE
