CONSTANTS
  MaxSets = 4
  Flurry = 1
  Flaky = {"scratch"}
SPECIFICATION Spec
INVARIANTS HandoffFree NothingLost Released
PROPERTY OneAtATime
CHECK_DEADLOCK FALSE
