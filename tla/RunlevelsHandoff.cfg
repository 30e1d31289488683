CONSTANTS
  MaxSets = 2
  Flurry = 2
  Flaky = {}
SPECIFICATION Spec
INVARIANT HandoffFree
CHECK_DEADLOCK FALSE
