CONSTANTS
  MaxSets = 3
  Flurry = 3
  Flaky = {}
SPECIFICATION FairSpec
PROPERTY ComesUp
CHECK_DEADLOCK FALSE
