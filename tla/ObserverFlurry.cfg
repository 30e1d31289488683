CONSTANTS
  MaxChanges = 2
  Lingers = TRUE
SPECIFICATION ObsSpec
INVARIANT Stabilized
CHECK_DEADLOCK FALSE
