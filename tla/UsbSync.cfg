CONSTANTS
  MaxSets = 4
  Flurry = 4
  Flaky = {"scratch", "handoff"}
  MaxChanges = 3
  Lingers = TRUE
SPECIFICATION UsbSpec
INVARIANTS RestsRight NotStuckOn
PROPERTIES FilesFreed Rests CutsOff
CHECK_DEADLOCK FALSE
