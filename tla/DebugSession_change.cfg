SPECIFICATION Spec
CONSTANTS
  MaxEnds = 1
  MaxCommands = 1
  Timeout = 1
INVARIANTS
  SnapshotAfterChange
CHECK_DEADLOCK FALSE
