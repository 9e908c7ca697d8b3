SPECIFICATION FairSpec
CONSTANTS
  MaxEnds = 1
  MaxCommands = 2
  Timeout = 1
INVARIANTS
  SnapshotAfterOwnCommand
  DoMeansEnded
PROPERTIES
  CommandReturns
CHECK_DEADLOCK FALSE
