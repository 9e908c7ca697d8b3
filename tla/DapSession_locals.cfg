SPECIFICATION Spec
CONSTANTS
  MaxRequests = 3
  MaxRestarts = 1
  FIRST_SEQUENCE = 10
  References = {1, 2}
INVARIANTS
  LocalsNeverForwarded
CHECK_DEADLOCK FALSE
