SPECIFICATION Spec
CONSTANTS
  MaxRequests = 2
  MaxRestarts = 1
  FIRST_SEQUENCE = 10
  References = {1, 2}
INVARIANTS
  InternalAnswersStayInside
CHECK_DEADLOCK FALSE
