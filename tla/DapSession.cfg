SPECIFICATION FairSpec
CONSTANTS
  MaxRequests = 3
  MaxRestarts = 2
  FIRST_SEQUENCE = 10
  References = {1, 2}
INVARIANTS
  AnsweredOnce
  SidesStayApart
  RestartedTargetRuns
PROPERTIES
  RestartsAreAnswered
CHECK_DEADLOCK FALSE
