SPECIFICATION RclSpec
CONSTANTS
  Modulus = 3
  MaxCalls = 8
  MaxConnects = 1
  MaxNoise = 0
INVARIANT TimeoutsKeepConnectionUsable
