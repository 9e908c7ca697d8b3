SPECIFICATION Spec
CONSTANTS
  ChipNames <- MCChipNames
  ChipPatterns <- MCChipPatterns
  MaxPatterns = 1
  MaxScripts = 1
  NClocks = 3
  Fails = Fails
  RootHz = {8}
  Gates <- MCGates
  ViewReports <- MCReports
  NoGroup = NoGroup
  ExpressionTexts <- MCExpressionTexts
  Directories <- MCDirectories
  Calls <- MCCalls
  RegisterValues = {0, 1, 3, 6}
  TopBit = 31
  Broken = Broken
  Missing = Missing
  SameName <- MCSameName
  PerLines <- MCPerLines
  MaxLines = 1
  None = None
  PayloadLengths = {0, 3, 8}
  MaxFrames = 1
  ReceiveSize = 25
  HeaderLengths = {2, 5, 6}
  BodyLengths = {1, 4}
  MaxMessages = 1
  MaxHeaderBytes = 5
  MaxMessageBytes = 3
  ReadSize = 14
INVARIANTS
  EveryClockHasABox
CHECK_DEADLOCK FALSE
