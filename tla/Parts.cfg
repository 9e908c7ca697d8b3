SPECIFICATION FairSpec
CONSTANTS
  Modulus = 3
  MaxCalls = 8
  MaxConnects = 2
  MaxNoise = 1
  Size = 3
  MaxUp = 2
  MaxTyped = 3
  MaxResets = 1
  Clients = {c1, c2, c3}
  Codes = {0, 3}
  Signals = {9}
  Images = 2
  Options = {"cpu", "mem_access", "cores", "jtag_clock"}
  MaxOthers = 1
INVARIANTS
  ForeignAnswerNeedsFullTurn
  OutOfSyncOnlyAcrossWrap
  OneSession
  AdapterStopped
  ExitCodeIsHonest
  SuccessMeansReady
  ReprogramLeft
PROPERTIES
  ImplementsCalls
  CallReturns
  ImplementsStreams
  BytesArrive
  ProxyStops
  EraseAfterOwnReset
  SequenceEnds
