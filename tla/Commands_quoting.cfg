SPECIFICATION Spec
CONSTANTS
  Entries <- MCEntries
  MaxChecks = 2
  Variants = {"v"}
  Width = 2
  Registers <- MCRegisters
  Symbols <- MCSymbols
  TreeClocks = {"PLL"}
  Evaluated <- MCEvaluated
  NoVariant = NoVariant
  Images <- MCImages
  MaxImages = 2
  READ_CHUNK_SIZE = 2
  Memory = {0, 1, 2, 3}
  Bytes = {0, 1}
  MaxWrites = 1
  WatchNames = {"A", "B", "unknown"}
  Known = {"A", "B"}
  MaxWatched = 2
  Tools = {t1, t2}
  ReadyPolls = 1
  Foreign = Foreign
  Nobody = Nobody
  Files <- MCFiles
  TemplateName = "template"
  LEGACY = {"legacy"}
  Documents <- MCDocuments
  MaxRuns = 2
  MaxSaves = 1
  Missing = Missing
  Unreadable = Unreadable
  WordSize = 20480
  PlainClasses = {"AD", "SD"}
  None = None
  Cores <- MCCores
  SymbolTable <- MCSymbolTable
  SYMBOL_SLACK = 4
  MEM_MAX_WORDS = 2
  Locations <- MCLocations
  Counts = {0, 1, 2}
  MaxMoves = 1
  Names <- MCNames
  PerDefinitions <- MCDefinitions
  MaxDefinitions = 2
  Contents = {1, 1023, 1025}
  LongSize = 1024
  CommandLines <- MCCommandLines
  TomlFiles <- MCTomlFiles
  LibraryScripts <- MCLibrary
  ConfigT32 <- MCConfigT32
  RclPort = "20000"
  Unknown = Unknown
  MaxWorldMoves = 2
  RamSize = 16
  MaxRead = 8
  RamAddresses = {0, 1, 4, 8, 12}
  RamCounts = {0, 1, 2, 3, 4}
  CheckLists <- MCCheckLists
  AnyVariant = AnyVariant
  VariantNames = {"v", "w", "x"}
  MaxOperations = 3
  MaxSteps = 2
  Absent = Absent
  CfgInputs <- MCCfgInputs
  ApiCalls <- MCApiCalls
  FunctionAnswers <- MCFunctionAnswers
  MaxReadChunk = 2
  MaxWriteChunk = 3
  AddressSpace = 5
  ByteBase = 2
  WordLimit = 8
  IntLimit = 700
  MinBuild = 2
  MinBase = 2
  MaxTargetMoves = 2
  Garbled = Garbled
  Nothing = Nothing
INVARIANT
  NothingBreaksTheQuoting
CHECK_DEADLOCK FALSE
