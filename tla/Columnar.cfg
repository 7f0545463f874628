CONSTANTS
  ByteBits = 3
  WordBytes = 2
  VarBits = 12
  RunCap = 20
  SkipChunk = 2
  LevelChunk = 3
  Hash <- MCHash
  FirstSlots = 2
  LengthBytes = 1
  kValueSlack = 2
  IntBits = 4
  DeltaBlock = 12
  DeltaMinis = 2
  DeltaChunk = 3
  MaxDeltaBlock = 24
  MaxElements = 100
  Half = 4
  MaxCopy = 10
  Nibble = 7
  ExtMax = 2
  MinMatch = 2
  kMaxSymbolLength = 4
  kMaxSymbols = 4
  kSampleTarget = 32
  MaxDraws = 3
  Hash3 <- MCHash3
  ByteCount = 3
  Values <- MCValues
  Null = Null
  MaxRows = 6
  MaxNulls = 1
  MaxBatch = 3
  MaxClears = 1
  ForeignStreams <- MCForeign
  Blocks <- MCBlocks
  Samples <- Kinds
  Schema <- MCSchema
SPECIFICATION Spec
INVARIANTS ColumnIsDescribed PagesReadBack BlocksAreExact EncodingsReadBack PlacesAreKept LevelsAreTrees
CHECK_DEADLOCK FALSE
