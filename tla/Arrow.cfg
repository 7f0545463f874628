CONSTANTS
  r1 = r1
  r2 = r2
  r3 = r3
  Tables = 2
  Reader = {r1, r2, r3}
  TableOf <- TwoAndOne
  Bound = 1
  ChunkRows = 2
  MaxBlocks = 2
  MaxRows = 5
SPECIFICATION ThreadSpec
INVARIANTS StreamIsPrefix CleanEndIsComplete NoLostWakeup
PROPERTIES KeepsPromise ReadersFinish DropReturns
