CONSTANTS
  r1 = r1
  r2 = r2
  r3 = r3
  Tables = 1
  Reader = {r1}
  TableOf <- OnlyFirst
  Bound = 1
  ChunkRows = 2
  MaxBlocks = 2
  MaxRows = 3
SPECIFICATION Spec
INVARIANT ChunksAreAlive
