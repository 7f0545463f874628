SPECIFICATION MCSpec
CONSTANTS
  max_incomplete_needed = 5
  max_context = 2
  word_bits = 16
  seg_max_parts = 2
  MemSize = 3
  MaxGen = 4
  MaxViews = 1
  Ignored = {}
  Dflt = "little"
  Value <- MCValue
  Types <- MCTypes
  Lengths <- MCLengths
  Cuttings <- MCCuttings
  calc_fn <- MCCalc
  checksum_fn <- MCChecksum
INVARIANTS FramesReadBack CutsNeverShow NoStaleRead NoFalseFault
PROPERTIES ArenaContract
CHECK_DEADLOCK FALSE
