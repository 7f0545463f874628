CONSTANTS
  kNoToken = 0
  TickModulus = 64
  Key = {k1}
  Fragments <- MCFragments
  Config <- MCConfig
  MaxPackets = 4
  MaxOffset = 2
  MaxLength = 2
  MaxBytes = 4
  MaxOpen = 2
  Ticks = 2
SPECIFICATION Spec
INVARIANT ConflictNeverCompletes
