CONSTANTS
  kNoToken = kNoToken
  TickModulus = 64
  Token = {t1, t2, t3}
  Key = {k1}
  Fragments <- MCFragments
  Config <- MCConfig
  MaxPackets = 4
  MaxHeaders = 2
  MaxBytes = 3
  MaxOpen = 2
  Ticks4 = 2
  Ticks6 = 1
SPECIFICATION Spec
SYMMETRY TokenSymmetry
INVARIANTS NoDanglingSpan PinsAreExact HeldIsPinned AnswersAreTrue NothingStale
PROPERTIES EveryDatagramReported ReleasedOnce
