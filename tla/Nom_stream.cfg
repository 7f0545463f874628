SPECIFICATION Spec
CONSTANTS
  max_incomplete_needed = 5
  max_context = 2
  MaxChunk = 2
  Families <- MCFamilies
CHECK_DEADLOCK FALSE
INVARIANTS ParsersAreExact
PROPERTIES
  DecidedStays
  NeededIsHonest
