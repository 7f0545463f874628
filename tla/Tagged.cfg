SPECIFICATION Spec
CONSTANTS
  max_incomplete_needed = 5
  max_context = 2
  Models <- MCModels
  Names <- MCNames
  Width <- MCWidth
  FixedBytes <- MCFixed
  max_tagged_depth = 2
  BufBytes = 4
  Messages <- MCMessages
  Sinks <- MCSinks
  RelayModel <- MCRelay
  MaxHops = 2
  Alphabet <- MCAlphabet
  MaxForeign <- MCForeign
  ForeignMessages <- MCWhole
CHECK_DEADLOCK FALSE
INVARIANTS WritersAreExact ReadersAgree RecordsSurvive
