CONSTANTS
  MaxNestingDepth = 100
  Streams <- Mixed
  MaxChunk = 2
  ReaderFails = TRUE
  Calls = {"Token", "More", "Decode"}
SPECIFICATION TokenSpec
INVARIANTS
  TokenTypeOK
  StateFollowsTokens
PROPERTIES
  DelimitersNest
  MoreForetells
  OffsetAdvances
CHECK_DEADLOCK FALSE
