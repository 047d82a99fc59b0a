CONSTANTS
  MaxNestingDepth = 100
  Streams <- Arrays
  MaxChunk = 40
  ReaderFails = FALSE
  Calls = {"Token"}
SPECIFICATION TokenSpec
INVARIANT MatchedAtEnd
CHECK_DEADLOCK FALSE
