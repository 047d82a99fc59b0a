CONSTANTS
  MaxNestingDepth = 100
  Streams <- EncodedStreams
  MaxChunk = 40
  ReaderFails = FALSE
SPECIFICATION Spec
INVARIANT DeliveredInOrder
CHECK_DEADLOCK FALSE
