CONSTANTS
  MaxNestingDepth = 100
  Streams <- BlockStreams
  MaxChunk = 40
  ReaderFails = TRUE
SPECIFICATION Spec
INVARIANTS
  TypeOK
  BufferIsWindow
PROPERTIES
  ImplementsDocumentStream
CHECK_DEADLOCK FALSE
