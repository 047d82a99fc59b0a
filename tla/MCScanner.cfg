CONSTANTS
  MaxNestingDepth = 2
  Input <- Byte
  MaxIdn = 4
  MaxStack = 3
SPECIFICATION Spec
INVARIANTS
  TypeOK
  FlowStaysOnTop
  LiteralKeepsControl
  EndTopMeansEmpty
  DepthReported
  IndentsNest
  SameLineHasKey
  AcceptedIsClean
PROPERTIES
  ErrorIsKept
  ImplementsFlowNesting
