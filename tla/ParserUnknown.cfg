CONSTANTS
  MaxNestingDepth = 100
  ZeroOf <- Zero
  StoreLiteral <- storeLiteral
  LiteralInterface <- literalInterface
  Unquote <- unquote
  Inputs <- UnknownFields
SPECIFICATION Spec
INVARIANT OnlyUnknownSkipped
CHECK_DEADLOCK FALSE
