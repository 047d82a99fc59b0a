CONSTANTS
  MaxNestingDepth = 2
  ZeroOf <- Zero
  StoreLiteral <- storeLiteral
  LiteralInterface <- literalInterface
  Unquote <- unquote
  Inputs <- KeysOnALine
SPECIFICATION Spec
INVARIANT NestingIsLimited
CHECK_DEADLOCK FALSE
