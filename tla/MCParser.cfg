CONSTANTS
  MaxNestingDepth = 100
  ZeroOf <- Zero
  StoreLiteral <- storeLiteral
  LiteralInterface <- literalInterface
  Unquote <- unquote
  Inputs <- All
SPECIFICATION Spec
INVARIANTS
  TypeOK
  RoundTrip
  RecursionFollowsText
  ElementsWereRead
  NothingUnread
CHECK_DEADLOCK FALSE
