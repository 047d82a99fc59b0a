CONSTANTS
  A = A
  B = B
  C = C
  D = D
  Goroutines = {g1, g2}
  Types = {A, B, C, D}
  Elems <- TypeElems
  Interfaces = {C}
  MaxDepth = 3
SPECIFICATION Spec
INVARIANTS
  TypeOK
  BuiltOnce
  RightEncoder
  DirectIsBuilt
  NoWaitingCycle
PROPERTIES
  CallsReturn
