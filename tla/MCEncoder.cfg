CONSTANTS
  Docs = {d1, d2}
  IndentSizes = {0, 2, 4}
  MaxWrites = 6
SPECIFICATION Spec
INVARIANTS
  TypeOK
  SeparatedUntilError
  OkMeansWritten
PROPERTIES
  ErrorIsFinal
