CONSTANTS
  Names <- ANames
  Suffixes <- ASuffixes
  Addresses = {1, 2, 3, 4, 5}
  Nodes = {1, 2, 3, 4, 5}
  Graphs <- Sharing
  CycleCheckAfter = 2
SPECIFICATION Spec
INVARIANTS
  TypeOK
  AnchorsInverse
  AliasesResolve
  SeenIsPath
  LevelCoversPath
  BracketsMatch
  RecursionIsBounded
