CONSTANTS
  Names <- ANames
  Suffixes <- ASuffixes
  Addresses = {1, 2, 3, 4, 5}
  Nodes = {1, 2, 3, 4, 5}
  Graphs <- CyclicSlice
  CycleCheckAfter = 2
SPECIFICATION Spec
INVARIANTS
  RecursionIsBounded
