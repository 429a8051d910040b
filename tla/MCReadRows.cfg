SPECIFICATION FairSpec
CONSTANTS
  Key = {0, 1, 2, 3, 4, 5}
  EmptyKey = 0
  ZeroKey = 1
  ConsecutivePairs <- MCPairs
  TableRows = {2, 3, 4}
  InitialRowSets <- MCRowSets
  RowsLimits = {0, 1, 2}
  MaximumFailures = 2
  Modes = {"sync", "async"}
  Garbled = TRUE
INVARIANTS
  NoRowSkipped
  OkMeansComplete
  RowsWhole
PROPERTIES
  ReadEnds
