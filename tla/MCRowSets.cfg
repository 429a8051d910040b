SPECIFICATION MCSpec
CONSTANTS
  Key = {0, 1, 2, 3, 4}
  EmptyKey = 0
  ZeroKey = 1
  ConsecutivePairs <- MCPairs
  MaxEntries = 2
  Top = 3
  MaxLen = 2
INVARIANTS
  Denotes
  PrefixExact
