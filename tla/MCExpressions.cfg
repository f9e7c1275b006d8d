CONSTANTS
  Name = {"a", "b"}
  Pools <- MCPools
  LIMIT = 4
  MAX_DEPTH = 7
SPECIFICATION SpecExpressions
INVARIANTS
  ExprTypeOK
  ValuesAreMeanings
  FailsForNoValue
