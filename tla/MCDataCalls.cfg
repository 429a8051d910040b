SPECIFICATION DataSpec
CONSTANTS
  t1 = t1
  t2 = t2
  Thread = {t1, t2}
  ConnectionPoolSize = 2
  MaxResets = 1
  Samples = 2
  N = 3
  MaximumFailures = 2
  MaximumCallFailures = 1
  Asked <- MCAsked
  Modes = {"sync", "async"}
INVARIANTS
  Accounted
  NonIdempotentOnce
  OkIsTrue
  UsedInTurn
PROPERTIES
  DataCallsEnd
