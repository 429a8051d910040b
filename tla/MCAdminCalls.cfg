SPECIFICATION Spec
CONSTANTS
  c1 = c1
  c2 = c2
  Callers = {c1, c2}
  Asked <- MCAsked
  MaxFailures = 1
  MaxPolls = 2
  Pages = 2
  MaxWrites = 1
CHECK_DEADLOCK FALSE
INVARIANTS
  RefusalIsTrue
  OkMeansDone
PROPERTIES
  NoPollAfterCancel
  AdminCallEnds
