SPECIFICATION Spec
CONSTANTS
  c1 = c1
  c2 = c2
  Callers = {c1, c2}
  Asked <- MCAsked
  Policy <- Strict
  MaxFailures = 1
  MaxParts = 3
  FaultCodes = {503}
CHECK_DEADLOCK FALSE
INVARIANTS
  PreconditionHonoured
PROPERTIES
  RetriesChangeOnce
  CallReturns
