SPECIFICATION Spec
CONSTANTS
  Days = {0, 1, 2}
  Classes = {"STANDARD", "NEARLINE"}
  MaxParts = 3
INVARIANTS
  SatisfiedWhenAll
CHECK_DEADLOCK FALSE
