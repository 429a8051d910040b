SPECIFICATION FairSpec
CONSTANTS
  Depth = 2
  Setter = {s1, s2}
  Inner = {n1}
  Consumer = c
  Abandons = TRUE
  FutureErrors = TRUE
INVARIANTS
  CalledOnce
  NotForgotten
PROPERTIES
  SatisfiedOnce
  ResultArrives
