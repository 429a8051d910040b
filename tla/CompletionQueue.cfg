\* Two runners and one address for three operations: each is registered where the
\* one before it was, as soon as that one is forgotten.
SPECIFICATION FairSpec
CONSTANTS
  Runner = {r1, r2}
  Addr = {a1}
  Kinds = {"timer", "unary", "stream"}
  MaxMade = 3
  MaxData = 2
  NoAddr = NoAddr
  NoThread = NoThread
  App = app
INVARIANTS
  TagsRegistered
  StreamInOrder
PROPERTIES
  EveryOperationEnds
