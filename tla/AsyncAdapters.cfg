\* MaximumFailures = 2 leaves room for a retry that fails and one that succeeds,
\* Pages = 2 for a failure between pages.
SPECIFICATION AdapterFairSpec
CONSTANTS
  Starter = starter
  Runner = {r1, r2}
  Canceller = {c1}
  Op = {o1, o2, o3}
  NoOp = NoOp
  NoThread = NoThread
  MaximumFailures = 2
  Pages = 2
  Adapters = {"retry", "multipage", "poll"}
  Policies = {"count", "time"}
INVARIANTS
  CallbackAtMostOnce
  SerialAccess
  ReleasedWhenDone
  AttemptBudget
  SuccessExact
PROPERTIES
  NoAttemptAfterCancel
  CancelCompletes
  ImplementsLoop
  EveryCallCompletes
