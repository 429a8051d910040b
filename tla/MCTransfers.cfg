SPECIFICATION FairSpec
CONSTANTS
  Quantum = 2
  ChunkSize = 4
  max_buffer_size_ = 4
  MaximumFailures = 2
  TimeLimited = TRUE
  LostResponses = TRUE
  PartialCommits = "any"
  Failures = TRUE
  Sizes = {1, 3, 4, 6, 7, 8, 10}
  Restored = {0, 4}
  WriteSizes = {1, 4, 6}
  Puts = TRUE
  MaxBytes = 11
  MaxSimpleBytes = 6
  Hashing = TRUE
  Requester = {t1, t2}
  Streamer = s
  NoThread = NoThread
  maximum_size_ = 1
  MaxRequests = 3
  Blocks = {0, 1, 2, 4, 5}
  initial_buffer_size_ = 2
  Users = {"file", "stream", "read", "simple", "requests"}
INVARIANTS
  GoodMeansIntact
  NothingDropped
  SharedSafely
PROPERTIES
  TransfersEnd
