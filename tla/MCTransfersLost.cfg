SPECIFICATION Spec
CONSTANTS
  Quantum = 2
  ChunkSize = 4
  max_buffer_size_ = 4
  MaximumFailures = 2
  TimeLimited = FALSE
  LostResponses = TRUE
  PartialCommits = "no"
  Failures = TRUE
  Sizes = {9}
  Restored = {0}
  WriteSizes = {}
  Puts = FALSE
  MaxBytes = 0
  MaxSimpleBytes = 6
  Hashing = TRUE
  Requester = {}
  Streamer = s
  NoThread = NoThread
  maximum_size_ = 1
  MaxRequests = 3
  Blocks = {}
  initial_buffer_size_ = 2
  Users = {"file"}
INVARIANTS
  ObjectIsFile
