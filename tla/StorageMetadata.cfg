SPECIFICATION MetadataSpec
CONSTANTS
  Clients = {c1, c2}
  Kinds = {"bucket", "object", "notification"}
INVARIANTS
  WritesSurvive
PROPERTIES
  PatchMerges
CHECK_DEADLOCK FALSE
