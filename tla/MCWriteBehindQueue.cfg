SPECIFICATION Spec
CONSTANTS
  Paths = {p1}
  FileSize = 2
  CHUNK_MAX = 2
  WRITE_WINDOW = 2
  QUEUE_CAP = 1
  MaxWrites = 1
  MaxErrors = 1
  MaxDrains = 0
  Threads = {t1, t2}
  Allowed = {"late", "read", "sync", "disk", "remove", "left"}
  MaxFills = 3
SYMMETRY Symmetry
CHECK_DEADLOCK FALSE
INVARIANT CachedPrefixValid
PROPERTY QueueSpec
