SPECIFICATION Spec
CONSTANTS
  Paths = {p1}
  FileSize = 1
  CHUNK_MAX = 1
  WRITE_WINDOW = 2
  QUEUE_CAP = 2
  MaxWrites = 1
  MaxErrors = 0
  MaxDrains = 1
  Threads = {t1, t2}
  Allowed = {"read"}
  MaxFills = 1
SYMMETRY Symmetry
CHECK_DEADLOCK FALSE
PROPERTY FlushDelivers
