SPECIFICATION Spec
CONSTANTS
  Paths = {p1}
  FileSize = 2
  CHUNK_MAX = 2
  WRITE_WINDOW = 3
  QUEUE_CAP = 2
  MaxWrites = 2
  MaxErrors = 1
  MaxDrains = 2
  Threads = {t1, t2}
  Allowed = {"late"}
  MaxFills = 0
SYMMETRY Symmetry
CHECK_DEADLOCK FALSE
INVARIANT TypeOK
PROPERTIES
  FlushDelivers
  NeverGoesBack
