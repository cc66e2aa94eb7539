SPECIFICATION Spec
CONSTANTS
  Paths = {p1}
  FileSize = 3
  CHUNK_MAX = 2
  WRITE_WINDOW = 3
  QUEUE_CAP = 3
  Writers = {w1}
  Drainers = {d1}
  MaxWrites = 1
  MaxErrors = 1
  MaxDrains = 1
CHECK_DEADLOCK FALSE
INVARIANT DropSurfaces
