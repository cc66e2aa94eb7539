SPECIFICATION FairSpec
CONSTANTS
  Paths = {p1}
  FileSize = 3
  CHUNK_MAX = 2
  WRITE_WINDOW = 3
  QUEUE_CAP = 1
  Writers = {w1, w2}
  Drainers = {}
  MaxWrites = 3
  MaxErrors = 0
  MaxDrains = 1
CHECK_DEADLOCK FALSE
PROPERTY WriterGoesOn
