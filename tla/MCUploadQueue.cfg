SPECIFICATION FairSpec
CONSTANTS
  Paths = {p1, p2}
  FileSize = 3
  CHUNK_MAX = 2
  WRITE_WINDOW = 3
  QUEUE_CAP = 2
  Writers = {w1}
  Drainers = {d1}
  MaxWrites = 2
  MaxErrors = 1
  MaxDrains = 1
CHECK_DEADLOCK FALSE
INVARIANTS
  TypeOK
  OneSendPerByte
  RewritesWait
  BlockedHasSend
  WindowHolds
  BacklogNotUnderstated
  MergeIsUnion
  TakeIsChunks
PROPERTIES
  EverythingLeaves
  DrainReturns
