SPECIFICATION BridgeSpec
CONSTANTS
  Parts = {"client", "transfer", "mounts", "names", "codes"}
  Requests = {timed, untimed}
  Timed = {timed}
  Commands = {timed, untimed}
  MaxBreaks = 3
  MaxLeaves = 2
  Uploads = {u1, u2}
  Downloads = {d1}
  Old = Old
  Size <- FileSizes
  Short = {Old}
  Torn = Torn
  Lost = Lost
  NoFile = NoFile
  MaxFaults = 2
  Points = {p1}
  Callers = {c1, c2}
  MaxSessions = 4
  MaxMountFaults = 1
  Names = {n1, n2}
  MaxTasks = 2
  MaxStores = 1
  MaxNameFaults = 1
  Codes = {k1, k2}
  Lifetime = 4
  Period = 3
  MaxClock = 14
CHECK_DEADLOCK FALSE
INVARIANTS
  PartsTypeOK
  NoLeak
  AnswerReachesCall
  ResultBeforeNull
  DownloadWhole
  ListedIsServed
  NamesTrue
  CodesOnce
PROPERTIES
  UploadsAtomic
  ClientLives
