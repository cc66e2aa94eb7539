SPECIFICATION TerminatingSpec
CONSTANTS
  c1 = c1
  c2 = c2
  None = None
  Commands = {c1, c2}
  Ids = {1, 2}
  IdOf <- UniqueIds
  Background = {c1}
  Timed = {c1, c2}
  WithInput = {c2}
  MaxDisconnects = 2
CHECK_DEADLOCK FALSE
INVARIANTS
  TypeOK
  RunningIsTracked
  DoneMeansEnded
  OutcomeIsOwn
  LockHeldByWaiter
  PanicOnlyAfterDisconnect
PROPERTIES
  TasksEnd
  AgentReturns
