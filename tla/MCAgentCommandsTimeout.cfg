SPECIFICATION FairSpec
CONSTANTS
  c1 = c1
  c2 = c2
  None = None
  Commands = {c1, c2}
  Ids = {1, 2}
  IdOf <- UniqueIds
  Background = {}
  Timed = {c1}
  WithInput = {}
  MaxDisconnects = 0
CHECK_DEADLOCK FALSE
PROPERTY TimeoutKills
