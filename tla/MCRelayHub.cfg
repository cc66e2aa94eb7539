SPECIFICATION RelaySpec
CONSTANTS
  Parts = {"hub", "sockets"}
  a1 = a1
  a2 = a2
  b1 = b1
  b2 = b2
  b3 = b3
  b4 = b4
  b5 = b5
  tok1 = tok1
  tok2 = tok2
  None = None
  LinkTarget = LinkTarget
  Agents = {a1, a2}
  Bridges = {b1, b2, b3, b4, b5}
  Tokens = {tok1, tok2}
  TokenOf <- ThirdApart
  Required = tok1
  HelloId <- SameId
  ClientOf <- ClientsOf
  Seconds = {1}
  Mortal = {a1, b1}
  MaxRequests = 2
  KindsOf <- AnyThenCalls
  Casts <- ThreePeers
  SmallFrames = 1
  MaxCalls <- FewCalls
CHECK_DEADLOCK FALSE
INVARIANTS
  PartsTypeOK
  UniqueIds
  RegistryExact
  OwnResponses
  StaleOnlyFromAck
  StuckOnlyOnPongs
PROPERTIES
  OthersAnswered
