SPECIFICATION RelaySpec
CONSTANTS
  Parts = {"sockets"}
  a1 = a1
  a2 = a2
  b1 = b1
  b2 = b2
  b3 = b3
  b4 = b4
  b5 = b5
  tok1 = tok1
  tok2 = tok2
  None = None
  LinkTarget = LinkTarget
  Agents = {a1, a2}
  Bridges = {b1, b2, b3, b4, b5}
  Tokens = {tok1, tok2}
  TokenOf <- ThirdApart
  Required = None
  HelloId <- SameId
  ClientOf <- ClientsOf
  Seconds = {1}
  Mortal = {}
  MaxRequests = 1
  KindsOf <- OnlyCalls
  Casts <- OnePair
  SmallFrames = 2
  MaxCalls <- FewCalls
CHECK_DEADLOCK FALSE
INVARIANT NeverStuck
