SPECIFICATION Spec
CONSTANTS
  n1 = n1
  n2 = n2
  d1 = d1
  d2 = d2
  s1 = s1
  s2 = s2
  w1 = w1
  w2 = w2
  Nodes = {n1}
  Sockets = {s1, s2}
  Devices = {d1}
  Workers = {w1, w2}
  ParallelEnabled = TRUE
  Exclusive = TRUE
  RedisFaults = FALSE
  NodeFaults = TRUE
  NoNode = NoNode
  NoSocket = NoSocket
  NoId = NoId
SYMMETRY Sym
INVARIANTS CloseAllReachesAll RegisteredIsFound EntryIsAuthenticated
CHECK_DEADLOCK FALSE
