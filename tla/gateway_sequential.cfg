SPECIFICATION Spec
CONSTANTS
  n1 = n1
  n2 = n2
  d1 = d1
  d2 = d2
  s1 = s1
  s2 = s2
  w1 = w1
  w2 = w2
  Nodes = {n1}
  Sockets = {s1, s2}
  Devices = {d1, d2}
  Workers = {w1}
  ParallelEnabled = FALSE
  Exclusive = FALSE
  RedisFaults = TRUE
  NodeFaults = TRUE
  NoNode = NoNode
  NoSocket = NoSocket
  NoId = NoId
SYMMETRY Sym
INVARIANTS TypeOK CountIsRegistered NoDeadEntry EntryLostOnlyByOverlap
PROPERTY LedgerSpec
CHECK_DEADLOCK FALSE
