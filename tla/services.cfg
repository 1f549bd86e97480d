SPECIFICATION ServicesSpec
CONSTANTS
  c1 = c1
  c2 = c2
  c3 = c3
  s1 = s1
  s2 = s2
  s3 = s3
  s4 = s4
  g1 = g1
  g2 = g2
  info = info
  error = error
  Clients = {c1, c2, c3}
  NoClient = NoClient
  MaxWait = 2
  LockTime = 4
  Servers = {s1, s2, s3, s4}
  Numbers = {0, 300}
  MaxRounds = 1
  Loggers = {g1, g2}
  Levels = {info, error}
  QueueSize = 2
  SendBatchSize = 2
  MaxEntries = 3
  MaxBuilds = 2
  MaxVersion = 2
INVARIANTS
  ServicesTypeOK
  OneHolderUntilOutlived
  DeficitAccounted
  ReceiverWithinMean
  InOrderOnce
  AcceptedIsAccounted
  ConfigIsLatest
PROPERTIES
  KeyExpires
  QuietAfterClose
  CloseReturns
  AddressesCatchUp
  NeverBack
  NoGoroutineLeft
\* A log writer that is closed, a planner whose rounds are used up and a resolver
\* after the last build have come to their end.
CHECK_DEADLOCK FALSE
