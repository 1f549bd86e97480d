SPECIFICATION FairSpec
CONSTANTS
  m1 = m1
  m2 = m2
  m3 = m3
  b1 = b1
  b2 = b2
  Msgs = {m1, m2, m3}
  Bad = {m3}
  Bridges = {b1}
  BatchSize = 2
  MaxFaults = 3
INVARIANTS TypeOK AckedIsHeld AckingIsStored Bounded
PROPERTY PromiseKept
CHECK_DEADLOCK FALSE
