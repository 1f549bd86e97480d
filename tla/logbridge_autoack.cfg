SPECIFICATION Spec
CONSTANTS
  m1 = m1
  m2 = m2
  m3 = m3
  b1 = b1
  b2 = b2
  Msgs = {m1, m2, m3}
  Bad = {m3}
  Bridges = {b1}
  BatchSize = 1
  MaxFaults = 1
INVARIANT AckedIsStored
CHECK_DEADLOCK FALSE
