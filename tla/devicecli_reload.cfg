SPECIFICATION Spec
CONSTANTS
  p1 = p1
  p2 = p2
  r1 = r1
  r2 = r2
  Pushers = {p1}
  Reloaders = {r1, r2}
  MQConfigured = TRUE
  MqMayFail = FALSE
  MaxReloads = 3
INVARIANT TriedInOrder
