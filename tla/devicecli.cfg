SPECIFICATION Spec
CONSTANTS
  p1 = p1
  p2 = p2
  r1 = r1
  r2 = r2
  Pushers = {p1}
  Reloaders = {r1, r2}
  MQConfigured = TRUE
  MqMayFail = TRUE
  MaxReloads = 3
INVARIANTS TypeOK ChainIsCurrent CurMatchesMode NatsAccounted UndisturbedPush
