SPECIFICATION UpSpec
CONSTANTS
  m1 = m1
  m2 = m2
  Messages = {m1, m2}
  Logins = {m1}
  Payloads <- MCPayloads
  N = 2
  MaxFaults = 1
  Modes = {{"grpc", "nats", "http"}}
  GrpcRetries = 1
  NatsRetries = 1
  HttpTries = 2
INVARIANT LoginIsKept
\* Pushes end.
CHECK_DEADLOCK FALSE
