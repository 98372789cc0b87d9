SPECIFICATION Spec
CONSTANTS
  Requests = {r1, r2}
  Revokers = {x1}
  TTL = 5
  Latency = 1
  MaxFailures = 0
INVARIANT RevokedStops
