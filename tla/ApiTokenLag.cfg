SPECIFICATION Spec
CONSTANTS
  Requests = {r1, r2}
  Revokers = {x1}
  TTL = 3
  Latency = 2
  MaxFailures = 2
INVARIANTS DeadKeyStops IInv
