SPECIFICATION GatewaySpec
CONSTANTS
  Ids = {s1, s2}
  NoId = none
  Requests = {r1, r2}
  TTL = 2
  Absolute = 4
  Slack = 1
  Latency = 1
SYMMETRY Symmetry
INVARIANTS AbsoluteLimit Indexed SignedOut
PROPERTIES GoneIsGone RevokedAll CookieAlive
