SPECIFICATION Spec
CONSTANTS
  Requests = {r1, r2}
  Callbacks = {c1}
  Sites = {acme, other}
  Tokens = {t1, t2, t3, t4}
  NoToken = none
  MaxFailures = 2
SYMMETRY Symmetry
INVARIANTS TypeOK GrantKept AuthMatchesSite
PROPERTIES FlippedWhenOvertaken MixedWhenOvertaken OnlyConnectCreates
