SPECIFICATION Spec
CONSTANTS
  Requests = {r1, r2}
  Callbacks = {c1}
  Sites = {acme}
  Tokens = {t1, t2, t3, t4, t5}
  NoToken = none
  MaxFailures = 0
SYMMETRY Symmetry
INVARIANTS ReauthMeansDead
