SPECIFICATION Spec
CONSTANTS
  Users = {u1, u2}
  NoUser = nobody
  States = {s1, s2}
  NoState = none
  Codes = {k1, k2, k3}
  NoCode = nocode
  Callbacks = {c1, c2}
  MaxFailures = 2
SYMMETRY Symmetry
INVARIANTS OwnGrant OneGrant GrantStored
