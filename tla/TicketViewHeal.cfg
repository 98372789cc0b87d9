SPECIFICATION FairSpec
CONSTANTS
  Creators = {c1, c2}
  Reconcilers = {r1, r2}
  Free = free
  MaxIssues = 2
  Cap = 1
  MaxFailures = 2
INVARIANTS TypeOK OneReconcile
PROPERTIES Heals
