SPECIFICATION Spec
CONSTANTS
  Creators = {c1, c2}
  Reconcilers = {}
  Free = free
  MaxIssues = 2
  Cap = 2
  MaxFailures = 0
INVARIANTS ShownAtOnce
