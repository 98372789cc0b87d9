SPECIFICATION FairSpec
CONSTANTS
  Workers = {w1, w2}
  Autos = {a1}
  NoAuto = none
  NumPosts = 3
  Poison = {2}
  Batch = 1
  MaxPosts = 2
  Lease = 0
  Interval = 2
  Drain = 1
  MaxOverdue = 0
  MaxFailures = 2
  MaxTaken = 1
INVARIANTS OverlapOnlyWhenLate IInv SeenImpliesFiled AtMostOnce
PROPERTIES KeepsPromise EventuallyFiled Recovered
