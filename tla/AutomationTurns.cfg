SPECIFICATION FairSpec
CONSTANTS
  Workers = {w1}
  Autos = {a1, a2}
  NoAuto = none
  NumPosts = 1
  Poison = {}
  Batch = 1
  MaxPosts = 0
  Lease = 1
  Interval = 2
  Drain = 1
  MaxOverdue = 1
  MaxFailures = 1
  MaxTaken = 0
PROPERTIES EventuallyFiled
