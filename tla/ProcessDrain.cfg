CONSTANTS
  DefaultShutdown = 2
  Uint32 = 1073741824
  NotString = NotString
  Requests = {r1, r2}
  Profiles = {p1}
  Files <- MCFiles
  Envs <- MCEnvs
  MaxAge = 2
SPECIFICATION FairSpec
INVARIANTS TypeOK WellConfigured CleanDrain PatientDrain Seeded
PROPERTY Stops
CHECK_DEADLOCK FALSE
