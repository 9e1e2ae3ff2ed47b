SPECIFICATION StreamFairSpec
CONSTANTS
  worker = worker
  Confirmation = Confirmation
  Syncers = {worker}
  MaxDeposits = 3
  MaxDrops = 6
  MaxStarts = 2
  AuthorityBytes = 9
INVARIANT StreamTypeOK
INVARIANT NewestFirst
INVARIANT HealthyMeansRecorded
PROPERTY PollingCatchesUp
PROPERTY StreamingCatchesUp
CHECK_DEADLOCK FALSE
