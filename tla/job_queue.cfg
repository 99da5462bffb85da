CONSTANTS
  Worker = {w1, w2}
  Concurrency = 1
  MaxJob = 2
  MaxAttempts = 2
  MaxFaults = 2
SPECIFICATION FairSpec
INVARIANTS TypeOK DeadIsSpent
PROPERTIES ClaimsAreFree EveryJobEnds
CHECK_DEADLOCK FALSE
