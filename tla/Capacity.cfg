SPECIFICATION FairSpec
CONSTANTS
  Tasks = {t1, t2, t3}
  MaxConcurrentWorkers = 1
  MaxHeavyJobs = 1
  MaxRuns = 1
INVARIANTS
  SlotsBounded
  ClaimsAccounted
  WorkClaimed
  MaintenanceAlone
PROPERTY
  Drains
CHECK_DEADLOCK FALSE
