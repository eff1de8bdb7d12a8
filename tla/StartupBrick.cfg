SPECIFICATION FairRuntimeSpec
CONSTANTS
  Tasks = {t1}
  MaxEpoch = 1
  MaxAttempts = 2
  MaxFaults = 1
  RunnerRecovers = TRUE
PROPERTIES
  StartupCompletes
CHECK_DEADLOCK FALSE
