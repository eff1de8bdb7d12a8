SPECIFICATION FairManagerSpec
CONSTANTS
  Tasks = {t1}
  MaxEpoch = 2
  MaxWork = 1
  MaxCheckpoints = 2
  MaxFaults = 1
PROPERTIES
  CheckpointRecovered
CHECK_DEADLOCK FALSE
