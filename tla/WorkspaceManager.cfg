SPECIFICATION FairManagerSpec
CONSTANTS
  Tasks = {t1}
  MaxEpoch = 2
  MaxWork = 2
  MaxCheckpoints = 2
  MaxFaults = 2
INVARIANTS
  WorkKept
  CheckpointTruth
PROPERTIES
  CheckpointSettles
  RefsReleased
CHECK_DEADLOCK FALSE
