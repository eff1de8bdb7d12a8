SPECIFICATION FairRuntimeSpec
CONSTANTS
  Tasks = {t1}
  MaxEpoch = 3
  MaxAttempts = 2
  MaxFaults = 3
  RunnerRecovers = TRUE
INVARIANTS
  WorkspaceHeld
  NoSecondWriter
  AcceptedCancelWins
PROPERTIES
  ImplementsExclusiveWriter
  RunnerEnds
  OrphanSettled
  CancelDuringRunHonoured
CHECK_DEADLOCK FALSE
