SPECIFICATION SchedulerSpec
CONSTANTS
  TaskRows = {1, 2, 3}
  Projects = {1, 2}
  Ranks = {0, 1}
  AgingInterval = 1
  MaxWord = 7
  Free = {3, 6}
  Used = {1}
  MinFree = 1
  MaxMARDisk = 6
  WorkspaceBytes = 2
  ExecutionBytes = 3
  MaxTime = 4
  MaxFaults = 1
  none = none
INVARIANT FairTurns
PROPERTY AdmissionSound
CHECK_DEADLOCK FALSE
