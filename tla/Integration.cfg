SPECIFICATION ManagerSpec
CONSTANTS
  Tasks = {t1, t2}
  NoopTasks = {t2}
  Branches = {main, topic}
  MaxEpoch = 1
  MaxTries = 2
  MaxFaults = 1
INVARIANTS
  AnchoredUntilPublished
  CompletePublished
PROPERTIES
  PublishKeepsCommits
  PublishedNotBlocked
  OwnerWorkKept
  CompleteInSync
CHECK_DEADLOCK FALSE
