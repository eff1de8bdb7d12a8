SPECIFICATION FairSpec
CONSTANTS
  Commands = {c1, c2}
  Tasks = {a, b}
  Processes = {p, q}
  Workspaces = {2}
  Shared = {1}
  MaxRuns = 2
  MaxFaults = 1
  none = none
INVARIANTS
  GrantsHeld
  CleanReturn
PROPERTY CallsReturn
CHECK_DEADLOCK FALSE
