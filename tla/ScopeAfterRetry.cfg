SPECIFICATION CandidateSpec
CONSTANTS
  Tasks = {t1}
  MaxEpoch = 2
  Paths = {"README.md", "main.go"}
  TestPaths = {}
  ScopePaths = {"README.md"}
  MaxWrites = 2
  MaxFaults = 0
  Earlier = t0
  Reseals = FALSE
INVARIANTS VerifiedWithinScope
CHECK_DEADLOCK FALSE
