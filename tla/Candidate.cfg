SPECIFICATION CandidateSpec
CONSTANTS
  Tasks = {t1}
  MaxEpoch = 2
  Paths = {"tests/test_a.py", "main.go"}
  TestPaths = {"tests/test_a.py"}
  ScopePaths = {"tests/test_a.py"}
  MaxWrites = 2
  MaxFaults = 2
  Earlier = t0
  Reseals = TRUE
INVARIANTS LedgerTruth HeadAccounted EvidenceTrue GateSound
CHECK_DEADLOCK FALSE
