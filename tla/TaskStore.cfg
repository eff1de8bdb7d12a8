SPECIFICATION Spec
CONSTANTS
  Tasks = {t1}
  MaxEpoch = 3
INVARIANTS
  SettledQuiescent
  OnlyCurrentAttemptOpen
  IntegrationBacked
PROPERTIES
  FencingIrreversible
  FencedAttemptCannotAdvance
CHECK_DEADLOCK FALSE
