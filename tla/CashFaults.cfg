SPECIFICATION Spec
CONSTANTS
  r1 = r1
  r2 = r2
  c1 = c1
  c2 = c2
  c3 = c3
  i1 = i1
  i2 = i2
  None = None
  Runs <- TwoRuns
  Calls <- TwoCalls
  Crashable <- TwoCalls
  Items <- TwoItems
  OpenAmount <- TenAndSix
  Remittances <- SomeKinds
  Tolerance = 8
  Cent = 4
  MaxAttempts = 2
  Concurrent = TRUE
  ErpErrors = TRUE
  Timeouts = TRUE
  StatusLossy = TRUE
CHECK_DEADLOCK FALSE
SYMMETRY AnonymousPair
INVARIANTS
  RowsBackedByErp
  WaitingIsQueued
