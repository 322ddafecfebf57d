SPECIFICATION FairSpec
CONSTANTS
  r1 = r1
  r2 = r2
  c1 = c1
  c2 = c2
  c3 = c3
  i1 = i1
  i2 = i2
  None = None
  Runs <- TwoRuns
  Calls <- ThreeCalls
  Crashable <- OneCall
  Items <- TwoItems
  OpenAmount <- TenAndSix
  Remittances <- ResumedKinds
  Tolerance = 8
  Cent = 4
  MaxAttempts = 1
  Concurrent = FALSE
  ErpErrors = TRUE
  Timeouts = FALSE
  StatusLossy = FALSE
CHECK_DEADLOCK FALSE
INVARIANTS
  LeakBounded
  CreditedWithinRemittance
PROPERTIES
  RunEnds
  LeftoverQueued
