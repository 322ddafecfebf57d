SPECIFICATION FairSpec
CONSTANTS
  Runs = {r1}
  Drivers = {d1, d2, d3}
  Invoices = {full, lopsided}
  Fingerprints = {full, lopsided}
  FingerprintOf <- OwnFingerprint
  References = {refA}
  ReferenceOf <- SharedReference
  TheReference = refA
  Named = {full, lopsided}
  Numbered = {full, lopsided}
  Overlong = {}
  Balanced = {full}
  MaxAttempts = 1
  Crashes = FALSE
  ErpFaulty = FALSE
  StatusLossy = FALSE
  Overlap = FALSE
  NoInvoice = NoInvoice
  NoRun = NoRun
  Free = Free
  Manual = Manual
CHECK_DEADLOCK FALSE
INVARIANTS
  PaidIsNotPending
PROPERTIES
  DecisionTakesEffect
  RunSettles
  PostingIsRecorded
