SPECIFICATION Spec
CONSTANTS
  Runs = {r1}
  Drivers = {d1, d2, d3, d4}
  Invoices = {full, bare}
  Fingerprints = {full, bare}
  FingerprintOf <- OwnFingerprint
  References = {refA}
  ReferenceOf <- SharedReference
  TheReference = refA
  Named = {full}
  Numbered = {full}
  Overlong = {}
  Balanced = {full, bare}
  MaxAttempts = 2
  Crashes = TRUE
  ErpFaulty = TRUE
  StatusLossy = TRUE
  Overlap = FALSE
  NoInvoice = NoInvoice
  NoRun = NoRun
  Free = Free
  Manual = Manual
CHECK_DEADLOCK FALSE
SYMMETRY Interchangeable
INVARIANTS
  RejectedMeansUnpaid
PROPERTIES
  SettledStaysSettled
