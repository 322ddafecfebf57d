SPECIFICATION Spec
CONSTANTS
  Runs = {r1}
  Drivers = {d1, d2, d3}
  Invoices = {full}
  Fingerprints = {full}
  FingerprintOf <- OwnFingerprint
  References = {refA}
  ReferenceOf <- SharedReference
  TheReference = refA
  Named = {full}
  Numbered = {full}
  Overlong = {}
  Balanced = {full}
  MaxAttempts = 1
  Crashes = FALSE
  ErpFaulty = FALSE
  StatusLossy = FALSE
  Overlap = TRUE
  NoInvoice = NoInvoice
  NoRun = NoRun
  Free = Free
  Manual = Manual
CHECK_DEADLOCK FALSE
INVARIANT RejectedMeansUnpaid
