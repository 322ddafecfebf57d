SPECIFICATION Spec
CONSTANTS
  Runs = {r1, r2}
  Drivers = {d1, d2, d3}
  Invoices = {full, corrected}
  Fingerprints = {full, corrected}
  FingerprintOf <- OwnFingerprint
  References = {refA}
  ReferenceOf <- SharedReference
  TheReference = refA
  Named = {full, corrected}
  Numbered = {corrected}
  Overlong = {full}
  Balanced = {full}
  MaxAttempts = 1
  Crashes = TRUE
  ErpFaulty = TRUE
  StatusLossy = FALSE
  Overlap = TRUE
  NoInvoice = NoInvoice
  NoRun = NoRun
  Free = Free
  Manual = Manual
CHECK_DEADLOCK FALSE
SYMMETRY Interchangeable
INVARIANTS
  TypeOK
  PaymentAuthorised
  JournalTruthful
  CompletedIsPaid
  StraightThroughUnassisted
  DuplicateGate
PROPERTIES
  ImplementsLedger
