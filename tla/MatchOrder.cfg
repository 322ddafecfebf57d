SPECIFICATION Spec
CONSTANTS
  Invoices <- AllInvoices
  Positions <- FivePositions
  OrderLine <- FiveLines
  Similarity <- Texts
  Receipted <- ThirdShort
  Order <- Goods
  Tolerance <- LooseQuantity
  Scale = 100
  Threshold = 75
  MaxInvoices = 1
  None = None
CHECK_DEADLOCK FALSE
INVARIANTS
  BilledWithinReceipt
  NamedLinesArePaired
  LeakageBounded
