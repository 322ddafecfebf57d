SPECIFICATION Spec
CONSTANTS
  Invoices <- ExpectedInvoice
  Positions <- FivePositions
  OrderLine <- FiveLines
  Similarity <- Texts
  Receipted <- FullyReceived
  Order <- Goods
  Tolerance <- Limits
  Scale = 100
  Threshold = 75
  MaxInvoices = 2
  None = None
CHECK_DEADLOCK FALSE
INVARIANT OrderBilledOnce
