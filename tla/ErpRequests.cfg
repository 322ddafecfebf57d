SPECIFICATION ErpSpec
CONSTANTS
  h1 = h1
  h2 = h2
  h3 = h3
  h4 = h4
  Handlers <- FourRequests
  References <- References2
  Orders <- SeededOrders
  Items <- SeededItems
  Amounts <- Payments
  Original <- SeededAmounts
  NoOrder = NoOrder
  UnknownOrder = UnknownOrder
  UnknownItem = UnknownItem
SYMMETRY Alike
CHECK_DEADLOCK FALSE
INVARIANTS
  NumbersAreUnique
  CashIsConserved
PROPERTIES
  SerialKeepsContract
