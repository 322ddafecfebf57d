SPECIFICATION DocSpec
CONSTANTS
  Printed <- Amounts
  Missing = Missing
  NoEntry = NoEntry
  Vendors <- Master
  Similarity <- Ratios
  Hits <- Index
  NameThreshold = 88
  Answers <- SomeAnswers
  Retries = 2
  Gate = 7500
  Strip <- StripText
  Fold <- FoldText
  NoAnswer = NoAnswer
CHECK_DEADLOCK FALSE
INVARIANTS
  DocTypeOK
  BalancedUnlessTaxNegative
  PrintedFiguresAreBooked
  ClearedOnEvidence
  ReconciledIsBooked
  IdentifierOutranksName
  ReissueMeetsAGate
