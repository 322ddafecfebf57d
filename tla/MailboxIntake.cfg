SPECIFICATION FairMailSpec
CONSTANTS
  p1 = p1
  p2 = p2
  d1 = d1
  m1 = m1
  m2 = m2
  m3 = m3
  NoAppend = NoAppend
  Runs <- RunsOfPair
  Polls <- Pair
  Decisions <- OneDecision
  Writers <- PairAndDecision
  Messages <- ThreeMessages
  Inbox <- BareBetween
  Names <- OneBare
  MessageId <- OwnIds
  Providers <- AllProviders
  MaxAttachments = 2
  Limit = 2
  Mortal <- FirstDies
  MaxFaults = 1
CHECK_DEADLOCK FALSE
INVARIANTS
  MarkedIsAccountedFor
  ReceiptFirst
  NoReprocessing
  SequencesDense
  WriterOrdered
PROPERTIES
  BatchIsSettled
