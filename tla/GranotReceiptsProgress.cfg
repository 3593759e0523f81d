SPECIFICATION FairSpec
CONSTANTS
  Receipts <- OneReceipt
  Workers = {w1, w2}
  Fields = {f1}
  Values = {"a", "b"}
  Says <- OneSays
  MaxTechnical = 2
  Offsets = 2
  MaxTries = 2
  BornWinners <- EitherWay
  MaxFaults = 2
  MaxEdits = 1
  MaxRequeues = 0
  None = None
PROPERTIES
  EveryReceiptSettles
CHECK_DEADLOCK FALSE
