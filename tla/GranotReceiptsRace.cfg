SPECIFICATION Spec
CONSTANTS
  Receipts <- MCReceipts
  Workers = {w1, w2}
  Fields = {f1}
  Values = {"a", "b"}
  Says <- MCSays
  MaxTechnical = 2
  Offsets = 2
  MaxTries = 2
  BornWinners <- WonBefore
  MaxFaults = 0
  MaxEdits = 0
  MaxRequeues = 0
  None = None
SYMMETRY WorkerSymmetry
PROPERTIES
  WinnersAreCurrent
CHECK_DEADLOCK FALSE
