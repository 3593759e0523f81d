SPECIFICATION Spec
CONSTANTS
  Receipts <- OneReceipt
  Workers = {w1}
  Fields = {f1}
  Values = {"a", "b"}
  Says <- OneSays
  MaxTechnical = 2
  Offsets = 2
  MaxTries = 2
  BornWinners <- NeverWon
  MaxFaults = 0
  MaxEdits = 1
  MaxRequeues = 0
  None = None
SYMMETRY WorkerSymmetry
INVARIANTS
  AppliedMeansWritten
CHECK_DEADLOCK FALSE
