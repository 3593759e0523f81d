SPECIFICATION Spec
CONSTANTS
  Receipts <- OneReceipt
  Workers = {w1}
  Fields = {f1}
  Values = {"a", "b"}
  Says <- OneSays
  MaxTechnical = 2
  Offsets = 2
  MaxTries = 2
  BornWinners <- EitherWay
  MaxFaults = 1
  MaxEdits = 0
  MaxRequeues = 0
  None = None
SYMMETRY WorkerSymmetry
INVARIANTS
  DeadLettersAreUndecided
CHECK_DEADLOCK FALSE
