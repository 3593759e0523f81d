SPECIFICATION Spec
CONSTANTS
  Receipts <- MCReceipts
  Workers = {w1, w2}
  Fields = {f1}
  Values = {"a", "b"}
  Says <- MCSays
  MaxTechnical = 2
  Offsets = 3
  MaxTries = 2
  BornWinners <- EitherWay
  MaxFaults = 1
  MaxEdits = 1
  MaxRequeues = 1
  None = None
SYMMETRY WorkerSymmetry
INVARIANTS
  TypeOK
  MatchAttemptsArePending
  LatestIsTheLastDecision
  ProofsAreGenuine
PROPERTIES
  WinnerMovesForward
  DecidedForGood
  KeepsTheJournal
CHECK_DEADLOCK FALSE
