SPECIFICATION Spec
CONSTANTS
  r1 = r1
  r2 = r2
  Runs = {r1}
  Workers = {w1}
  Pages <- OnePage
  PageBatches = 1
  MaxCancels = 0
  MaxLosses = 0
  MaxErrors = 1
  None = None
INVARIANT
  FailedReplacementPreservesTheOldTab
CHECK_DEADLOCK FALSE
