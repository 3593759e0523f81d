SPECIFICATION FairSpec
CONSTANTS
  r1 = r1
  r2 = r2
  Runs = {r1, r2}
  Workers = {w1, w2}
  Pages <- FullAndEmpty
  PageBatches = 1
  MaxCancels = 1
  MaxLosses = 1
  MaxErrors = 1
  None = None
INVARIANTS
  TypeOK
  ReadersSeeAWholeReport
  OnlyPromotedReportsShow
  ResumedWritesAreComplete
PROPERTIES
  JanitorSparesPublishedTabs
  PublishesOnce
  EveryRunEnds
CHECK_DEADLOCK FALSE
