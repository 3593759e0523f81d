SPECIFICATION FairSpec
CONSTANTS
  c1 = c1
  c2 = c2
  Calls = {c1, c2}
  Caller <- SameCaller
  Start <- InTurn
  Identified = {c1}
  Runs = {r1, r2}
  Hooks = {h1}
  Overlap = 1
  Rolling = 0
  Lookback = 1
  PageLimit = 2
  MaxTries = 1
  MaxTime = 1
  Budget = 2
  None = None
  Lost = Lost
INVARIANTS
  TypeOK
  NoCallIsPassed
  OneLeadPerCall
  DuplicatesFollowAPaidLead
PROPERTIES
  WindowsJoin
  ResultsMoveForward
  KeepsTheLedger
  EveryCallBecomesALead
  ResultsCatchUp
CHECK_DEADLOCK FALSE
