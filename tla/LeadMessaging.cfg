SPECIFICATION FairSpec
CONSTANTS
  Messages = {m1}
  Workers = {w1, w2, w3}
  MaxAttempts = 2
  MaxManual = 1
  DrainLimit = 2
  Reported = {"sent", "delivered", "read", "failed"}
  MaxFaults = 3
  None = None
INVARIANTS
  TypeOK
  AtMostOneText
PROPERTIES
  KeepsItsPromise
  FinalStatusesStay
  NothingStaysInFlight
