SPECIFICATION FairSpec
CONSTANTS
  l1 = l1
  b1 = b1
  Leads = {l1}
  Bookings = {b1}
  LeadOf <- Attached
  Runs = {r1, r2}
  NumJobs = 3
  MaxVersion = 2
  MaxAttempts = 2
  MaxDisruptions = 1
  CanCrash = TRUE
  None = None
  Lost = Lost
PROPERTY EveryJobIsSettled
