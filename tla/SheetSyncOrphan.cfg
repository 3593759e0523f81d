SPECIFICATION Spec
CONSTANTS
  l1 = l1
  b1 = b1
  Leads = {}
  Bookings = {b1}
  LeadOf <- Leadless
  Runs = {r1, r2}
  NumJobs = 3
  MaxVersion = 2
  MaxAttempts = 2
  MaxDisruptions = 0
  CanCrash = FALSE
  None = None
  Lost = Lost
INVARIANT DeletedBookingsHaveNoRow
