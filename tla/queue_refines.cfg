CONSTANTS
  j1 = j1
  j2 = j2
  w1 = w1
  w2 = w2
  Jobs = {j1}
  Workers = {w1, w2}
  Processes <- OneProcess
  MaxAttempts = 2
  PromoteBatch = 1
  ClaimScan = 1
  SlowJobs <- NoJobs
  Resend = FALSE
  Poison = Poison
  None = None
  Nobody = Nobody
  Orphan = Orphan
  MaxId = 3
  MaxPoison = 1
  MaxFaults = 2
SPECIFICATION FairSpec
PROPERTIES
  DeliverySpec
  EveryJobSettles
  PoisonLeaves
