CONSTANTS
  j1 = j1
  j2 = j2
  w1 = w1
  w2 = w2
  Jobs = {j1, j2}
  Workers = {w1, w2}
  Processes <- TwoProcesses
  MaxAttempts = 2
  PromoteBatch = 1
  ClaimScan = 1
  SlowJobs <- NoJobs
  Resend = FALSE
  Poison = Poison
  None = None
  Nobody = Nobody
  Orphan = Orphan
  MaxId = 4
  MaxPoison = 0
  MaxFaults = 3
SPECIFICATION Spec
SYMMETRY QueueSymmetry
INVARIANTS
  TypeOK
  SingleCopy
  NoEarlyBurial
  BoundedRuns
  ExclusiveHandling
