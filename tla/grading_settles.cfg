CONSTANTS
  w1 = w1
  w2 = w2
  r1 = r1
  r2 = r2
  r3 = r3
  u1 = u1
  u2 = u2
  k1 = k1
  Jobs = {r1, r2}
  Workers = {w1}
  Processes <- OneWorker
  MaxAttempts = 2
  PromoteBatch = 1
  ClaimScan = 1
  SlowJobs <- NoJobs
  Resend = FALSE
  Poison = Poison
  None = None
  Nobody = Nobody
  Orphan = Orphan
  MaxId = 4
  MaxPoison = 0
  MaxFaults = 0
  Users = {u1}
  UserOf <- OneUser
  KeyOf <- FirstKeyed
  NoKey = NoKey
  ServedBy <- FirstServes
  Scores = {0}
  Absent = Absent
SPECIFICATION FairGradingSpec
PROPERTIES
  AcceptedSettles
