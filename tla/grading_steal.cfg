CONSTANTS
  w1 = w1
  w2 = w2
  r1 = r1
  r2 = r2
  r3 = r3
  u1 = u1
  u2 = u2
  k1 = k1
  Jobs = {r1}
  Workers = {w1, w2}
  Processes <- TwoProcesses
  MaxAttempts = 1
  PromoteBatch = 1
  ClaimScan = 1
  SlowJobs = {r1}
  Resend = TRUE
  Poison = Poison
  None = None
  Nobody = Nobody
  Orphan = Orphan
  MaxId = 3
  MaxPoison = 0
  MaxFaults = 1
  Users = {u1}
  UserOf <- OneUser
  KeyOf <- NoKeys
  NoKey = NoKey
  ServedBy <- FirstServes
  Scores = {0, 100}
  Absent = Absent
SPECIFICATION GradingSpec
INVARIANTS
  VerdictBacked
  NoJobLost
  NothingStranded
PROPERTIES
  TablesKept
