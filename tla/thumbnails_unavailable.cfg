\* The S3 variables are not set.
CONSTANTS
  p1 = p1
  t1 = t1
  s1 = s1
  s2 = s2
  a = a
  b = b
  c = c
  Requests = {a, b}
  Problems = {p1}
  OldTests <- OneOld
  Seeded <- TwoSeeds
  FirstSeeded <- OneSeed
  Limit = 2
  Configured = FALSE
  None = None
SPECIFICATION Spec
INVARIANTS
  UploadSaysUnavailable
CHECK_DEADLOCK FALSE
