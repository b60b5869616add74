\* Three overlapping requests on one problem, of which two testcases may
\* exist at most; cmd/seed_uas may insert two on top of those.
CONSTANTS
  p1 = p1
  t1 = t1
  s1 = s1
  s2 = s2
  a = a
  b = b
  c = c
  Requests = {a, b, c}
  Problems = {p1}
  OldTests <- OneOld
  Seeded <- TwoSeeds
  FirstSeeded <- OneSeed
  Limit = 2
  Configured = TRUE
  None = None
SPECIFICATION FairSpec
INVARIANTS
  CatalogueTypeOK
  WithinLimit
  ThumbnailStored
  NothingLeaks
PROPERTIES
  RowUnlocked
CHECK_DEADLOCK FALSE
