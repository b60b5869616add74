\* Two limited requests of one user on one problem and a quiz request of
\* another; a request that failed may be sent again.  One request is allowed in
\* a window of three ticks.
CONSTANTS
  a = a
  b = b
  c = c
  u1 = u1
  u2 = u2
  p1 = p1
  p2 = p2
  e1 = e1
  e2 = e2
  Users = {u1, u2}
  Accts = {u1, u2}
  Requests = {a, b, c}
  ByUser <- Authors
  ForProblem <- Tasks
  EmailOf <- Emails
  File <- OldFile
  Imported = 7
  NoRow = NoRow
  RateLimit = 1
  Window = 3
  Second = 2
  Quiz = {c}
  Scores = {0, 100}
SPECIFICATION FairGatewaySpec
INVARIANTS
  GatewayTypeOK
  BurstBounded
  RetryAfterCovers
  SubmitterKnown
  ImportKept
  BoardsAgree
  AcceptedIsSolved
PROPERTIES
  WindowEnds
