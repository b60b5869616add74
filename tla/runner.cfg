\* Two testcases; the limit is one tick, the outer deadline one more; a
\* buffer holds one byte, which is what the wrapper's markers take.
CONSTANTS
  MaxTests = 2
  Asked <- Limits
  DefaultTime = 1
  MaxTime = 1
  Grace = 1
  OutputLimit = 1
  MarkerSize = 1
  Chunks = {1, 2}
  Codes = {0, 1, 125}
  DockerCodes = {1, 125}
SPECIFICATION FairSpec
INVARIANTS
  RunnerTypeOK
  NoCreditForCutOutput
  StartupNotCharged
  ContainerGone
  FullScoreIfAccepted
  RetriedIfNothingRan
PROPERTIES
  RunReturns
CHECK_DEADLOCK FALSE
