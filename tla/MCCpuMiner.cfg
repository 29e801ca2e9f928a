CONSTANTS
  Threads = {t1, t2}
  Base = 2
  RdataLen = 4
  GuardPos = 2
  CheckPeriod = 3
  MaxIterations = 7
  Starts <- MCStarts
  Hash <- MCHash
  Complexity = 6
  Deadline = 2
  ExpireIn = 2
  MaxTime = 2
  None = None
SPECIFICATION Spec
INVARIANTS FoundIsProof HashesAccounted StopsSoon
PROPERTIES ImplementsMinerRun
CHECK_DEADLOCK FALSE
