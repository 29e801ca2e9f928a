CONSTANTS
  N = 3
  Weight <- MCWeight
  RoundCandidates = 1
  MaxRoundAttempts = 1
  MaxAtt = 2
  Starts <- MCStarts
SPECIFICATION Spec
INVARIANTS Agreement ChecksHold MergeIsJoin NothingImplicit PrecommitLocks
VIEW View
CHECK_DEADLOCK FALSE
