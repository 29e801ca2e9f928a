CONSTANTS
  Seeds = {1, 2, 3}
  Rdata <- MCRdata
  Wallets = {w1}
  Params <- MCParams
  Subwallet = 7
  OwnerMsgs <- MCOwnerMsgs
  Hash <- MCHash
  IntBound = 64
  One = 8
  ExpireWindow = 2
  IdleFactor = 2
  Uint32Max = 1000
  MaxTime = 6
SPECIFICATION Spec
INVARIANTS OneRewardPerSeed OwnerMessageOnce
PROPERTIES LastSuccessMonotone RangeKept StandingProof
CHECK_DEADLOCK FALSE
