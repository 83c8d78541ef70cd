SPECIFICATION TreeSpec
CONSTANTS
  WbdaWindow = 2
  TargetWeight = 2
  MaxBlockSize = 4
  TargetBitsStart = 67174399
  HashSpace = 1073741824
  MaxWork = 100000
  MaxWeight = 1000
  Candidate <- Offered
  ExpectedGenesis = 50
  GenesisBits = 0
  NoHash = NoHash
CHECK_DEADLOCK FALSE
INVARIANTS
  TipIndependentOfArrival
  BitsFollowOwnBranch
  ReorgPlanConnects
