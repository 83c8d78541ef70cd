SPECIFICATION Spec
CONSTANTS
  WbdaWindow = 2
  TargetWeight = 2
  MaxBlockSize = 4
  TargetBitsStart = 67174399
  HashSpace = 1073741824
  MaxWork = 1000000
  MaxWeight = 1000000
  Genesis = 100
  Line <- LineOf
  BlockWeight <- WeightOf
  WorkOf <- WorkOfBlock
  Bits <- BitsOf
  CheckpointInterval = 3
  MaxChunk = 3
  DenseLocator = 2
  MaxLocator = 5
  MaxSyncHeaders = 8
  MinimumWork = 100
  MinimumWeight = 2
  WithoutPow = {61}
  LocalTip = {11, 13, 16, 19, 24, 28, 33, 35}
  Offer <- Offers
  None = None
INVARIANTS
  CacheFollowsChain
  StateIndependentOfChunks
  ValidPeerNotRefused
  BranchAttaches
  PreferenceFollowsForkChoice
PROPERTIES
  SessionEnds
