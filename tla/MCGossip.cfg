SPECIFICATION Spec
CONSTANTS
  Genesis = 0
  Line <- MCLine
  BlockWeight <- MCBlockWeight
  WorkOf <- MCWorkOf
  Op = {"d", "x", "y", "z"}
  CoinOf <- MCCoinOf
  Needs <- MCNeeds
  Deploys = {"d"}
  Size <- MCSize
  MaxPool = 3
  MaxBytes = 3
  OpsIn <- MCOpsIn
  Executes <- MCExecutes
  Floors <- MCFloors
  MaxItems = 1
  MaxBlocks = 1
  MaxEarly = 2
  MaxDepth = 1
  MaxMoves = 2
INVARIANTS
  FailsOnlyByRace
  MutualWaitOnlyBelowMinimum
PROPERTIES
  TipsConverge
