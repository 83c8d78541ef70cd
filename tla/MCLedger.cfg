CONSTANTS
  a = a
  b = b
  P = P
  Absent = Absent
  NoSnapshot = NoSnapshot
  Owner = {a, b, P}
  Miner = {a, b}
  AssetKey = {"gold"}
  Operation <- MCOperation
  CoinUtxoStateWeight = 1
  BlockEmissionStart = 20
  EmissionRisingSteps = 0
  EmissionHalvingsToTail = 1
  EmissionInterval = 1
  MinerProtocolBurn = 1
  MaxZeno = 200
  MaxHeight = 2
  MaxBlockOps = 2
SPECIFICATION Spec
INVARIANTS
  SupplyBalanced
  OwnerIndexAgrees
  ValidatedOpsApply
  BlocksAccounted
  RollbackNeverRefused
  StateMatchesTip
  SnapshotRestorable
  NoDoubleSpend
