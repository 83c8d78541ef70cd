SPECIFICATION Spec
CONSTANTS
  s1 = s1
  s2 = s2
  None = None
  Genesis = 0
  Line <- MCLine
  BlockWeight <- MCBlockWeight
  WorkOf <- MCWorkOf
  Op <- MCOp
  Spends <- MCSpends
  Needs <- MCNeeds
  LowFee = {}
  OpsOf <- MCOpsOf
  Size <- MCSize
  MaxPool = 2
  MaxBytes = 2
  MaxRefusals = 1
  Session = {s1, s2}
  PeerTip = {6, 7, 8}
  Relayed = {1, 2, 3, 4}
  Offered = {}
  Mined = {}
  Submitted = {}
  JournalBlocks = 2
  SnapshotInterval = 2
  MaxInvalid = 1
  MaxBlockOps = 1
  MinimumWork = 0
  MinimumWeight = 0
INVARIANTS
  CacheMatchesDisk
  ReceiptsAvailable
  SnapshotsOnChain
  OnlyInvalidRemembered
PROPERTIES
  ImplementsCanonicalChain
