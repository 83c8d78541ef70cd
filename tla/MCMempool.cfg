SPECIFICATION Spec
CONSTANTS
  s1 = s1
  a = a
  b = b
  c = c
  d = d
  e = e
  None = None
  Genesis = 0
  Line <- MCLine
  BlockWeight <- MCBlockWeight
  WorkOf <- MCWorkOf
  Op = {a, b, c, d, e}
  Spends <- MCSpends
  Needs <- MCNeeds
  LowFee = {d}
  OpsOf <- MCOpsOf
  Size <- MCSize
  MaxPool = 2
  MaxBytes = 2
  MaxRefusals = 1
  Session = {s1}
  PeerTip = {2, 4}
  Relayed = {}
  Offered = {1, 5}
  Mined = {1, 3}
  Submitted = {a, b, c, e}
  JournalBlocks = 2
  SnapshotInterval = 4
  MaxInvalid = 1
  MaxBlockOps = 1
  MinimumWork = 2
  MinimumWeight = 0
INVARIANTS PoolApplies TemplateFresh RefusalsHold PoolNeverBlocks
PROPERTY NoOperationLost
