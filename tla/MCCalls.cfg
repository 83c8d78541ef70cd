SPECIFICATION Spec
CONSTANTS
  Application = {"p", "q"}
  Legacy = {"l"}
  Outside = "s"
  Key = {"k"}
  Value = {"v"}
  Scalar = {1, 2}
  Amount = {1, 3}
  FirstCoins <- MCFirstCoins
  MAX_CALL_DEPTH = 3
  MAX_CALLS = 3
  MAX_ACTIONS = 3
  MAX_TRANSFER_INPUTS = 2
  MaxDone = 1
INVARIANTS
  RollbackRestores
PROPERTIES
  WaitingUntouched
