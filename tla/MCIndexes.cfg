SPECIFICATION IndexSpec
CONSTANTS
  Chain <- MCChain
  Weight <- MCWeight
  Content <- MCContent
  Reader = {r1, r2}
  Wanted = {"a", "t", "u"}
  Resident = 1
SYMMETRY MCReaders
INVARIANTS
  RefusedOnlyByOtherBranch
  WrongOnlyByRace
