SPECIFICATION CodeSpec
CONSTANTS
  Int64 <- MCInt64
  MaxStackItems = 2
  MaxMemoryPages = 1
  Limits <- MCLimits
  FuelLimits <- MCFuel
  MaxBody = 5
CHECK_DEADLOCK FALSE
INVARIANTS
  NoPanic
