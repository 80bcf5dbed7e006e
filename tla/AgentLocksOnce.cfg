SPECIFICATION SteadyFairSpec
CONSTANTS
  Policies <- OnlyLockAndWake
  ScreenOffSupported = FALSE
  Faults = {}
  MaxQueue = 1
PROPERTIES
  AbsenceLocks
