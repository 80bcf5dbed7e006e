SPECIFICATION FairSpec
CONSTANTS
  Policies <- OnlyLockAndWake
  ScreenOffSupported = FALSE
  Faults = {"crash"}
  MaxQueue = 1
PROPERTIES
  RestartKeepsReturnWake
