SPECIFICATION FairSpec
CONSTANTS
  Policies <- OnlyLockAndBlank
  ScreenOffSupported = TRUE
  Faults = {"crash", "bus", "daemon", "sigterm"}
  MaxQueue = 1
PROPERTIES
  ReadyAbsenceLocks
  SeenReturnWakes
