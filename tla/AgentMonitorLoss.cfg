SPECIFICATION SteadySpec
CONSTANTS
  Policies <- OnlyLockAndWake
  ScreenOffSupported = FALSE
  Faults = {"monitor"}
  MaxQueue = 1
PROPERTIES
  LocksOnlyIdleUser
