SPECIFICATION CycleSpec
CONSTANTS
  Policies <- AllPolicies
  ScreenOffSupported = TRUE
  Faults = {"crash", "bus", "replyLost", "monitor", "daemon"}
  MaxQueue = 1
INVARIANTS
  TypeOK
  DeadlineCoherence
  OwnershipDurable
  HpdLockRecorded
  WakeIsAuthorised
  ActsWithinPolicy
  NoWakeInCompletedCycle
  ManualWakeNeedsRest
  OwedWakeIsDue
PROPERTIES
  DecidesAsSimulated
  FollowsOwnership
  LockDecidedIdle
