SPECIFICATION FairSpec
CONSTANTS
  Policies = {live, disabled, dry}
  Enabled = {live, dry}
  Invalid = Invalid
  System = dry
  Defaults = dry
  Absent = Absent
  Torn = Torn
  TypedIn = {live, Invalid}
  MaxLosses = 1
  Faults = {"io", "crash", "limit"}
INVARIANTS
  TypeOK
  FileIsLoadable
  AppliedPolicyRuns
  CleanFormIsSaved
PROPERTIES
  ReplacesAtomically
  AppliedPolicyStarts
  OperationsEnd
CHECK_DEADLOCK FALSE
