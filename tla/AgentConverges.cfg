SPECIFICATION SteadyFairSpec
CONSTANTS
  Policies <- BriefPolicies
  ScreenOffSupported = FALSE
  Faults = {"daemon", "monitor"}
  MaxQueue = 2
PROPERTIES
  KeepsUp
  ViewConverges
