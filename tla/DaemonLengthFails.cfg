SPECIFICATION Spec
CONSTANTS
  Raws <- MCRaws
  PresentValues <- MCPresentValues
  AwayValues <- MCAwayValues
  BufferLength = 2
  ChannelCap = 1
  Faults = {"length"}
INVARIANTS
  LeavesSysfsClean
