SPECIFICATION FairSpec
CONSTANTS
  Raws <- MCRaws
  PresentValues <- MCPresentValues
  AwayValues <- MCAwayValues
  BufferLength = 2
  ChannelCap = 1
  Faults = {"sigterm"}
PROPERTIES
  SigtermStops
