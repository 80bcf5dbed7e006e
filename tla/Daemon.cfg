SPECIFICATION FairSpec
CONSTANTS
  Raws <- MCRaws
  PresentValues <- MCPresentValues
  AwayValues <- MCAwayValues
  BufferLength = 2
  ChannelCap = 2
  Faults = {"discover", "open", "length", "cleanup", "read", "dbus", "sigterm", "kill"}
INVARIANTS
  TypeOK
  AnnouncedIsState
  AnnouncedIsMapped
  ReaderEndIsHeard
  CleanExit
  NewestSampleKept
  FlowsAdvance
PROPERTIES
  ImplementsPresence
  StopCompletes
  StateFollowsSensor
