SPECIFICATION FairSpec
CONSTANTS
  keyboard = keyboard
  touchpad = touchpad
  button = button
  Paths = {"event0", "event1"}
  Devices <- MCDevices
  Supports <- MCSupports
  None = None
  MaxFailures = 1
  Faults = {"inotify", "stream"}
INVARIANTS
  TypeOK
  TasksAreKept
PROPERTIES
  DevicesGetWatched
  InputIsForwarded
CHECK_DEADLOCK FALSE
