SPECIFICATION FairSpec
CONSTANTS
  Versions = {"wayland"}
  MaxLen = 1
  MaxSamples = 2
  MaxSessions = 1
  MaxInterrupts = 0
PROPERTY LogsAll
CHECK_DEADLOCK FALSE
