SPECIFICATION Spec
CONSTANTS
  Versions = {"script"}
  MaxLen = 1
  MaxSamples = 1
  MaxSessions = 1
  MaxInterrupts = 0
INVARIANT StoppedIsStarted
CHECK_DEADLOCK FALSE
