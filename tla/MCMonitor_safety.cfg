SPECIFICATION FairSpec
CONSTANTS
  Versions = {"wayland", "script"}
  MaxLen = 2
  MaxSamples = 4
  MaxSessions = 2
  MaxInterrupts = 1
INVARIANT TypeOK
INVARIANT StartFindsNothing
INVARIANT CsvInOrder
INVARIANT CleanExit
PROPERTY CleanupEnds
CHECK_DEADLOCK FALSE
