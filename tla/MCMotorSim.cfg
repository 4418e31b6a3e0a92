SPECIFICATION FairSpec
CONSTANTS
  Pins = {"PA1", "PB3"}
  VmaxVals = {3300}
  ParamSets = {"default", "p1"}
  MaxTicks = 2
INVARIANT TypeOK
INVARIANT ClockAccuracy
INVARIANT StopDrains
INVARIANT PlantMatchesClock
INVARIANT SolverSetUp
INVARIANT ConfigurationWhole
INVARIANT SnapshotOrder
PROPERTY NoStrayLine
PROPERTY ImplementsPlantRun
PROPERTY VoltageFresh
PROPERTY Progress
