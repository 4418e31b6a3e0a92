SPECIFICATION Spec
CONSTANTS
  ParamUnit = 10000
  Plants <- TestPlants
  VmaxVals = {500}
  Raws <- LowRaws
  Captures <- PwmCaptures
  MaxSteps = 1
  MaxChanges = 0
INVARIANT NeverNegative
