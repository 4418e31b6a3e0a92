SPECIFICATION Spec
CONSTANTS
  ParamUnit = 100
  Plants <- TamePlants
  VmaxVals = {3300, 12000}
  Raws <- AdcRaws
  Captures <- PwmCaptures
  MaxSteps = 24
  MaxChanges = 2
INVARIANT TypeOK
INVARIANT SaneResponse
INVARIANT Settles
INVARIANT Printed
PROPERTY Rises
PROPERTY ThirdOrder
