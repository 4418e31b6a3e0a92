SPECIFICATION Spec
CONSTANTS
  Callers = {c1}
  NoCaller = NoCaller
  Leftover = {"streaming"}
  Retries = 1
  Keywords = {"start"}
  MaxCalls = 1
INVARIANT ErrorsAreRaised
CHECK_DEADLOCK FALSE
