SPECIFICATION Spec
CONSTANTS
  Callers = {c1, c2}
  NoCaller = NoCaller
  Leftover = {"stopped"}
  Retries = 1
  Keywords = {"start", "get", "stream_on", "stream_off", "collect", "reset"}
  MaxCalls = 2
SYMMETRY Symmetry
INVARIANT TypeOK
INVARIANT CleanAnswer
INVARIANT AnsweredIsExecuted
INVARIANT InCallOrder
CHECK_DEADLOCK FALSE
