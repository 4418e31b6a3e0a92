SPECIFICATION FairSpec
CONSTANTS
  Callers = {c1}
  NoCaller = NoCaller
  Leftover = {"streaming"}
  Retries = 1
  Keywords = {"get", "stream_on", "collect", "reset"}
  MaxCalls = 1
INVARIANT AnsweredIsExecuted
PROPERTY CallEnds
CHECK_DEADLOCK FALSE
