SPECIFICATION Spec
CONSTANTS
  Callers = {c1}
  NoCaller = NoCaller
  Leftover = {"running"}
  Retries = 1
  Keywords = {"get"}
  MaxCalls = 1
INVARIANT AnswerIsOwn
CHECK_DEADLOCK FALSE
