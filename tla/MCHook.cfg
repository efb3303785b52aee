SPECIFICATION Spec
CONSTANTS
  Fibers = {f1, f2}
  Fds = {1, 2}
  InitDatas = 2
  MaxOpens = 2
  MaxReady = 1
  MaxOptions = 1
  MaxCalls = 2
  EarlyExpiry = TRUE
  UserBlocks = FALSE
  None = None
INVARIANTS OneWake TimeoutHonest ThreadNotHeld CtxOfFile
PROPERTY SleepReturns
CHECK_DEADLOCK FALSE
