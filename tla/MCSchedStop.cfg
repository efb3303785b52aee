SPECIFICATION FairSpec
CONSTANTS
  Workers = {w1, w2}
  Main = main
  UseCaller = TRUE
  Cbs = {a, b}
  Fibers = {f1, f2}
  MaxYields = 1
  Switches = {"ready"}
  WakeEarly = FALSE
  Pins = {"self"}
  None = None
INVARIANTS NoDoubleRun NoAbort DrainedAtStop
PROPERTIES StopReturns EveryCbEnds
