SPECIFICATION Spec
CONSTANTS
  Workers = {w1, w2}
  Main = main
  UseCaller = FALSE
  Cbs = {a}
  Fibers = {f1}
  MaxYields = 2
  Switches = {"ready", "hold"}
  WakeEarly = TRUE
  Pins = {}
  None = None
INVARIANTS AddEventInExec
CHECK_DEADLOCK FALSE
