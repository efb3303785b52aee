SPECIFICATION Spec
CONSTANTS
  Workers = {w1, w2}
  Main = main
  UseCaller = FALSE
  Cbs = {a, b}
  Fibers = {f1, f2}
  MaxYields = 2
  Switches = {"ready", "hold"}
  WakeEarly = TRUE
  Pins = {}
  None = None
SYMMETRY Symmetry
INVARIANTS TypeOK ActiveExact
CHECK_DEADLOCK FALSE
