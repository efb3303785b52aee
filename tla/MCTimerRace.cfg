SPECIFICATION Spec
CONSTANTS
  Timers = {1, 2}
  Workers = {w1, w2}
  Callers = {c1}
  Delays = {1, 2}
  Hour = 2
  Wrap = 1000
  Boot = 3
  MaxNow = 4
  ClockSets = {}
SYMMETRY Symmetry
INVARIANTS TypeOK CbIffQueued OneShotOnce FrontAnnounced
CHECK_DEADLOCK FALSE
