SPECIFICATION FairSpec
CONSTANTS
  Timers = {1}
  Workers = {w1, w2}
  Callers = {c1}
  Delays = {1}
  Hour = 1
  Wrap = 1000
  Boot = 2
  MaxNow = 3
  ClockSets = {0}
PROPERTIES EventuallyListed
CHECK_DEADLOCK FALSE
