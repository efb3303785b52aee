SPECIFICATION Spec
CONSTANTS
  Tasks = {t1, t2, t3}
  Dispatchers = {d1}
  Fds = {2, 4}
  InitSize = 2
  MaxAllocs = 1
  None = None
SYMMETRY Symmetry
INVARIANTS TypeOK PendingExact ExactlyOneWake KernelAgrees
CHECK_DEADLOCK FALSE
