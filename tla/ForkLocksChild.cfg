CONSTANTS
  Threads = {t1, t2}
  Worker = w
  None = None
SPECIFICATION Spec
INVARIANT
  ChildCanStop
CHECK_DEADLOCK FALSE
