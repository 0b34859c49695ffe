CONSTANTS
  Threads = {t1, t2}
  Worker = w
  None = None
SPECIFICATION Spec
SYMMETRY Symmetry
INVARIANTS
  ChildIsIntact
  NoCircularWait
CHECK_DEADLOCK FALSE
