CONSTANTS
  Threads = {t1, t2}
  Blocks = {b1, b2}
  MaxTrackers = 2
  ExitingThreadsTracker = ExitingThreadsTracker
  NoTracker = NoTracker
SPECIFICATION Spec
SYMMETRY Symmetry
INVARIANTS
  ExactlyOnce
  RegistryInOrder
  TornForOneReport
PROPERTIES
  ImplementsAccounting
CHECK_DEADLOCK FALSE
