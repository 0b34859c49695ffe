CONSTANTS
  Threads = {t1}
  Blocks = {b1}
  MaxTrackers = 1
  ExitingThreadsTracker = ExitingThreadsTracker
  NoTracker = NoTracker
SPECIFICATION Spec
INVARIANT NoMissedEvents
CHECK_DEADLOCK FALSE
