CONSTANTS
  Threads = {t1, t2}
  Blocks = {b1}
  MaxTrackers = 2
  ExitingThreadsTracker = ExitingThreadsTracker
  NoTracker = NoTracker
SPECIFICATION FairSpec
PROPERTIES
  EventuallyReported
  CallsReturn
  StopTerminates
CHECK_DEADLOCK FALSE
