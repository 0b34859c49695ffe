CONSTANTS
  Threads = {t1, t2}
  Worker = w
  Blocks = {b1, b2, b3}
  Capacity = 2
  NoProc = NoProc
  Callbacks = {c1, c2, c3}
  Drainers = {d1, d2}
  NoCallback = NoCallback
SPECIFICATION MCSpec
INVARIANTS
  OnceOrDropped
  NotLeftBehind
  NoCallbackLost
  SettledWhenDestroyed
PROPERTIES
  CallsReturn
  QueueDrained
  CalledOnce
  EventuallyCalled
CHECK_DEADLOCK FALSE
