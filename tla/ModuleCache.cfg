CONSTANTS
  Thread = {t1, t2}
  Lib = {l1, l2}
  Unsegmented = {l2}
  Base = {b1, b2}
  NotLoaded = NotLoaded
  MaxOps = 3
  MaxLists = 6
SPECIFICATION FairCacheSpec
INVARIANTS
  ListIsCurrent
  EntriesAreExplained
PROPERTIES
  EventuallyListed
CHECK_DEADLOCK FALSE
