CONSTANTS
  Frames = {"a", "b", "c"}
  NullFrame = "0"
  MaxUnwindDepth = 7
  SkipFrames = 1
  MaxDepth = 3
  Stride = 2
  External = {t1, t2}
  Inner = inner
  Addresses = {"a", "b", "c", "0"}
  Traces <- MCTraces
  Null = "0"
  Collapse <- MCCollapse
  CompressedSize <- MCCompressedSize
  Capacity = 2
  ElementsCount = 4
  StorageSize = 10
  MaxStacktraceLength = 2
  Flag = 16
  MaxNodes = 15
  MaxSaves = 4
  Trace <- WrittenTrace
  Unresolved = {9}
  Internal = {4, 9}
  Deltas <- WrittenDeltas
  Enabled = {"external", "internal"}
  BySizeCount <- ListedBySize
  ByTotalCount <- ListedByCount
  MaxAccounts = 4
  Stack <- StreamStack
  Unfound = {9}
  InnerIds = {4, 9}
  Localize <- FramesOf
  MemhawkRoot = "memhawk"
  UnknownFrame = "unknown"
  SizeDeltas = {1}
  StartTime = 1
  MaxTime = 3
  MaxSnapshots = 4
  MaxCalls = 3
SPECIFICATION MCSpec
SYMMETRY Symmetry
INVARIANTS
  CollapseCorrect
  PackingCorrect
  IdsResolve
  HoldsTheLatest
  ReportsCorrect
  PathsAndSizes
  ReaderCatchesUp
  FlameCorrect
CHECK_DEADLOCK FALSE
