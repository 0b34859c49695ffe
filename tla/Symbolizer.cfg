CONSTANTS
  Tables = 2
  Capacity = 1
  MaxSnapshots = 3
  MaxTime = 2
  MaxRuns = 3
  NoState = NoState
  Addrs = {"a", "b", "c"}
  Names = {"f", "g", "h"}
  Traces <- GraphTraces
  InnerTraces <- MemhawkTraces
  Symbolize <- NamesOf
  Unknown = Unknown
  Diffs <- GraphDiffs
  MaxSteps = 5
  TagSize = 2
  MaxSize = 3
  MaxMessages = 3
SPECIFICATION MCSpec
INVARIANTS
  SavedIsStored
  AtMostOnce
  SkippedOnlyIfOlder
  YieldsThePrefix
  GraphCorrect
  TablesCorrect
PROPERTIES
  RunsEnd
  PlainReadsAll
  CompleteIsRead
CHECK_DEADLOCK FALSE
