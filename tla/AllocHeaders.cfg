CONSTANTS
  Block = {b1, b2}
  AdditionalSize = 2
  PageSize = 8
  Size = {0, 1, 3, 5}
  Alignment = {1, 2, 4, 8}
  Start = {0, 2, 3, 4, 8}
  None = None
SPECIFICATION Spec
INVARIANTS
  RegionAndHeaderAgree
  ReadyMeansAccounted
PROPERTIES
  ReallocKeepsBytes
