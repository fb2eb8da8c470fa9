SPECIFICATION Spec
CONSTANTS
  Kinds = {"list", "cursor"}
  Rows = 3
  PartSize = 2
  Threads = {1, 2}
  MaxCalls = 3
INVARIANTS LoadIsKnown NothingForgotten WishIsKept
PROPERTIES PageFits FillsAgain
CHECK_DEADLOCK FALSE
