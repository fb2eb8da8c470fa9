SPECIFICATION Spec
CONSTANTS
  Modes = {"none", "in", "out"}
  Source = 7
  Buffer = 4
  Limit = 20
  Slot = 2
  Second = 20
  Measure = 2
  MaxDepth = 4
  Cancels = TRUE
  MaxSlack = 3
INVARIANTS RateIsKept NoByteIsLost CancelStopsCopy
PROPERTIES CopyEnds
CHECK_DEADLOCK FALSE
