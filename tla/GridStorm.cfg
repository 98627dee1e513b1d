SPECIFICATION FairSpec
CONSTANTS
  Cols = 2
  Rows = 2
  ZNodes <- StormZNodes
  FifoDepth = 1
  RxDepth = 3
  WireDepth = 1
  Id = {1}
  NullId = 0
  None = None
  Workload <- StormWorkload
  Boards <- Nowhere
  Readers <- NoSet
  Snoopers <- NoSet
  Floating <- NoSet
  Garble <- NoSet
PROPERTIES
  StormDies
  BroadcastReaches
CHECK_DEADLOCK FALSE
