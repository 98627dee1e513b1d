SPECIFICATION Spec
CONSTANTS
  Cols = 2
  Rows = 2
  ZNodes <- NoSet
  FifoDepth = 1
  RxDepth = 1
  WireDepth = 2
  Id = {1, 2, 3}
  NullId = 0
  None = None
  Workload <- ServiceWorkload
  Boards <- Nowhere
  Readers <- Node
  Snoopers <- NoSet
  Floating <- NoSet
  Garble <- NoSet
  Lossy = TRUE
INVARIANT InOrderOnce
PROPERTY ImplementsService
CHECK_DEADLOCK FALSE
