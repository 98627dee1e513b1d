SPECIFICATION FairSpec
CONSTANTS
  Cols = 2
  Rows = 2
  ZNodes <- NoSet
  FifoDepth = 3
  RxDepth = 3
  WireDepth = 2
  Id = {1, 2, 3}
  NullId = 0
  None = None
  Workload <- ServiceWorkload
  Boards <- Nowhere
  Readers <- Node
  Snoopers <- NoSet
  Floating <- NoSet
  Garble <- NoSet
  Lossy = FALSE
INVARIANT InOrderOnce
PROPERTIES
  ImplementsService
  XmitAccepted
  EventuallyReceived
CHECK_DEADLOCK FALSE
