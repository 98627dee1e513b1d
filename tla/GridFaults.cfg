SPECIFICATION Spec
CONSTANTS
  Cols = 2
  Rows = 2
  ZNodes <- Corner
  FifoDepth = 1
  RxDepth = 1
  WireDepth = 1
  Id = {1, 2}
  NullId = 0
  None = None
  Workload <- FaultWorkload
  Boards <- FaultBoards
  Readers <- FaultReaders
  Snoopers <- FaultSnoopers
  Floating <- FaultFloating
  Garble <- FaultGarble
INVARIANTS
  TypeOK
  AddressedHere
  DimensionOrder
  HopBudget
CHECK_DEADLOCK FALSE
