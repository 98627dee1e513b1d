SPECIFICATION Spec
CONSTANTS
  Nybbles = 32
  Payload <- Messages
  None = None
  RxDepth = 2
  MaxLate = 1
INVARIANT LinkTypeOK
PROPERTY ImplementsChannel
