SPECIFICATION Spec
CONSTANTS
  FirstTemp = 3
  LastTemp = 10
  MaxRegStack = 13
  Junk = 0
  Programs <- MixedDeep
  MaxNodes = 11
  MaxDepth = 11
  MaxCallDepth = 1
INVARIANTS NoFatal LiveInPlace TempsInRegisters AllReleased
CHECK_DEADLOCK FALSE
