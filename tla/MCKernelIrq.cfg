CONSTANTS
  MaxTraps = 3
  MaxHandlers = 2
  FifoSize = 3
  Threshold = 2
  MaxBuf = 5
  MaxRx = 2
  Lines <- MCLines
  EdgeLines <- MCEdgeLines
  Loads <- MCLoads
SPECIFICATION Spec
INVARIANTS
  TypeOK
  ClassifiesTraps
  RestartJustified
  NoLostEdge
PROPERTIES
  ReturnsAsTrapped
  TxMoves
  GpioServed
