SPECIFICATION Spec
CONSTANTS
  Depth = 2
  Width = 2
  MaxCounter = 5
INVARIANTS
  TypeOK
  FreshLatch
PROPERTIES
  Linearizable
  ReadReturns
