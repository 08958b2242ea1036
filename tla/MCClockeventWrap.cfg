SPECIFICATION Spec
CONSTANTS
  Period = 8
  Rounding = 1
  Floor = 10
  MinDelta = 2
  MaxSlow = 3
  Wraps = TRUE
INVARIANTS
  TickAlive
