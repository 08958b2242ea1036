SPECIFICATION Spec
CONSTANTS
  FlashSize = 2
  PsramSize = 4
  DtbPa = 2
  Tables <- MCTables
INVARIANT NoBurstWhileSlow
