SPECIFICATION Spec
CONSTANTS
  PoolPages = 4
  BuddyPages = 4
  MaxLen = 3
  RoundUp <- MCRoundUp
  Procs = {p1, p2}
  Regions = {r1, r2, r3}
  NoRegion = NoRegion
  NoMm = NoMm
SYMMETRY Symmetry
PROPERTY
  KeepsLedger
INVARIANTS
  TypeOK
  NoAliasing
  HomeAllocator
  NoLeak
