SPECIFICATION Spec
CONSTANTS
  NDescs = 3
  PerLine = 2
INVARIANTS
  TypeOK
  RunsThisTransfer
  InvalidateLossless
  RetrySucceeds
  CoherentNeverDrops
PROPERTY
  RequestEnds
