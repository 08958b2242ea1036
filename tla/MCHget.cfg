SPECIFICATION Spec
CONSTANTS
  MaxAddrs = 3
  Timeout = 2
  MaxResolved = 3
  MaxRedirects = 2
  HdrBuf = 3
  IoBuf = 2
  Options <- MCOptions
  Responses <- MCResponses
INVARIANTS
  TypeOK
  OneSurvivor
  FamiliesShare
  GivesUpLate
  NothingLeft
  OutputIsPrefix
  OkIsWhole
  FileKept
  NeverUnverified
PROPERTY
  Ends
