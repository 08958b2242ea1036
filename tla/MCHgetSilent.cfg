SPECIFICATION Spec
CONSTANTS
  MaxAddrs = 1
  Timeout = 1
  MaxResolved = 1
  MaxRedirects = 0
  HdrBuf = 3
  IoBuf = 2
  Options <- MCOptions
  Responses <- MCResponses
PROPERTY
  EndsAlways
