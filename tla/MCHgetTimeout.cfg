SPECIFICATION Spec
CONSTANTS
  MaxAddrs = 2
  Timeout = 2
  MaxResolved = 1
  MaxRedirects = 0
  HdrBuf = 3
  IoBuf = 2
  Options <- MCOptions
  Responses <- MCResponses
INVARIANT
  HonestTimeout
