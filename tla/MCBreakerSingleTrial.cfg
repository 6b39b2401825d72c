SPECIFICATION Spec
CONSTANTS
  r = r
  a = a
  b = b
  Refresher = r
  Callers <- Three
  FailureThreshold = 2
  OpenDuration = 2
INVARIANT SingleTrial
