SPECIFICATION Spec
CONSTANTS
  k1 = k1
  k2 = k2
  r1 = r1
  r2 = r2
  s = s
  q = q
  Key <- Keys
  Half = 8
  Requests <- TwoRequests
  BasePolicy <- Open
  Queries <- OneQuery
  Subscribers <- None
  Documents <- TokenAndCredential
  Overrides <- AnyOverride
  KeySets <- Unrotated
  Times <- OneTime
  Slots = 1
  MaxDecisions = 3
SYMMETRY RequestSymmetry
INVARIANT PointInTime
