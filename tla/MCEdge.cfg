SPECIFICATION Spec
CONSTANTS
  k1 = k1
  k2 = k2
  r1 = r1
  r2 = r2
  s = s
  q = q
  Key <- Keys
  Half = 8
  Requests <- TwoRequests
  BasePolicy <- Open
  Queries <- OneQuery
  Subscribers <- OneClient
  Documents <- Presented
  Overrides <- NoOverrides
  KeySets <- Rotation
  Times <- Clock
  Slots = 1
  MaxDecisions = 2
SYMMETRY RequestSymmetry
INVARIANTS CountersMatchEvents AcceptedByOfferedKey DisorderOnlyByOverlap StatsWithinQuery
