SPECIFICATION FairSpec
CONSTANTS
  r = r
  a = a
  Refresher = r
  Requests <- OneRequest
  Policies <- SomePolicies
  U32 = 8
  U64 = 64
  Timeout = 3
  Floor = 12
  Http = 18
  Periods <- SomePeriods
  Delays <- SomeDelays
INVARIANTS NeverCutOff OnSchedule BackoffExact DrainBounded
PROPERTY PhasesEnd
