SPECIFICATION FairSpec
CONSTANTS
  r = r
  a = a
  b = b
  Refresher = r
  Callers <- Three
  FailureThreshold = 2
  OpenDuration = 2
INVARIANTS TypeOK ClosedCountsStreak HalfOpenAfterCooldown
PROPERTIES TripsOnlyOnStreak CooldownNotProlonged NeverWedged
