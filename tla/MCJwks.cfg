SPECIFICATION FairSpec
CONSTANTS
  r = r
  a = a
  Refresher = r
  Callers <- Two
  FailureThreshold = 2
  OpenDuration = 2
  MaxAttempts = 2
  MaxVersion = 3
INVARIANTS TypeOK AdmittedIffBusy
PROPERTIES StoresCurrentSet RegressesOnlyByOverlap StoreClosesBreaker
PROPERTIES RefreshEnds Converges ImplementsBreaker
