SPECIFICATION FairSpec
CONSTANTS
  Second = 8
  Window = 12
  Configured <- Rates
INVARIANT AnyWindow
PROPERTIES ImplementsBucket RefusalsEnd
