SPECIFICATION Spec
CONSTANTS
  k1 = k1
  k2 = k2
  bad = bad
  Key <- Keys
  Half = 8
  Cases <- SomeCases
  Jwk <- SomeJwks
  MaxKeys = 2
  Overrides <- SomeOverrides
  Times <- Clock
INVARIANTS SignatureIffAuthentic SkewTolerated WrapNeverAdmits OverrideKeepsRest
PROPERTY NewKeyKeepsVerdicts
