SPECIFICATION Spec
CONSTANTS
  k0 = k0
  k1 = k1
  k2 = k2
  k3 = k3
  i1 = i1
  i2 = i2
  Stranger = stranger
  NoKey = nokey
  Key <- Keys
  Half = 1048576
  U8 = 4
  Signer <- SomeSigner
  FixtureExp = 1000
  Cases <- SomeCases
  Jwks <- SomeJwks
  MaxKeys = 2
  Overrides <- SomeOverrides
  Instants <- SomeInstants
  Second = 2
  Issued <- SomeIssued
INVARIANTS TypeOK  HostsAgree ExactTime OwnArtifacts
PROPERTY ImplementsEngine
