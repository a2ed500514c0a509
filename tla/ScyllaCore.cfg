SPECIFICATION FairSpec
CONSTANTS
  i1 = i1
  i2 = i2
  h1 = h1
  h2 = h2
  u1 = u1
  p1 = p1
  ks1 = ks1
  ks2 = ks2
  NoName = none
  Garbage = garbage
  Instances <- MCInstances
  Conns <- MCConns
  Names <- MCNames
  MaxInits = 2
  MaxFaults = 1
INVARIANTS
  OkMeansConnected
  OwnConnection
  DestroyFreesAll
PROPERTIES
  LostComesBack
