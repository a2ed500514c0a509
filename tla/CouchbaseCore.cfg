SPECIFICATION Spec
CONSTANTS
  i1 = i1
  i2 = i2
  nm = nm
  colA = colA
  colB = colB
  Empty = empty
  Default = bucket_default
  Instances <- MCInstances
  Conns <- MCConns
  Names <- MCNames
  Debug <- MCDebug
  MaxCalls = 3
  MaxFaults = 1
INVARIANTS
  OkMeansCollection
  OkFlagsRight
