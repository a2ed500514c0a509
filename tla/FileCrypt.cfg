SPECIFICATION FairSpec
CONSTANTS
  k1 = k1
  k2 = k2
  ShortKey = short
  NoKey = none
  PlainSizes <- MCPlainSizes
  ChunkSizes <- MCChunkSizes
  Keys <- MCKeys
  TornSizes <- MCTornSizes
  MaxCalls = 2
  MaxFaults = 1
INVARIANTS
  EncryptComplete
  RoundTrip
  OutputOrdered
  GcmNeverGarbles
  OnlyTailMissing
PROPERTIES
  CallReturns
