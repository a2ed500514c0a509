SPECIFICATION FairSpec
CONSTANTS
  o1 = o1
  o2 = o2
  h1 = h1
  h2 = h2
  h3 = h3
  Object <- MCObject
  Handle <- MCHandle
INVARIANTS OwnHandle HandlesAccounted
PROPERTIES EmptyHasCause CallReturns
CHECK_DEADLOCK FALSE
