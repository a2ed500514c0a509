SPECIFICATION FairSparkpostSpec
CONSTANTS
  c1 = c1
  c2 = c2
  Calls <- MCCalls
  LoopCalls <- MCLoopCalls
  Debug = FALSE
PROPERTY SparkpostKeepsPromise
CHECK_DEADLOCK FALSE
