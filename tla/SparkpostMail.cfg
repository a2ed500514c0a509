SPECIFICATION FairSparkpostSpec
CONSTANTS
  c1 = c1
  c2 = c2
  Calls <- MCCalls
  LoopCalls <- MCLoopCalls
  Debug = TRUE
INVARIANTS
  AnswerTrue
PROPERTIES
  GetEnds
CHECK_DEADLOCK FALSE
