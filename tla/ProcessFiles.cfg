SPECIFICATION Spec
CONSTANTS
  t1 = t1
  t2 = t2
  k1 = k1
  k2 = k2
  Thread <- MCThread
  Checker <- MCChecker
  Menu <- MCMenu
  Tables <- MCTables
  CsvTables <- MCCsvTables
  Rank <- MCRank
  Longs <- MCLongs
  Doubles <- MCDoubles
  PortArg <- MCPortArg
  Denied <- MCDenied
  MaxPort = 2
  Direct = 3
  MaxCalls = 2
  MaxFaults = 1
  MaxFd = 2
  MaxCrashes = 1
SYMMETRY MCSymmetry
INVARIANTS CsvHoldsPlain SavedWhole HoldsBeginning LoadsWhatWasSaved AnswerHasReason DescriptorsReturned
PROPERTIES BufferGetsFile
CHECK_DEADLOCK FALSE
