SPECIFICATION FairQuerySpec
CONSTANTS
  c1 = c1
  c2 = c2
  Slot <- MCSlot
  MaxInserts = 2
  MaxFailures = 1
INVARIANTS
  ReadsWhatWasWritten
PROPERTY QueryReturns
