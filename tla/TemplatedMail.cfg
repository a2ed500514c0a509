SPECIFICATION FairMailSpec
CONSTANTS
  c1 = c1
  chA = chA
  chB = chB
  chS = chS
  Calls <- MCCalls
  Char <- MCChar
  Sender = chA
  Content = chB
  Special <- MCSpecial
  Expansion <- MCExpansion
  MaxTemplate = 3
  MaxQuery = 2
  MaxReplacement = 2
  MaxPairs = 1
  MaxSize = 6
INVARIANTS
  ReplacesEachOnce
  MailIsFilled
PROPERTIES
  ImplementsCurlMail
  KeepsPromise
  MailAnswered
CHECK_DEADLOCK FALSE
