SPECIFICATION Spec
CONSTANTS
  k = k
  Secret <- MCSecret
  Message <- MCMessage
  Octet <- MCOctet
  Letter <- MCLetter
  Block = 2
  MaxSealed = 1
  MaxChanges = 1
  Register = 65536
INVARIANTS
  Restores
  GcmNeverGarbles
  Base64AllButTheLast
