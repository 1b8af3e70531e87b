SPECIFICATION Spec
CONSTANTS
  d1 = d1
  d2 = d2
  Order <- MCOrder
  None = None
  Capacity = 3
  Rows = 2
  Scrollback = 2
  LogTail = 3
  Word = 1
  MaxOutput = 3
  MaxChanges = 2
  MaxKeys = 5
INVARIANTS
  ShownAsLabelled
  CopiedLineMatches
