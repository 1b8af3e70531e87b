SPECIFICATION Spec
CONSTANTS
  d1 = d1
  d2 = d2
  a1 = a1
  a2 = a2
  home = home
  elsewhere = elsewhere
  None = None
  Sessions = {d1, d2, a1, a2}
  Daemons = {d1, d2}
  Place <- MCPlace
  Order <- MCOrder
  Ids <- MCIds
  Home = home
  Keys = {"prefix", "Tab", "[", "]", "d", "p", "l", "?", "q", "Esc", "Enter", "/", "G", "j", "k", "x"}
  MaxLaunches = 2
  MaxKeys = 3
  MaxChanges = 2
  MaxAll = 4
CHECK_DEADLOCK FALSE
INVARIANTS
  FocusIsSound
  NamesAreListed
  OwnershipIsKnown
  KeysReachShownSession
  DestructiveIsConfirmed
