SPECIFICATION Spec
CONSTANTS
  g1 = g1
  g2 = g2
  u1 = u1
  Group = {g1, g2}
  User = {u1}
  None = None
  Stored <- MCStored
  PageSize = 2
  MaxVisit = 2
  MaxPage = 3
  MaxLive = 1
CHECK_DEADLOCK FALSE
INVARIANTS PaneOfGroup NoneTwice NothingLost EndOfHistory
