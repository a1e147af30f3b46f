SPECIFICATION Spec
CONSTANTS
  g1 = g1
  g2 = g2
  Group <- MCGroup
  None = None
  Undefined = Undefined
  MaxGet = 4
INVARIANTS
  TypeOK
  UnreadMarked
  ListedIsJoined
  ListSettles
PROPERTIES
  BeatsGoOn
CHECK_DEADLOCK FALSE
