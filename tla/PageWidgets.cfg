SPECIFICATION WidgetsSpec
CONSTANTS
  d1 = d1
  d2 = d2
  m1 = m1
  Dialog = {d1, d2}
  Create = d1
  Message = {m1}
  None = None
  FloatSpace = 1
  MaxToggle = 4
  MaxAsk = 2
INVARIANTS
  PageRestored
  HandlersRestored
PROPERTIES
  HeldStill
  GoesAway
  TransitionsEnd
CHECK_DEADLOCK FALSE
