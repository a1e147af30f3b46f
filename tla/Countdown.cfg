SPECIFICATION Spec
CONSTANTS
  t1 = t1
  t2 = t2
  g1 = g1
  g2 = g2
  Tab = {t1, t2}
  Group = {g1, g2}
  Room = {g1}
  Owner = {t1}
  None = None
  Sec = 2
  Lead = 1
  MaxNow = 3
  MaxStart = 1
  MaxTouch = 1
  MaxMove = 3
  MaxDeal = 1
INVARIANTS FirstGameOnTime
CHECK_DEADLOCK FALSE
