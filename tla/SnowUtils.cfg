SPECIFICATION Spec
CONSTANTS
  t1 = t1
  t2 = t2
  t3 = t3
  Thread = {t1, t2, t3}
  SeqSize = 2
  NodeCount = 2
  Node = 1
  MaxGap = 2
  MaxBack = 2
  MaxCall = 6
PROPERTIES SnowUtilsIsIdSource CallsEnd
