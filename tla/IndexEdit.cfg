SPECIFICATION EditorsSpec
CONSTANTS
  x = x
  y = y
  v = v
  n = n
  None = None
  d1 = d1
  d2 = d2
  MaxTrouble = 1
  Opened = {"indexes"}
PROPERTIES EditKeepsTheNewIndex
CHECK_DEADLOCK FALSE
