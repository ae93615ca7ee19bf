SPECIFICATION ListsSpec
CONSTANTS
  a = a
  b = b
  r = r
  r2 = r2
  x = x
  y = y
  None = None
  MaxLoads = 2
  MaxTrouble = 1
  Opened = {"designs"}
PROPERTIES OtherDatabasesStayLinked
CHECK_DEADLOCK FALSE
