SPECIFICATION EditorsSpec
CONSTANTS
  x = x
  y = y
  v = v
  n = n
  None = None
  d1 = d1
  d2 = d2
  MaxTrouble = 1
  Opened = {"views", "document", "replication", "history", "indexes", "mango", "drawer", "policy", "endpoint", "access", "options", "provider"}
INVARIANTS
  EditorIsHonest
  UrlCredentialsStayHome
PROPERTIES
  SavesAreHonest
CHECK_DEADLOCK FALSE
