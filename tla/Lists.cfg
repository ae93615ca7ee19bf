SPECIFICATION ListsSpec
CONSTANTS
  a = a
  b = b
  r = r
  r2 = r2
  x = x
  y = y
  None = None
  MaxLoads = 2
  MaxTrouble = 1
  Opened = {"overview", "browser", "databases", "designs", "query", "compare", "users", "conflicts", "replications", "topology", "home", "entrance"}
INVARIANTS
  ListsAreTrue
PROPERTIES
  DeletesWhatWasListed
  StepsAreTrue
CHECK_DEADLOCK FALSE
