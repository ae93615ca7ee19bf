SPECIFICATION Spec
CONSTANTS
  Dbs = {db1, db2}
  Urls = {u1, u2}
  Ids = {1, 2}
  Calls = {c1, c2}
  Nowhere = Nowhere
  MaxRev = 4
  Failures = TRUE
  Aftermath = TRUE
SYMMETRY Symmetry
INVARIANT TypeOK
PROPERTIES RegisterSelfHeals NobodyUntracked NothingStranded
CHECK_DEADLOCK FALSE
