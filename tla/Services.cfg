SPECIFICATION ServicesSpec
CONSTANTS
  a = a
  b = b
  x = x
  y = y
  p = p
  s1 = s1
  s2 = s2
  c1 = c1
  c2 = c2
  c3 = c3
  d1 = d1
  d2 = d2
  j1 = j1
  j2 = j2
  j3 = j3
  None = None
  Ids = {d1, d2}
  Pages = {a, b}
  Calls = {c1, c2, c3}
  TabOf <- MCTabOf
  Admins = {a}
  OpsOf <- MCOpsOf
  Absent = Absent
  Other = Other
  MaxLosses = 1
  Tabs = {a, b}
  Jobs = {j1, j2, j3}
  JobTab <- MCJobTab
  Tokens = {t1, t2}
  Labels = {l1}
  Parallel = 1
  MaxTrouble = 1
  Paths = {p, q}
  Retired = {old}
  Target = p
  Nowhere = Nowhere
  MaxEntries = 4
  MaxEvents = 2
  AtWork = {"store", "accounts", "navigation", "dots", "runner", "events"}
INVARIANTS
  ServicesAreTrue
PROPERTIES
  ImplementsDocStore
  KeptWhereSaid
  EverythingArrives
CHECK_DEADLOCK FALSE
