SPECIFICATION FairSpec
CONSTANTS
  Cookies = {k1}
  Tokens = {j1}
  None = None
  MaxAttempts = 1
  MaxReloads = 1
  MaxFaults = 1
INVARIANTS TypeOK CallbackSpentOnce NoFragments NoSessionNobodyHolds SignedOutBeforeLeaving
PROPERTIES OnlyDeadSessionsEnd RefusedSessionEnds
CHECK_DEADLOCK FALSE
