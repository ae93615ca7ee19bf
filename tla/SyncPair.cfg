SPECIFICATION Spec
CONSTANTS
  Docs = {d1}
  Calls = {c1, c2}
  Bodies = {A, B}
  Blobs = {A, B}
  BodyOf <- SelfRendered
  Canon <- SelfRendered
  NoBody = NoBody
  Bad = Bad
  NoFile = NoFile
  NoConflict = NoConflict
  Unread = Unread
  MaxRev = 3
  MaxCommits = 1
  Kinds = {"toRepo", "toCouch"}
  Synced = TRUE
  Exclusive = FALSE
SYMMETRY PairSymmetry
INVARIANTS
  TypeOK
  RecordedRevInGitHistory
  NoPhantomConflict
PROPERTIES
  PullNeverDestroys
  ImplementsExchange
CHECK_DEADLOCK FALSE
