SPECIFICATION Spec
CONSTANTS
  Docs = {d1, d2}
  Calls = {c1}
  Bodies <- MCBodies
  Blobs <- BusyBlobs
  BodyOf <- BusyBodyOf
  Canon <- MCCanon
  NoBody = NoBody
  Bad = Bad
  NoFile = NoFile
  NoConflict = NoConflict
  Unread = Unread
  MaxRev = 2
  MaxCommits = 1
  Kinds = {"toRepo", "toCouch", "delete", "forget", "ack"}
  Synced = TRUE
  Exclusive = TRUE
SYMMETRY DocSymmetry
PROPERTIES
  SavedRecordIsCurrent
  PullIsAllOrNothing
CHECK_DEADLOCK FALSE
