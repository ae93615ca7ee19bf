SPECIFICATION Spec
CONSTANTS
  Docs = {d1}
  Calls = {c1}
  Bodies <- MCBodies
  Blobs <- BusyBlobs
  BodyOf <- BusyBodyOf
  Canon <- MCCanon
  NoBody = NoBody
  Bad = Bad
  NoFile = NoFile
  NoConflict = NoConflict
  Unread = Unread
  MaxRev = 2
  MaxCommits = 2
  Kinds = {"toRepo"}
  Synced = TRUE
  Exclusive = FALSE
PROPERTIES
  PushNeverDestroys
CHECK_DEADLOCK FALSE
