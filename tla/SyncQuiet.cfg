SPECIFICATION FairSpec
CONSTANTS
  Docs = {d1}
  Calls = {c1}
  Bodies <- MCBodies
  Blobs <- QuietBlobs
  BodyOf <- QuietBodyOf
  Canon <- MCCanon
  NoBody = NoBody
  Bad = Bad
  NoFile = NoFile
  NoConflict = NoConflict
  Unread = Unread
  MaxRev = 2
  MaxCommits = 2
  Kinds = {"toRepo", "toCouch", "delete", "forget", "ack"}
  Synced = FALSE
  Exclusive = TRUE
INVARIANTS
  ConflictIsReal
  RecordTruthful
PROPERTIES
  PushNeverDestroys
  AcknowledgedConflictStays
  CallSettles
CHECK_DEADLOCK FALSE
