SPECIFICATION Spec
CONSTANTS
  u1 = u1
  u2 = u2
  f1 = f1
  q1 = q1
  q2 = q2
  None = None
  Uploads = {u1}
  Files = {f1}
  Parts = 2
  Sweepers = {"startup", "hourly"}
  Sent = {"declared", "other"}
  Requests = {q1, q2}
  MaxActiveUploads = 1
  MaxDocuments = 1
  PossibleFaults = {"crash", "sweep", "commit", "unknown", "seed"}
  MaxFaults = 2
SYMMETRY Symmetry
INVARIANTS
  CheckpointOnDisk
  NoCheckpointLost
  NoStrayOriginal
PROPERTY FileSpec
CHECK_DEADLOCK FALSE
