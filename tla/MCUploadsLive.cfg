SPECIFICATION FairSpec
CONSTANTS
  u1 = u1
  u2 = u2
  f1 = f1
  f2 = f2
  q1 = q1
  q2 = q2
  None = None
  Uploads = {u1}
  Files = {f1}
  Parts = 1
  Sent = {"declared"}
  Sweepers = {"startup", "hourly"}
  Requests = {q1}
  MaxActiveUploads = 1
  MaxDocuments = 1
  PossibleFaults = {"crash", "commit", "unknown", "sweep"}
  MaxFaults = 2
PROPERTIES
  TemporaryFilesVanish
CHECK_DEADLOCK FALSE
