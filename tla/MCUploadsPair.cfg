SPECIFICATION Spec
CONSTANTS
  u1 = u1
  u2 = u2
  f1 = f1
  f2 = f2
  q1 = q1
  q2 = q2
  None = None
  Uploads = {u1, u2}
  Files = {f1, f2}
  Parts = 1
  Sweepers = {}
  Sent = {"declared"}
  Requests = {q1, q2}
  MaxActiveUploads = 2
  MaxDocuments = 1
  PossibleFaults = {}
  MaxFaults = 0
SYMMETRY Symmetry
INVARIANTS
  DocumentLimitHolds
CHECK_DEADLOCK FALSE
