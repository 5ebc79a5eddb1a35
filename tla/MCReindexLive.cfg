SPECIFICATION FairSpec
CONSTANTS
  Creations = {create}
  Rollbacks = {rollback}
  Pauses = {pause}
  Resumes = {resume}
  Cancellations = {}
  Retries = {retry}
  Deletions = {}
  Requests <- MCRequests
  Kind <- MCKind
  create = create
  pause = pause
  resume = resume
  retry = retry
  rollback = rollback
  legacy = legacy
  hierarchical = hierarchical
  None = None
  w1 = w1
  w2 = w2
  Documents = {1}
  Jobs = {1, 2}
  Workers = {w1, w2}
  Versions = {legacy, hierarchical}
  Legacy = legacy
  Hierarchical = hierarchical
  DefaultVersion = legacy
  BatchSize = 1
  MaxAttempts = 1
  PossibleFaults = {"crash", "broker"}
  MaxFaults = 1
PROPERTIES
  JobsEnd
CHECK_DEADLOCK FALSE
