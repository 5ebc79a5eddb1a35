SPECIFICATION Spec
CONSTANTS
  Creations = {create}
  Rollbacks = {}
  Pauses = {}
  Resumes = {}
  Cancellations = {cancel}
  Retries = {retry}
  Deletions = {delete}
  Requests <- MCRequests
  Kind <- MCKind
  cancel = cancel
  create = create
  delete = delete
  retry = retry
  legacy = legacy
  hierarchical = hierarchical
  None = None
  w1 = w1
  w2 = w2
  Documents = {1}
  Jobs = {1}
  Workers = {w1, w2}
  Versions = {legacy, hierarchical}
  Legacy = legacy
  Hierarchical = hierarchical
  DefaultVersion = legacy
  BatchSize = 1
  MaxAttempts = 2
  PossibleFaults = {"crash", "redelivery", "broker", "api", "database"}
  MaxFaults = 2
SYMMETRY Symmetry
INVARIANTS
  ReadyIsSearchable
  CompletedMeansDone
  JobIsDriven
  
PROPERTIES
  OnlyLateWritesRevive
CHECK_DEADLOCK FALSE
