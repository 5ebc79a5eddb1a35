SPECIFICATION Spec
CONSTANTS
  Creations = {create}
  Retries = {retry}
  Deletions = {delete}
  None = None
  legacy = legacy
  hierarchical = hierarchical
  Documents = {d1}
  Workers = {w1, w2}
  Versions = {legacy, hierarchical}
  Hierarchical = hierarchical
  DefaultVersion = legacy
  SummaryGenerationEnabled = TRUE
  MaxPurgeRetries = 1
  Requests <- MCRequests
  Kind <- MCKind
  PossibleFaults = {"crash", "redelivery", "broker", "api", "database", "storage"}
  MaxFaults = 2
SYMMETRY Symmetry
INVARIANTS
  AllOrNothing
  StageMatchesStatus
  PurgeLeavesNothing
  NothingStranded
PROPERTIES
  OnlyRequestsRevive
  IndexSpec
CHECK_DEADLOCK FALSE
