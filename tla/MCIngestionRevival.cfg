SPECIFICATION Spec
CONSTANTS
  Creations = {create}
  Retries = {retry}
  Deletions = {delete}
  None = None
  legacy = legacy
  hierarchical = hierarchical
  Documents = {d1}
  Workers = {w1, w2}
  Versions = {legacy, hierarchical}
  Hierarchical = hierarchical
  DefaultVersion = hierarchical
  SummaryGenerationEnabled = TRUE
  MaxPurgeRetries = 1
  Requests <- MCRequests
  Kind <- MCKind
  PossibleFaults = {}
  MaxFaults = 0
PROPERTIES
  DeletionIsFinal
CHECK_DEADLOCK FALSE
