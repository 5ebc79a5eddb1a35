SPECIFICATION Spec
CONSTANTS
  d1 = d1
  d2 = d2
  t1 = t1
  t2 = t2
  None = None
  Turns = {t1, t2}
  Documents = {d1, d2}
  anything = anything
  language = language
  capitals = capitals
  Filters = {anything, language, capitals}
  Admitted <- AdmittedBy
  Normalized <- NormalizedBy
  LexicalHits = {d1}
  Relevant = {d2}
  MaxEntry = 2
  MaxBatches = 2
  MaxChanges = 4
  MaxRounds = 2
SYMMETRY Interchangeable
INVARIANTS
  EvidenceWasLive
  NothingOverlooked
  HitIsOneBatch
CHECK_DEADLOCK FALSE
