SPECIFICATION FairSpec
CONSTANTS
  Clients = {c1, c2}
  Documents = {d1, d2}
  MaxTurns = 2
  c1 = c1
  c2 = c2
  d1 = d1
  d2 = d2
  None = None
INVARIANTS
  OneStreamingAnswer
  CitationsAreGrounded
  ShownIsKept
PROPERTIES
  OutcomeIsFinal
  NotBlockedForever
CHECK_DEADLOCK FALSE
