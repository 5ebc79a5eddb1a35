SPECIFICATION Spec
CONSTANTS
  Users = {u1, u2}
  Requests = {r1, r2}
  Logins = {l1, l2}
  AttemptLimit = 1
  MaxWrites = 2
  MaxLogins = 3
  u1 = u1
  u2 = u2
  r1 = r1
  r2 = r2
  l1 = l1
  l2 = l2
  None = None
SYMMETRY Interchangeable
INVARIANTS
  AdministratorRemains
  RevokedStaysRevoked
  AttemptsAreLimited
CHECK_DEADLOCK FALSE
