SPECIFICATION FairSpec
CONSTANTS
  Workers = {w1, w2}
  Clients = {c1, c2}
  Jobs = {j1, j2, j3}
  None = None
  Minimum = 0
  Maximum = 1
  LingerZero = FALSE
  CreateMayFail = FALSE
PROPERTIES JobsServed WaitReturns DestroyReturnsIfEmpty
CHECK_DEADLOCK FALSE
